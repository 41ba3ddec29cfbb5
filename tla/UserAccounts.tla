------------------------------ MODULE UserAccounts ------------------------------
(***************************************************************************)
(* The accounts of users as requests change them: the admin's update and   *)
(* deactivation (internal/handler/users.go), sign-up, the ways to sign in  *)
(* (internal/handler/auth.go, internal/service/auth_service.go) and the    *)
(* link to a Google account (internal/handler/profile.go).  Each statement *)
(* of internal/repository/user_repo.go is one step, and between two of     *)
(* them the request may fail.  A Google account is known by its email.     *)
(* Names, roles and passwords are left out; that one of them is refused or *)
(* already taken is a failure like others.                                 *)
(***************************************************************************)
EXTENDS FiniteSets

CONSTANTS
  Ids,    \* users, those still to be created among them
  Mails,
  Slots,  \* bound: requests served at once
  None

VARIABLES
  users,  \* the table; a user that does not exist yet is NoUser
  reqs    \* slot -> the request and what it has read

vars == <<users, reqs>>

NoUser == [email |-> None, google |-> None, active |-> FALSE]

\* row: the user as read; field: what an update asks for (None: something left out
\* here).  History: old, the fields that changed since an update read them; active,
\* linked: the user was active, or had the Google account, at some time while the
\* sign-in had to do with it.
Idle == [pc |-> "idle", who |-> None, mail |-> None, email |-> None, isActive |-> FALSE,
         field |-> None, old |-> {}, active |-> FALSE, linked |-> FALSE]

Fields == {"email", "active"}
Exists(i) == users[i].email # None
GetByEmail(mail) == {i \in Ids : users[i].email = mail}
GetByGoogleID(mail) == {i \in Ids : users[i].google = mail}

Init ==
  /\ users \in [Ids -> {NoUser} \cup [email: Mails, google: {None}, active: {TRUE}]]
  /\ \A i, j \in Ids : i # j /\ Exists(i) => users[i].email # users[j].email
  /\ reqs = [s \in Slots |-> Idle]

----------------------------------------------------------------------------
(* Steps of a request *)

\* What changes in the table goes into the history of every request.
Noted(r) ==
  IF r.pc \in {"idle", "register", "byEmail", "create", "set", "tokens"} THEN r
  ELSE IF r.pc = "write"
  THEN [r EXCEPT !.old = @ \cup {f \in Fields : users'[r.who][f] # users[r.who][f]}]
  ELSE [r EXCEPT !.active = @ \/ users'[r.who].active,
                 !.linked = @ \/ (r.mail # None /\ users'[r.who].google = r.mail)]
Becomes(s, r) == reqs' = [t \in Slots |-> Noted(IF t = s THEN r ELSE reqs[t])]
Others == reqs' = [t \in Slots |-> Noted(reqs[t])]

Goes(s, r) == UNCHANGED users /\ Becomes(s, r)
Begins(s, r) == reqs[s] = Idle /\ Goes(s, r)

\* An error, a timeout or a client that is gone; or the answer has been read.
Ends(s) == reqs[s].pc # "idle" /\ Goes(s, Idle)

\* The INSERT of a new user; email is UNIQUE.  Mutant of mayInsert: it is not.
mayInsertAnyway(mail) == TRUE
mayInsert(mail) == GetByEmail(mail) = {}
Create(s, mail, next) ==
  /\ mayInsert(mail)
  /\ \E i \in Ids :
       /\ ~Exists(i)
       /\ users' = [users EXCEPT ![i] = [email |-> mail, google |-> None, active |-> TRUE]]
       /\ Becomes(s, IF next = Idle THEN Idle ELSE [next EXCEPT !.who = i])

----------------------------------------------------------------------------
(* Users *)

\* The row is read and a field of it changed; None: another one, left out here, or one
\* that only an admin may change.
UpdateRead(s) ==
  \E i \in {j \in Ids : Exists(j)} :
    LET r == [Idle EXCEPT !.pc = "write", !.who = i,
                          !.email = users[i].email, !.isActive = users[i].active] IN
    \/ Begins(s, r)
    \/ \E mail \in Mails : Begins(s, [r EXCEPT !.field = "email", !.email = mail])
    \/ \E active \in BOOLEAN : Begins(s, [r EXCEPT !.field = "active", !.isActive = active])

\* The whole row, as far as the UPDATE names it, is written back.  Mutant of Written:
\* the switch is on when the request does not name it.
WrittenOn(r) == [users[r.who] EXCEPT !.email = r.email,
                                     !.active = r.field = "active" => r.isActive]
Written(r) == [users[r.who] EXCEPT !.email = r.email, !.active = r.isActive]
Update(s) ==
  LET r == reqs[s] IN
  /\ r.pc = "write" /\ GetByEmail(r.email) \subseteq {r.who}
  /\ users' = [users EXCEPT ![r.who] = Written(r)]
  /\ Becomes(s, Idle)

Deactivate ==
  \E i \in {j \in Ids : Exists(j)} :
    users' = [users EXCEPT ![i].active = FALSE] /\ Others

\* An admin creates a user.
CreateUser == \E s \in Slots, mail \in Mails : reqs[s] = Idle /\ Create(s, mail, Idle)

----------------------------------------------------------------------------
(* Signing up and in *)

Register(s) ==
  \E mail \in Mails :
    /\ GetByEmail(mail) = {}
    /\ Begins(s, [Idle EXCEPT !.pc = "register", !.mail = mail])
RegisterCreate(s) == reqs[s].pc = "register" /\ Create(s, reqs[s].mail, Idle)

\* The user as read, for whom tokens are to be issued.
Read(r, i) ==
  [r EXCEPT !.pc = "issue", !.who = i, !.isActive = users[i].active,
            !.active = users[i].active, !.linked = r.mail # None /\ users[i].google = r.mail]
\* The tokens are in the answer; of the user only the history is kept.
Tokens(r) == [r EXCEPT !.pc = "tokens", !.who = None, !.isActive = FALSE]

\* With a password; with the refresh token of some earlier sign-in.
Login(s) == \E i \in Ids : users[i].active /\ Begins(s, Tokens(Read(Idle, i)))

Refresh(s) == \E i \in Ids : users[i].active /\ Begins(s, Tokens(Read(Idle, i)))

PasskeyFinishLogin(s) == \E i \in Ids : Exists(i) /\ Begins(s, Read(Idle, i))

\* Mutant of mayIssue: whoever was found may sign in.
mayIssueAlways(r) == TRUE
mayIssue(r) == r.isActive
IssueTokens(s) ==
  LET r == reqs[s] IN
  /\ r.pc = "issue" /\ mayIssue(r)
  /\ Goes(s, Tokens(r))

\* The user is looked for by the Google account, then by its email, and created.
GoogleLogin(s) ==
  \E mail \in Mails :
    LET r == [Idle EXCEPT !.mail = mail, !.pc = "byEmail"] IN
    \/ GetByGoogleID(mail) = {} /\ Begins(s, r)
    \/ \E i \in GetByGoogleID(mail) : Begins(s, Read(r, i))

\* Mutant of Found: who is found by the email needs no link.
FoundIsIn(r, i) == Read(r, i)
Found(r, i) == [r EXCEPT !.who = i, !.pc = "link"]

GoogleByEmail(s) ==
  LET r == reqs[s] IN
  /\ r.pc = "byEmail"
  /\ \/ GetByEmail(r.mail) = {} /\ Goes(s, [r EXCEPT !.pc = "create"])
     \/ \E i \in GetByEmail(r.mail) : Goes(s, Found(r, i))

GoogleCreate(s) ==
  reqs[s].pc = "create" /\ Create(s, reqs[s].mail, [reqs[s] EXCEPT !.pc = "link"])

\* google_id is UNIQUE; whatever Google account the user had is replaced.
SetGoogleID(i, mail) ==
  /\ GetByGoogleID(mail) \subseteq {i}
  /\ users' = [users EXCEPT ![i].google = mail]

GoogleLink(s) ==
  /\ reqs[s].pc = "link"
  /\ SetGoogleID(reqs[s].who, reqs[s].mail)
  /\ Becomes(s, [reqs[s] EXCEPT !.pc = "again"])

\* The user is read again; if that fails nobody is active.
GoogleReadAgain(s) ==
  /\ reqs[s].pc = "again"
  /\ Goes(s, [reqs[s] EXCEPT !.pc = "issue", !.isActive = users[reqs[s].who].active])

----------------------------------------------------------------------------
(* The profile *)

\* The Google account may not be another user's.
LinkGoogle(s) ==
  \E i \in {j \in Ids : Exists(j)}, mail \in Mails :
    /\ GetByGoogleID(mail) \subseteq {i}
    /\ Begins(s, [Idle EXCEPT !.pc = "set", !.who = i, !.mail = mail])
LinkGoogleSet(s) ==
  /\ reqs[s].pc = "set"
  /\ SetGoogleID(reqs[s].who, reqs[s].mail)
  /\ Becomes(s, Idle)

UnlinkGoogle ==
  /\ \E i \in Ids : users[i].google # None /\ users' = [users EXCEPT ![i].google = None]
  /\ Others

----------------------------------------------------------------------------
Next ==
  \/ Deactivate \/ CreateUser \/ UnlinkGoogle
  \/ \E s \in Slots :
       \/ UpdateRead(s) \/ Update(s) \/ Register(s) \/ RegisterCreate(s)
       \/ Login(s) \/ Refresh(s) \/ PasskeyFinishLogin(s) \/ IssueTokens(s)
       \/ GoogleLogin(s) \/ GoogleByEmail(s) \/ GoogleCreate(s) \/ GoogleLink(s) \/ GoogleReadAgain(s)
       \/ LinkGoogle(s) \/ LinkGoogleSet(s)
       \/ Ends(s)

Spec == Init /\ [][Next]_vars

----------------------------------------------------------------------------
(* Properties *)

User == [email: Mails \cup {None}, google: Mails \cup {None}, active: BOOLEAN]
Pcs == {"idle", "write", "register", "tokens", "issue", "byEmail", "create", "link", "again", "set"}
Request ==
  [pc: Pcs, who: Ids \cup {None}, mail: Mails \cup {None}, email: Mails \cup {None}, isActive: BOOLEAN,
   field: Fields \cup {None}, old: SUBSET Fields, active: BOOLEAN, linked: BOOLEAN]

\* Every variable stays in its type.
TypeOK == users \in [Ids -> User] /\ reqs \in [Slots -> Request]

\* An email and a Google account are one user's, however sign-ups and sign-ins that
\* found neither interleave (auth.go 155-190).
OneUserEach ==
  \A i, j \in Ids : i # j => /\ Exists(i) => users[i].email # users[j].email
                             /\ users[i].google # None => users[i].google # users[j].google

\* Tokens are given to a user who was active at some time while the request ran: none
\* that begins after a deactivation is answered gets any (auth_service.go 74, 118, 169).
OnlyActiveSignIn == \A s \in Slots : reqs[s].pc = "tokens" => reqs[s].active

\* Who signs in with Google is given the tokens of a user who had that Google account
\* at some time while the request ran, even if links change meanwhile.
OwnerSignsIn ==
  \A s \in Slots : reqs[s].pc = "tokens" /\ reqs[s].mail # None => reqs[s].linked

\* A user's email or switch changes only because a request asks for this, or because an
\* update had read the user before another change to that field, which is then lost
\* (users.go 97-130).  In particular a user who was deactivated stays so.
UpdatesKept ==
  [][\A i \in Ids : \A f \in Fields :
       Exists(i) /\ users'[i][f] # users[i][f] =>
         \/ f = "active" /\ ~users'[i].active
         \/ \E s \in Slots : reqs[s].pc = "write" /\ reqs[s].who = i
                            /\ (reqs[s].field = f \/ f \in reqs[s].old)]_vars

=============================================================================
