------------------------------ MODULE AccountPage ------------------------------
(***************************************************************************)
(* The account page (web/app/(protected)/account/page.tsx): its dialogs,   *)
(* the calls they make and the user the provider shows, read again after   *)
(* each of them.  Of the profile the name and the email are kept apart,    *)
(* whose dialogs share one mutation; the avatar, the Google link and the   *)
(* number of passkeys only as how often the profile has changed.  It is    *)
(* one visit to the page: calls of an earlier one are not followed.        *)
(***************************************************************************)
EXTENDS Naturals, FiniteSets

CONSTANTS
  Texts,      \* what the user may type
  None,       \* no text: an empty or too short field, no item
  Slots,      \* bound: calls open at once
  MaxChanges  \* bound: changes of the profile

VARIABLES
  db,    \* the server's profile
  seen,  \* the user on the screen: the profile as last read
  ui,    \* the React state
  net,   \* slot -> the call in it, or Idle
  told   \* history: what the user was told is saved; blurred: a refresh was lost,
         \* overtaken or left out, and none was sent alone since

vars == <<db, seen, ui, net, told>>

Idle == [kind |-> "idle"]
Open(kinds) == {s \in Slots : net[s].kind \in kinds}
Dialogs == {"none", "name", "email", "password", "device", "signIn", "passkeyName"}
Fields == {"name", "email"}
\* The calls that refresh the user when they have succeeded, and the others.
Refreshing == Fields \cup {"password", "avatar", "link", "unlink", "register"}
Changes(kind) == kind \in Refreshing \cup {"deletePasskey"}
Quiet == {"device", "session", "renamePasskey", "deletePasskey"}

Init ==
  /\ \E t \in Texts : db = [name |-> t, email |-> t, version |-> 0]
  /\ seen = db
  /\ ui = [dialog |-> "none", draft |-> None, registering |-> FALSE]
  /\ net = [s \in Slots |-> Idle]
  /\ told = [name |-> None, email |-> None, blurred |-> FALSE]

----------------------------------------------------------------------------
(* Handlers *)

Dialog(d, draft) ==
  /\ ui' = [ui EXCEPT !.dialog = d, !.draft = draft]
  /\ UNCHANGED <<db, seen, net, told>>

openNameDialog == Dialog("name", seen.name)
openEmailDialog == Dialog("email", seen.email)

\* Escape, a click outside; the passkey's name is asked for over the sign-in methods.
onOpenChange == Dialog(IF ui.dialog = "passkeyName" THEN "signIn" ELSE "none", None)
Type == \E t \in Texts \cup {None} : Dialog(ui.dialog, t)

Send(s, kind, says) ==
  /\ net[s] = Idle
  /\ net' = [net EXCEPT ![s] = [kind |-> kind, says |-> says, step |-> "sent"]]
  /\ UNCHANGED <<db, seen, told>>
mutateAsync(s, kind) == Send(s, kind, None) /\ UNCHANGED ui

\* Mutant: a button waits for nothing.
isPendingNever(kinds) == FALSE
isPending(kinds) == Open(kinds) # {}

handleNameSave(s) == ui.draft # None /\ Send(s, "name", ui.draft) /\ UNCHANGED ui
handleEmailSave(s) == ui.draft # None /\ Send(s, "email", ui.draft) /\ UNCHANGED ui
handlePasswordChange(s) == ui.draft # None /\ mutateAsync(s, "password")
handleDeleteSession(s) == mutateAsync(s, "session")
handleAddDevice(s) == ui.draft # None /\ mutateAsync(s, "device")
handleAvatarChange(s) == mutateAsync(s, "avatar")
handleRemoveAvatar(s) == mutateAsync(s, "avatar")

\* Google's window has been agreed to; while it is open nothing is pending.
handleLinkGoogle(s) == mutateAsync(s, "link")
handleUnlinkGoogle(s) == mutateAsync(s, "unlink")

\* The registration begins, the authenticator is asked, the registration finishes.
handleRegisterPasskey(s) ==
  Send(s, "register", None) /\ ui' = [ui EXCEPT !.registering = TRUE]

handleRenamePasskey(s) == ui.draft # None /\ mutateAsync(s, "renamePasskey")
handleDeletePasskey(s) == mutateAsync(s, "deletePasskey")

----------------------------------------------------------------------------
(* What the page and its dialogs let the user do *)

BasicInfo(s) == handleRemoveAvatar(s) \/ handleAvatarChange(s) \/ openNameDialog

\* The password's and the device's dialogs keep what was typed in them before.
AccountSettings ==
  \/ openEmailDialog
  \/ \E t \in Texts \cup {None} : Dialog("password", t)
  \/ Dialog("signIn", None)

AccountLogs(s) ==
  \/ \E t \in Texts \cup {None} : Dialog("device", t)
  \/ handleDeleteSession(s)

\* Two dialogs share updateUser, so the button of either waits for both.
NameDialog(s) == Type \/ (~isPending(Fields) /\ handleNameSave(s))
EmailDialog(s) == Type \/ (~isPending(Fields) /\ handleEmailSave(s))
PasswordDialog(s) == Type \/ (~isPending({"password"}) /\ handlePasswordChange(s))
AddDeviceDialog(s) == Type \/ (~isPending({"device"}) /\ handleAddDevice(s))
SignInDialog(s) ==
  \/ ~isPending({"unlink"}) /\ handleUnlinkGoogle(s)
  \/ ~isPending({"link"}) /\ handleLinkGoogle(s)
  \/ ~ui.registering /\ handleRegisterPasskey(s)
  \/ \E t \in Texts : Dialog("passkeyName", t)
  \/ handleDeletePasskey(s)
PasskeyNameDialog(s) == Type \/ (~isPending({"renamePasskey"}) /\ handleRenamePasskey(s))

Page(s) ==
  \/ ui.dialog = "none" /\ (BasicInfo(s) \/ AccountSettings \/ AccountLogs(s))
  \/ ui.dialog = "name" /\ NameDialog(s)
  \/ ui.dialog = "email" /\ EmailDialog(s)
  \/ ui.dialog = "password" /\ PasswordDialog(s)
  \/ ui.dialog = "device" /\ AddDeviceDialog(s)
  \/ ui.dialog = "signIn" /\ SignInDialog(s)
  \/ ui.dialog = "passkeyName" /\ PasskeyNameDialog(s)
  \/ ui.dialog # "none" /\ onOpenChange

----------------------------------------------------------------------------
(* Answers *)

\* The server does what the call asks; a refresh reads the profile.
ServerDoes(s) ==
  /\ net[s] # Idle /\ net[s].step = "sent"
  /\ IF net[s].kind = "refresh"
     THEN /\ net' = [net EXCEPT ![s] = [net[s] EXCEPT !.step = "done", !.says = db]]
          /\ UNCHANGED db
     ELSE /\ net' = [net EXCEPT ![s].step = "done"]
          /\ Changes(net[s].kind) => db.version < MaxChanges
          /\ db' = [name |-> IF net[s].kind = "name" THEN net[s].says ELSE db.name,
                    email |-> IF net[s].kind = "email" THEN net[s].says ELSE db.email,
                    version |-> IF Changes(net[s].kind) THEN db.version + 1 ELSE db.version]
  /\ UNCHANGED <<seen, ui, told>>

\* What a success does to the page: a late one closes a dialog opened since.
After(kind) ==
  [ui EXCEPT
     !.dialog = IF kind \in {"name", "email", "password", "device"} /\ @ = kind THEN "none"
                ELSE IF kind = "renamePasskey" /\ @ = "passkeyName" THEN "signIn" ELSE @,
     !.draft = IF kind \in {"name", "email", "password", "device"} /\ ui.dialog = kind THEN None ELSE @,
     !.registering = @ /\ kind # "register"]

\* The slot goes on as the refresh, or is done.
SucceedsRefreshing(s, refreshing) ==
  LET kind == net[s].kind IN
  /\ net[s] # Idle /\ net[s].step = "done" /\ kind # "refresh"
  /\ ui' = After(kind)
  /\ net' = [net EXCEPT ![s] = IF kind \in refreshing
                               THEN [kind |-> "refresh", says |-> None, step |-> "sent"] ELSE Idle]
  /\ told' = [name |-> IF kind = "name" THEN net[s].says ELSE told.name,
              email |-> IF kind = "email" THEN net[s].says ELSE told.email,
              blurred |-> kind = "deletePasskey"
                          \/ (told.blurred /\ ~(kind \in refreshing /\ Open({"refresh"}) = {}))]
  /\ UNCHANGED <<db, seen>>

\* Mutant: a new email is not asked for.
SucceedsStale(s) == SucceedsRefreshing(s, Refreshing \ {"email"})
Succeeds(s) == SucceedsRefreshing(s, Refreshing)

\* refreshUser has the answer of /auth/me: whichever comes last is shown.
Refreshed(s) ==
  /\ net[s].kind = "refresh" /\ net[s].step = "done"
  /\ seen' = net[s].says
  /\ net' = [net EXCEPT ![s] = Idle]
  /\ told' = [told EXCEPT !.blurred = @ \/ net[s].says.version < seen.version]
  /\ UNCHANGED <<db, ui>>

\* An error, or an answer that is lost when the server has done it.
Fails(s) ==
  /\ net[s] # Idle
  /\ net' = [net EXCEPT ![s] = Idle]
  /\ ui' = [ui EXCEPT !.registering = @ /\ net[s].kind # "register"]
  /\ told' = [name |-> IF net[s].kind = "name" THEN None ELSE told.name,
              email |-> IF net[s].kind = "email" THEN None ELSE told.email,
              blurred |-> told.blurred \/ net[s].kind = "refresh"
                          \/ (net[s].step = "done" /\ Changes(net[s].kind))]
  /\ UNCHANGED <<db, seen>>

Answers(s) == ServerDoes(s) \/ Succeeds(s) \/ Refreshed(s) \/ Fails(s)

Next == \E s \in Slots : Page(s) \/ Answers(s)

Spec == Init /\ [][Next]_vars

----------------------------------------------------------------------------
(* Properties *)

Profile == [name: Texts, email: Texts, version: 0..MaxChanges]
TypeOK ==
  /\ db \in Profile /\ seen \in Profile
  /\ ui \in [dialog: Dialogs, draft: Texts \cup {None}, registering: BOOLEAN]
  /\ net \in [Slots -> {Idle} \cup [kind: Refreshing \cup Quiet \cup {"refresh"},
                                    says: Texts \cup {None} \cup Profile, step: {"sent", "done"}]]
  /\ told \in [name: Texts \cup {None}, email: Texts \cup {None}, blurred: BOOLEAN]

\* The name and the email the user was last told are saved are those on the
\* server: neither save undoes the other's field, and none is overtaken.
SavedIsStored ==
  \A f \in Fields : told[f] = None \/ db[f] = told[f] \/ Open({f}) # {}

\* With no call open the page shows the profile as the server has it, also when several
\* changes and refreshes overlapped: unless a refresh failed, an older answer overtook a
\* newer one or a passkey was deleted (which refreshes none), and until the next refresh
\* that is sent alone.
ProfileIsShown == (\A s \in Slots : net[s] = Idle) /\ ~told.blurred => seen = db

=============================================================================
