------------------------------ MODULE PasswordPages ------------------------------
(***************************************************************************)
(* The pages that links in mails lead to: the one that verifies an email   *)
(* address (web/app/(auth)/verify-email/page.tsx) and the one that changes *)
(* a password (change-password/page.tsx), which asks the server about its  *)
(* token before it shows the form.  Both go to the sign-in page by a timer *)
(* that nothing stops.  What the server does is left open: nothing under   *)
(* src/ answers these requests.                                            *)
(***************************************************************************)
EXTENDS Naturals

CONSTANTS
  None,       \* no token in the link
  Slots,      \* bound: changes under way at once
  MaxChanges  \* bound: requests the server carries out

VARIABLES
  db,    \* requests the server has carried out for the link
  seen,  \* the token of the link, or None
  ui,    \* the page and its React state
  net,   \* slot or "verify" -> the step of that request; the timer
  told   \* history: changes the user was told of

vars == <<db, seen, ui, net, told>>

Pages == {"verify-email", "change-password"}

\* There is a token or the page says that there is none.
Opened(page, token) ==
  [route |-> page, verifyingToken |-> token # None, isValidToken |-> FALSE,
   error |-> token = None, success |-> FALSE]

Init ==
  /\ \E page \in Pages, token \in {None, "token"} :
       /\ seen = token
       /\ ui = Opened(page, token)
       /\ net = [x \in Slots \cup {"verify", "timer"} |->
                   IF x = "verify" /\ token # None THEN "sent" ELSE "idle"]
  /\ db = 0 /\ told = 0

isProcessing == \E s \in Slots : net[s] # "idle"
Here == ui.route # "signin"

----------------------------------------------------------------------------
(* The server, and answers on their way *)

Served(x) ==
  /\ net[x] = "sent" /\ x # "timer"
  /\ \/ db < MaxChanges /\ net' = [net EXCEPT ![x] = "ok"]
        /\ db' = IF x \in Slots \/ ui.route = "verify-email" THEN db + 1 ELSE db
     \/ net' = [net EXCEPT ![x] = "refused"] /\ UNCHANGED db
  /\ UNCHANGED <<seen, ui, told>>

\* A connection may be lost at any time.
Lost(x) ==
  /\ net[x] \in {"sent", "ok"}
  /\ net' = [net EXCEPT ![x] = "refused"]
  /\ UNCHANGED <<db, seen, ui, told>>

----------------------------------------------------------------------------
(* The email address *)

verify ==
  /\ ui.route = "verify-email" /\ net["verify"] \in {"ok", "refused"}
  /\ LET ok == net["verify"] = "ok" IN
     /\ ui' = [ui EXCEPT !.verifyingToken = FALSE, !.success = ok, !.error = ~ok]
     /\ net' = [net EXCEPT !["verify"] = "idle", !["timer"] = IF ok THEN "sent" ELSE @]
     /\ told' = IF ok THEN told + 1 ELSE told
  /\ UNCHANGED <<db, seen>>

----------------------------------------------------------------------------
(* The password *)

verifyToken ==
  /\ ui.route = "change-password" /\ net["verify"] \in {"ok", "refused"}
  /\ LET ok == net["verify"] = "ok" IN
     ui' = [ui EXCEPT !.verifyingToken = FALSE, !.isValidToken = ok, !.error = ~ok]
  /\ net' = [net EXCEPT !["verify"] = "idle"]
  /\ UNCHANGED <<db, seen, told>>

\* The form, with the token verified and until the password is changed.
FormShown == ui.isValidToken /\ ~ui.success /\ ~ui.verifyingToken

\* Mutant: the button is not disabled.
ChangePasswordFormEager(s) ==
  /\ ui.route = "change-password" /\ FormShown /\ net[s] = "idle"
  /\ ui' = [ui EXCEPT !.error = FALSE, !.success = FALSE]
  /\ net' = [net EXCEPT ![s] = "sent"]

ChangePasswordForm(s) ==
  /\ ui.route = "change-password" /\ FormShown /\ ~isProcessing
  /\ ui' = [ui EXCEPT !.error = FALSE, !.success = FALSE]
  /\ net' = [net EXCEPT ![s] = "sent"]

onSubmit(s) == ChangePasswordForm(s) /\ UNCHANGED <<db, seen, told>>

\* Mutant: the timer is set whatever the answer.
RedirectsWhatever(ok) == [net EXCEPT !["timer"] = "sent"]
Redirects(ok) == IF ok THEN [net EXCEPT !["timer"] = "sent"] ELSE net

Changed(s) ==
  /\ net[s] \in {"ok", "refused"}
  /\ LET ok == net[s] = "ok" IN
     /\ ui' = IF Here THEN [ui EXCEPT !.success = ok, !.error = ~ok] ELSE ui
     /\ net' = [Redirects(ok) EXCEPT ![s] = "idle"]
     /\ told' = IF ok THEN told + 1 ELSE told
  /\ UNCHANGED <<db, seen>>

----------------------------------------------------------------------------
(* To the sign-in page *)

\* The timer's push, wherever the user is by then, or the button beside an error.
Push ==
  /\ net["timer"] = "sent"
  /\ ui' = [ui EXCEPT !.route = "signin"]
  /\ net' = [net EXCEPT !["timer"] = "idle"]
  /\ UNCHANGED <<db, seen, told>>
GoBackToLogin ==
  /\ Here /\ ui.error
  /\ ui' = [ui EXCEPT !.route = "signin"]
  /\ UNCHANGED <<db, seen, net, told>>

Next ==
  \/ verify \/ verifyToken \/ Push \/ GoBackToLogin
  \/ \E x \in Slots \cup {"verify"} : Served(x) \/ Lost(x)
  \/ \E s \in Slots : onSubmit(s) \/ Changed(s)

Spec == Init /\ [][Next]_vars

----------------------------------------------------------------------------
(* Properties *)

TypeOK ==
  /\ db \in 0..MaxChanges /\ told \in 0..MaxChanges /\ seen \in {None, "token"}
  /\ ui \in [route: Pages \cup {"signin"}, verifyingToken: BOOLEAN, isValidToken: BOOLEAN,
             error: BOOLEAN, success: BOOLEAN]
  /\ net \in [Slots \cup {"verify", "timer"} -> {"idle", "sent", "ok", "refused"}]

\* A link is good for one change: however the user presses and whatever is lost, one
\* at most is reported done.
ToldOnce == told <= 1

\* The user is sent to the sign-in page only when what the link is for was done.
LeftWhenDone ==
  (net["timer"] = "sent" \/ (~Here /\ ~ui.error)) => told >= 1 /\ db >= told

=============================================================================
