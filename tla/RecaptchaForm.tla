------------------------------ MODULE RecaptchaForm ------------------------------
(***************************************************************************)
(* The form that asks for a password reset                                 *)
(* (web/app/(auth)/reset-password/page.tsx) behind a captcha: the popover  *)
(* (components/common/recaptcha-popover.tsx) and the hook that renders     *)
(* Google's widget (hooks/use-recaptcha-v2.ts).  The submit button is also *)
(* the popover's trigger, but only the page opens the popover, once the    *)
(* email is valid.  The popover's content, with the container the widget   *)
(* is rendered into, is there while it is open.  A site key is set.        *)
(***************************************************************************)
EXTENDS Naturals

CONSTANTS
  MaxWidgets,  \* bound: widgets rendered
  None         \* no request

VARIABLES
  db,    \* Google: the widgets whose captcha is solved at present
  seen,  \* the hook's references
  ui,    \* the page, and the container: there or not, the widget in it or 0
  net,   \* what is under way: the timer of the popover, the script, the request
  told   \* history: whose response was sent; rendering that another disturbed

vars == <<db, seen, ui, net, told>>

Widgets == 1..MaxWidgets
NoBox == [there |-> FALSE, widget |-> 0]
EmptyBox == [there |-> TRUE, widget |-> 0]

\* rendered: how many widgets there have been.
Init ==
  /\ db = [solved |-> {}, rendered |-> 0]
  /\ seen = [widgetId |-> 0, isRendered |-> FALSE, isInitializing |-> FALSE]
  /\ ui = [email |-> FALSE, isProcessing |-> FALSE, success |-> FALSE, box |-> NoBox]
  /\ net = [timer |-> FALSE, script |-> "none", request |-> None]
  /\ told = [sent |-> {}, disturbed |-> FALSE]

showRecaptcha == ui.box.there

----------------------------------------------------------------------------
(* useRecaptchaV2 *)

\* A widget that is reset has no response any more, and is forgotten.
Reset(id) == db' = [db EXCEPT !.solved = @ \ {id}] /\ told' = [told EXCEPT !.sent = @ \ {id}]
Forgotten == [seen EXCEPT !.widgetId = 0, !.isRendered = FALSE]

resetCaptcha ==
  IF seen.widgetId = 0 THEN UNCHANGED <<db, told, seen>> ELSE Reset(seen.widgetId) /\ seen' = Forgotten

loadRecaptchaScript == IF net.script = "none" THEN "loading" ELSE net.script

\* Until it waits for the script.  There is one initialization at a time.
initializeRecaptcha ==
  IF seen.isInitializing \/ ~ui.box.there
  THEN net' = [net EXCEPT !.timer = FALSE] /\ UNCHANGED <<db, seen, told>>
  ELSE /\ net' = [net EXCEPT !.timer = FALSE, !.script = loadRecaptchaScript]
       /\ seen' = [Forgotten EXCEPT !.isInitializing = TRUE]
       /\ IF seen.widgetId = 0 THEN UNCHANGED <<db, told>> ELSE Reset(seen.widgetId)

\* The script is there: the widget goes into the container of now, if that has none
\* (Google throws if it has).  One that is rendered before the popover's timer is
\* initialized again by it.
Rendered ==
  /\ seen.isInitializing /\ net.script = "loaded"
  /\ LET w == db.rendered + 1
         renders == ui.box.there /\ ~seen.isRendered /\ ui.box.widget = 0 IN
     /\ w \in Widgets
     /\ db' = IF renders THEN [db EXCEPT !.rendered = w] ELSE db
     /\ ui' = IF renders THEN [ui EXCEPT !.box.widget = w] ELSE ui
     /\ seen' = IF renders THEN [widgetId |-> w, isRendered |-> TRUE, isInitializing |-> FALSE]
                ELSE [seen EXCEPT !.isInitializing = FALSE]
     /\ told' = [told EXCEPT !.disturbed = @ \/ (renders /\ net.timer)]
  /\ UNCHANGED net

\* If it cannot be loaded nothing ever says so.
ScriptLoads ==
  /\ net.script = "loading"
  /\ net' = [net EXCEPT !.script = "loaded"]
  /\ UNCHANGED <<db, seen, ui, told>>

getToken == IF seen.widgetId \in db.solved THEN seen.widgetId ELSE 0

----------------------------------------------------------------------------
(* RecaptchaPopover and the page *)

\* Mutants: the popover's widget is initialized as it opens, before the container is
\* there; the widget before is not reset.
handleOpenChangeAtOnce(newOpen) ==
  IF newOpen THEN resetCaptcha /\ UNCHANGED net ELSE UNCHANGED <<db, seen, told, net>>
handleOpenChangeKeeps(newOpen) ==
  IF newOpen THEN net' = [net EXCEPT !.timer = TRUE] /\ UNCHANGED <<db, seen, told>>
  ELSE UNCHANGED <<db, seen, told, net>>

handleOpenChange(newOpen) ==
  IF newOpen THEN resetCaptcha /\ net' = [net EXCEPT !.timer = TRUE]
  ELSE UNCHANGED <<db, seen, told, net>>

\* After 100 ms.
Timer == net.timer /\ initializeRecaptcha /\ UNCHANGED ui

\* What the trigger's click does to the popover comes first, then the form is
\* submitted: a popover that was open closes and opens again with another container,
\* for which nothing is initialized.
handleSubmit ==
  /\ ~ui.success /\ ~ui.isProcessing
  /\ ~net.timer  \* the next click comes later than the timer
  /\ IF showRecaptcha /\ ui.email
     THEN told' = [told EXCEPT !.disturbed = TRUE] /\ UNCHANGED <<db, seen, net>>
     ELSE handleOpenChange(~showRecaptcha)
  /\ ui' = [ui EXCEPT !.box = IF ui.email THEN EmptyBox ELSE NoBox]

\* Escape, or a click elsewhere; typing is elsewhere too.
Dismiss ==
  /\ showRecaptcha
  /\ ui' = [ui EXCEPT !.box = NoBox]
  /\ told' = [told EXCEPT !.disturbed = FALSE]
  /\ UNCHANGED <<db, seen, net>>

EmailField ==
  /\ ~ui.success /\ ~ui.isProcessing
  /\ \E valid \in BOOLEAN : ui' = [ui EXCEPT !.email = valid, !.box = NoBox]
  /\ told' = [told EXCEPT !.disturbed = FALSE]
  /\ UNCHANGED <<db, seen, net>>

\* The user solves the captcha on display.
Solve ==
  /\ ui.box.widget # 0
  /\ db' = [db EXCEPT !.solved = @ \cup {ui.box.widget}]
  /\ UNCHANGED <<seen, ui, net, told>>

handleVerifiedSubmit(token) ==
  /\ ui' = [ui EXCEPT !.isProcessing = TRUE, !.success = FALSE, !.box = NoBox]
  /\ net' = [net EXCEPT !.request = token]
  /\ told' = [sent |-> told.sent \cup {token}, disturbed |-> FALSE]
  /\ UNCHANGED <<db, seen>>

\* Without a token the user is told to complete the captcha.
handleVerify ==
  /\ showRecaptcha
  /\ getToken # 0 /\ handleVerifiedSubmit(getToken)

\* The form is emptied when all went well.
Answered ==
  /\ net.request # None
  /\ net' = [net EXCEPT !.request = None]
  /\ \/ ui' = [ui EXCEPT !.success = TRUE, !.email = FALSE, !.isProcessing = FALSE]
     \/ ui' = [ui EXCEPT !.isProcessing = FALSE]
  /\ UNCHANGED <<db, seen, told>>

CloseAlert ==
  /\ ui.success
  /\ ui' = [ui EXCEPT !.success = FALSE]
  /\ UNCHANGED <<db, seen, net, told>>

ResetPasswordPage == EmailField \/ handleSubmit \/ CloseAlert
RecaptchaPopover == Dismiss \/ handleVerify

Next ==
  \/ ResetPasswordPage \/ RecaptchaPopover \/ Timer \/ ScriptLoads \/ Rendered
  \/ Solve \/ Answered

Spec == Init /\ [][Next]_vars

----------------------------------------------------------------------------
(* Properties *)

TypeOK ==
  /\ db \in [solved: SUBSET Widgets, rendered: 0..MaxWidgets]
  /\ seen \in [widgetId: 0..MaxWidgets, isRendered: BOOLEAN, isInitializing: BOOLEAN]
  /\ ui \in [email: BOOLEAN, isProcessing: BOOLEAN, success: BOOLEAN,
             box: [there: BOOLEAN, widget: 0..MaxWidgets]]
  /\ net \in [timer: BOOLEAN, script: {"none", "loading", "loaded"}, request: Widgets \cup {None}]
  /\ told \in [sent: SUBSET Widgets, disturbed: BOOLEAN]

\* An open popover shows a widget, and the one whose response is asked for, once its
\* initialization is over; unless a click closed and opened it, or the script came
\* between its opening and the timer.
WidgetShown ==
  showRecaptcha /\ ~net.timer /\ ~seen.isInitializing /\ ~told.disturbed
    => ui.box.widget # 0 /\ seen.widgetId = ui.box.widget

\* No response to a captcha is sent twice.
SendsAnother == net'.request \notin {None, net.request} => net'.request \notin told.sent

=============================================================================
