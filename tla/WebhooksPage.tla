------------------------------ MODULE WebhooksPage ------------------------------
(* The page of webhooks (web/app/(protected)/settings/webhooks/page.tsx). *)
EXTENDS EditorDialog

CONSTANTS
  Events,  \* the events a webhook may subscribe to
  Blank    \* what an empty form says

\* Of a webhook the events matter; a form that says Blank lacks its name or URL.
Values == SUBSET Events
Forms == Values \cup {Blank}

EMPTY_FORM == Form(None, Blank)

Init ==
  /\ EditorInit(Values)
  /\ ui = [dialogOpen |-> FALSE, editingId |-> None, form |-> EMPTY_FORM,
           createdSecret |-> None]

----------------------------------------------------------------------------
(* Handlers; a late success closes the dialog, whichever webhook it shows *)

openCreate ==
  OnScreen([ui EXCEPT !.dialogOpen = TRUE, !.editingId = None, !.form = EMPTY_FORM])
openEdit(i) ==
  OnScreen([ui EXCEPT !.dialogOpen = TRUE, !.editingId = i, !.form = Form(i, seen[i])])
setDialogOpen(open) == OnScreen([ui EXCEPT !.dialogOpen = open])

toggleEvent(event) ==
  /\ ui.form.says # Blank
  /\ OnScreen([ui EXCEPT !.form.says = IF event \in @ THEN @ \ {event} ELSE @ \cup {event}])

\* A create puts the webhook's secret on display.
handleSubmit(s) ==
  mutateAsync(s, IF ui.editingId = None THEN "create" ELSE "update", ui.editingId, ui.form)
submitted(s) ==
  /\ net[s].kind \in {"create", "update"}
  /\ Succeeds(s, [ui EXCEPT !.dialogOpen = FALSE,
                            !.createdSecret = IF net[s].kind = "create" THEN net[s].id ELSE @])

handleDelete(s, i) == mutateAsync(s, "delete", i, EMPTY_FORM)
deleted(s) == net[s].kind = "delete" /\ Succeeds(s, ui)

handleRegenerate(s, i) == mutateAsync(s, "regenerate", i, EMPTY_FORM)
regenerated(s) ==
  net[s].kind = "regenerate" /\ Succeeds(s, [ui EXCEPT !.createdSecret = net[s].id])

----------------------------------------------------------------------------
(* What the page and its dialogs let the user do; the sheet of deliveries only *)
(* covers the list and changes nothing                                          *)

WebhooksTable(s) ==
  \/ openCreate
  \/ \E i \in Ids :
       /\ There(seen[i])
       /\ openEdit(i) \/ handleRegenerate(s, i) \/ handleDelete(s, i)

\* The name and the URL are required.
WebhookDialog(s) ==
  \/ ui.form.says = Blank /\ OnScreen([ui EXCEPT !.form.says = {}])
  \/ \E event \in Events : toggleEvent(event)
  \/ ui.form.says # Blank /\ ~isPending("create") /\ ~isPending("update") /\ handleSubmit(s)
  \/ setDialogOpen(FALSE)

\* Done, Escape or a click outside.
SecretDialog == OnScreen([ui EXCEPT !.createdSecret = None])

\* The secret is shown over whatever is open by then.
Next == \E s \in Slots :
  \/ IF ui.createdSecret # None THEN SecretDialog
     ELSE IF ui.dialogOpen THEN WebhookDialog(s)
     ELSE WebhooksTable(s)
  \/ submitted(s) \/ deleted(s) \/ regenerated(s) \/ Answers

Spec == Init /\ [][Next]_vars

TypeOK ==
  /\ Says(Values, Forms)
  /\ ui \in [dialogOpen: BOOLEAN, editingId: Ids \cup {None},
             form: [of: Ids \cup {None}, says: Forms],
             createdSecret: Ids \cup {None}]

=============================================================================
