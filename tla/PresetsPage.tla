------------------------------ MODULE PresetsPage ------------------------------
(* The page of transcode presets (web/app/(protected)/presets/page.tsx). *)
EXTENDS EditorDialog

CONSTANTS
  Labels,  \* resolutions the form has a button for
  Odd      \* resolutions it has none for

\* What of a preset matters here: whether it has a name and its resolutions.
Values == [named: {TRUE}, resolutions: (SUBSET (Labels \cup Odd)) \ {{}}]
Forms == [named: BOOLEAN, resolutions: SUBSET (Labels \cup Odd)]

EMPTY_FORM == [named |-> FALSE, resolutions |-> {CHOOSE r \in Labels : TRUE}]

Init ==
  /\ EditorInit(Values)
  /\ ui = [dialogOpen |-> FALSE, editingId |-> None, form |-> Form(None, EMPTY_FORM)]

----------------------------------------------------------------------------
(* Handlers; a late success closes the dialog, whichever preset it shows *)

\* Mutant: the id of the preset edited last is kept.
openCreateKeepsId ==
  OnScreen([ui EXCEPT !.dialogOpen = TRUE, !.form = Form(None, EMPTY_FORM)])
openCreate ==
  OnScreen([dialogOpen |-> TRUE, editingId |-> None, form |-> Form(None, EMPTY_FORM)])
openEdit(i) == OnScreen([dialogOpen |-> TRUE, editingId |-> i, form |-> Form(i, seen[i])])
setDialogOpen(open) == OnScreen([ui EXCEPT !.dialogOpen = open])

handleSubmit(s) ==
  mutateAsync(s, IF ui.editingId = None THEN "create" ELSE "update", ui.editingId, ui.form)
submitted(s) ==
  net[s].kind \in {"create", "update"} /\ Succeeds(s, [ui EXCEPT !.dialogOpen = FALSE])

handleDelete(s, i) == mutateAsync(s, "delete", i, Form(None, EMPTY_FORM))
deleted(s) == net[s].kind = "delete" /\ Succeeds(s, ui)

\* A field of the form; the others keep what they say, shown or not.
setField(named) == OnScreen([ui EXCEPT !.form.says.named = named])

\* Mutant: the form takes what is left, if anything or not.
handleResolutionChangeUnchecked(values) ==
  OnScreen([ui EXCEPT !.form.says.resolutions = values \cap Labels])

\* The form takes the resolutions the labels stand for, if that leaves any.
handleResolutionChange(values) ==
  LET entries == values \cap Labels IN
  entries # {} /\ OnScreen([ui EXCEPT !.form.says.resolutions = entries])

----------------------------------------------------------------------------
(* What the page and its dialog let the user do *)

PresetsTable(s) ==
  \/ openCreate
  \/ \E i \in Ids : There(seen[i]) /\ (openEdit(i) \/ handleDelete(s, i))

\* A press on a button turns its label on or off among those that are on, of
\* which an odd one has no button; the name is required.
PresetDialog(s) ==
  \/ \E named \in BOOLEAN : setField(named)
  \/ \E label \in Labels : LET on == ui.form.says.resolutions IN
       handleResolutionChange(IF label \in on THEN on \ {label} ELSE on \cup {label})
  \/ ui.form.says.named /\ ~isPending("create") /\ ~isPending("update") /\ handleSubmit(s)
  \/ setDialogOpen(FALSE)

Next == \E s \in Slots :
  \/ ~ui.dialogOpen /\ PresetsTable(s)
  \/ ui.dialogOpen /\ PresetDialog(s)
  \/ submitted(s) \/ deleted(s) \/ Answers

Spec == Init /\ [][Next]_vars

TypeOK ==
  /\ Says(Values, Forms)
  /\ ui \in [dialogOpen: BOOLEAN, editingId: Ids \cup {None},
             form: [of: Ids \cup {None}, says: Forms]]

\* However the buttons are pressed, and with resolutions that have none, the form
\* keeps one: no preset is saved that has nothing to transcode to.
AlwaysAResolution ==
  /\ ui.form.says.resolutions # {}
  /\ \A i \in Ids : There(db[i]) => db[i].resolutions # {}

=============================================================================
