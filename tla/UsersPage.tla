------------------------------- MODULE UsersPage -------------------------------
(* The page of users (web/app/(protected)/users/page.tsx). *)
EXTENDS EditorDialog

CONSTANTS
  Roles,
  Blank    \* a new user's form that lacks a field or has a short password

Values == [role: Roles, active: BOOLEAN]
NewUsers == [role: Roles, active: {TRUE}]
FormTexts == Values \cup {Blank}

Init ==
  /\ EditorInit(Values)
  /\ ui = [editUser |-> None, edit |-> Form(None, Blank), addOpen |-> FALSE, add |-> Blank]

----------------------------------------------------------------------------
(* Handlers; a late success closes the dialog of whichever user it shows *)

openEdit(i) == OnScreen([ui EXCEPT !.editUser = i, !.edit = Form(i, seen[i])])

\* The role and the switch are left as they are, but openEdit sets both.
setEditUserNull == [ui EXCEPT !.editUser = None, !.edit = Form(None, Blank)]

setAddOpen(open) == OnScreen([ui EXCEPT !.addOpen = open])

handleUpdate(s) == mutateAsync(s, "update", ui.editUser, ui.edit)
updated(s) == net[s].kind = "update" /\ Succeeds(s, setEditUserNull)

\* Deactivate: the user stays on the list and may be edited.
handleDelete(s, i) == mutateAsync(s, "delete", i, Form(None, Blank))
Deactivated(user) == [user EXCEPT !.active = FALSE]
deleted(s) == net[s].kind = "delete" /\ Succeeds(s, ui)

handleCreate(s) == ui.add # Blank /\ mutateAsync(s, "create", None, Form(None, ui.add))
created(s) ==
  net[s].kind = "create" /\ Succeeds(s, [ui EXCEPT !.addOpen = FALSE, !.add = Blank])

----------------------------------------------------------------------------
(* What the page and its dialogs let the user do *)

columnsWithActions(s, i) == openEdit(i) \/ handleDelete(s, i)

\* Mutant: the actions are there on a row without a user.
UsersGridAnyRow(s) == (\E i \in Ids : columnsWithActions(s, i)) \/ setAddOpen(TRUE)

\* The search, the sort and the pages of the table are in module PagedTables.
UsersGrid(s) == (\E i \in Ids : There(seen[i]) /\ columnsWithActions(s, i)) \/ setAddOpen(TRUE)

\* Mutant: Save Changes does not wait for the save before.
EditUserDialogImpatient(s) ==
  \/ \E v \in Values : OnScreen([ui EXCEPT !.edit.says = v])
  \/ handleUpdate(s)
  \/ OnScreen(setEditUserNull)

EditUserDialog(s) ==
  \/ \E v \in Values : OnScreen([ui EXCEPT !.edit.says = v])
  \/ ~isPending("update") /\ handleUpdate(s)
  \/ OnScreen(setEditUserNull)

\* What was typed stays when the dialog is closed.
AddUserDialog(s) ==
  \/ \E v \in NewUsers : OnScreen([ui EXCEPT !.add = v])
  \/ ~isPending("create") /\ handleCreate(s)
  \/ setAddOpen(FALSE)

Next == \E s \in Slots :
  \/ ui.editUser = None /\ ~ui.addOpen /\ UsersGrid(s)
  \/ ui.editUser # None /\ EditUserDialog(s)
  \/ ui.addOpen /\ AddUserDialog(s)
  \/ updated(s) \/ deleted(s) \/ created(s)
  \/ ServerDoes(s, Deactivated) \/ Fails(s) \/ ListRead

Spec == Init /\ [][Next]_vars

TypeOK ==
  /\ Says(Values, FormTexts)
  /\ ui \in [editUser: Ids \cup {None}, edit: [of: Ids \cup {None}, says: FormTexts],
             addOpen: BOOLEAN, add: NewUsers \cup {Blank}]

=============================================================================
