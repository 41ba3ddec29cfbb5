----------------------------- MODULE EditorDialog -----------------------------
(***************************************************************************)
(* What the pages that edit a list of items in a dialog share (users,      *)
(* presets, webhooks; web/app/(protected)): the form and the item it was   *)
(* filled from, the calls of the page and the server that answers them.    *)
(* An answer and the continuation it resumes are one step; the list is     *)
(* read again at any time (module WebQueries), so a row may be old.        *)
(***************************************************************************)
EXTENDS FiniteSets

CONSTANTS
  Ids,   \* the items there may be; an id is not used again
  None,  \* no item, or an item yet to come
  Gone,  \* an item that was deleted
  Slots  \* bound: calls open at once

VARIABLES
  db,    \* the server: id -> what the item says, or None or Gone
  seen,  \* the list as last read
  ui,    \* the React state of the page
  net,   \* slot -> the call in it, or Idle
  told   \* history: id -> the change the user was last told is saved, or None

vars == <<db, seen, ui, net, told>>

Idle == [kind |-> "idle"]
Open(kinds) == {s \in Slots : net[s].kind \in kinds}
isPending(kind) == Open({kind}) # {}
There(x) == x \notin {None, Gone}
Form(id, says) == [of |-> id, says |-> says]

EditorInit(values) ==
  /\ db \in [Ids -> values \cup {None}] /\ seen = db
  /\ net = [s \in Slots |-> Idle]
  /\ told = [i \in Ids |-> None]

mutateAsync(s, kind, id, form) ==
  /\ net[s] = Idle
  /\ net' = [net EXCEPT ![s] = [kind |-> kind, id |-> id, form |-> form, step |-> "sent", sole |-> TRUE]]
  /\ UNCHANGED <<db, seen, ui, told>>

OnScreen(next) == ui' = next /\ UNCHANGED <<db, seen, net, told>>

\* A create takes an id that is free; a call about an item that is gone fails.
ServerDoes(s, Deleted(_)) ==
  /\ net[s] # Idle /\ net[s].step = "sent"
  /\ \E i \in Ids :
       /\ IF net[s].kind = "create" THEN db[i] = None ELSE i = net[s].id /\ There(db[i])
       /\ db' = [db EXCEPT ![i] = CASE net[s].kind = "delete" -> Deleted(db[i])
                                    [] net[s].kind = "regenerate" -> db[i]
                                    [] OTHER -> net[s].form.says]
       /\ net' = [net EXCEPT ![s] = [net[s] EXCEPT !.id = i, !.step = "done"]]
  /\ UNCHANGED <<seen, ui, told>>

\* The call is settled.  What an update under way will say is then unknown if the
\* call was a delete: either may be the server's last.
Settled(s) ==
  [x \in Slots |-> IF x = s THEN Idle
                   ELSE IF net[x] # Idle /\ net[s].kind = "delete" /\ net[x].id = net[s].id
                        THEN [net[x] EXCEPT !.sole = FALSE] ELSE net[x]]

\* The answer comes; the page goes on with its state as in next.
Succeeds(s, next) ==
  /\ net[s] # Idle /\ net[s].step = "done"
  /\ ui' = next
  /\ told' = [told EXCEPT ![net[s].id] =
                CASE net[s].kind = "update" /\ net[s].sole -> net[s].form.says
                  [] net[s].kind = "regenerate" -> @
                  [] OTHER -> None]
  /\ net' = Settled(s)
  /\ UNCHANGED <<db, seen>>

\* The error is shown and the page stays as it is; the server may have done it.
Fails(s) ==
  /\ net[s] # Idle
  /\ told' = IF net[s].id \in Ids THEN [told EXCEPT ![net[s].id] = None] ELSE told
  /\ net' = Settled(s)
  /\ UNCHANGED <<db, seen, ui>>

ListRead == seen' = db /\ UNCHANGED <<db, ui, net, told>>

Removed(item) == Gone
Answers == ListRead \/ \E s \in Slots : ServerDoes(s, Removed) \/ Fails(s)

----------------------------------------------------------------------------
(* Properties *)

Says(values, forms) ==
  /\ db \in [Ids -> values \cup {None, Gone}] /\ seen \in [Ids -> values \cup {None, Gone}]
  /\ told \in [Ids -> values \cup {None}]
  /\ net \in [Slots -> {Idle} \cup
       [kind: {"create", "update", "delete", "regenerate"}, id: Ids \cup {None},
        form: [of: Ids \cup {None}, says: forms], step: {"sent", "done"}, sole: BOOLEAN]]

\* What was filled in for one item is never saved to another, and a new item is
\* not the copy of one edited before: the id the page edits and its form come
\* from the same row, also when a late answer has closed the dialog in between.
FormGoesToItsItem ==
  \A s \in Open({"create", "update"}) :
    net[s].form.of = IF net[s].kind = "update" THEN net[s].id ELSE None

\* The change the user was told is saved is what the server holds, unless the item
\* is gone or a call about it is still open: no save is overtaken by an earlier one.
SavedIsStored ==
  \A i \in Ids : told[i] = None \/ db[i] \in {told[i], Gone} \/ \E s \in Slots : net[s] # Idle /\ net[s].id = i

=============================================================================
