------------------------------ MODULE PagesProofs ------------------------------
(***************************************************************************)
(* Proofs about the client's pages, for any number of items, calls, texts, *)
(* jobs, renders and changes: what is saved, removed or deleted is the     *)
(* item the user was shown and meant, what the user was told is saved is   *)
(* what the server holds, choices stay, timers and players end with what   *)
(* started them, and a video is encoded, shown and played as was saved.    *)
(***************************************************************************)
EXTENDS MCPages, Integers, Sequences, TLAPS

----------------------------------------------------------------------------
(* The rows of a table *)

\* Whichever row a menu or a selection is at, who is deleted was named before.
LEMMA InitRows == ASSUME Rows!Init PROVE Rows!ConfirmedIsDeleted
BY DEF Rows!Init, Rows!ConfirmedIsDeleted

\* A step of the rows.
LEMMA NextRows == ASSUME Rows!ConfirmedIsDeleted, Rows!Next PROVE Rows!ConfirmedIsDeleted'
<1>1. CASE UNCHANGED <<db, net, told>>
  BY <1>1 DEF Rows!ConfirmedIsDeleted
<1>2. ASSUME NEW v \in net, Rows!Deleted(v)  PROVE Rows!ConfirmedIsDeleted'
  BY <1>2 DEF Rows!Deleted, Rows!ConfirmedIsDeleted
<1>3. ASSUME NEW v \in net, Rows!DeleteFails(v)  PROVE Rows!ConfirmedIsDeleted'
  BY <1>3 DEF Rows!DeleteFails, Rows!ConfirmedIsDeleted
<1>4. ASSUME NEW v, Rows!handleDelete(v, v)  PROVE Rows!ConfirmedIsDeleted'
  BY <1>4 DEF Rows!handleDelete, Rows!ConfirmedIsDeleted
<1>5. CASE Rows!RowMenu
  BY <1>1, <1>4, <1>5 DEF Rows!RowMenu, Rows!OnScreen
<1>6. CASE Rows!TheRows
  BY <1>1, <1>5, <1>6
    DEF Rows!TheRows, Rows!CloseSheet, Rows!CloseMenu, Rows!OnScreen, Rows!DataGridTableRowSelectAll,
        Rows!onRowClick, Rows!DataGridTableRowSelect, Rows!OpenMenu
<1>7. CASE Rows!Read \/ Rows!ReadFails \/ Rows!AskAnew
  BY <1>1, <1>7 DEF Rows!Read, Rows!ReadFails, Rows!AskAnew
<1> QED
  BY <1>2, <1>3, <1>6, <1>7 DEF Rows!Next

----------------------------------------------------------------------------
(* The editors: what users, presets and webhooks share, for a page with the    *)
(* items I, the values V the server may have and the forms F                   *)

Idle == [kind |-> "idle"]
Call(I, F) ==
  [kind: {"create", "update", "delete", "regenerate"}, id: I \cup {None},
   form: [of: I \cup {None}, says: F], step: {"sent", "done"}, sole: BOOLEAN]
There(x) == x \notin {None, Gone}

\* A create is of no item until the server has made it; a form is that of its item and
\* says what the server may have.
CallOK(c, I, V) ==
  /\ c.kind = "create" => c.form.of = None /\ IF c.step = "done" THEN c.id \in I ELSE c.id = None
  /\ c.kind = "update" => c.form.of = c.id
  /\ c.kind \in {"create", "update"} => c.form.says \in V
  /\ c.kind # "create" => c.id \in I

\* A call about item i that may still change it.
Changing(n, i) == \E s \in Slots : n[s].kind \in {"create", "update", "delete"} /\ n[s].id = i
Deleting(n, i) == \E s \in Slots : n[s].kind = "delete" /\ n[s].id = i

\* The buttons wait for the update under way.
Single(n) == \A s, t \in Slots : n[s].kind = "update" /\ n[t].kind = "update" => s = t

\* An update the server has done, and nobody else did since, is what it has.
DoneIsStored(c, n, table) ==
  c.kind = "update" /\ c.step = "done" /\ c.sole =>
    table[c.id] \in {c.form.says, Gone} \/ Deleting(n, c.id)

\* What the user was told is stored, unless a call is about to change it.
ToldIsStored(n, table, history) ==
  \A i \in DOMAIN history : history[i] = None \/ table[i] \in {history[i], Gone} \/ Changing(n, i)

EditorInv(I, V, F) ==
  /\ db \in [I -> V \cup {None, Gone}] /\ seen \in [I -> V \cup {None, Gone}]
  /\ told \in [I -> V \cup {None}] /\ net \in [Slots -> {Idle} \cup Call(I, F)]
  /\ \A s \in Slots : net[s] # Idle => CallOK(net[s], I, V) /\ DoneIsStored(net[s], net, db)
  /\ Single(net) /\ ToldIsStored(net, db, told)

\* Names of nothing are none of the items' and the values'.
Apart(I, V) == None \notin I \cup V \cup {Gone} /\ Gone \notin V

\* A slot is idle or holds a call, and its kind says which.
LEMMA SlotKinds ==
  ASSUME NEW I, NEW F, NEW c \in {Idle} \cup Call(I, F)
  PROVE  /\ c # Idle <=> c.kind \in {"create", "update", "delete", "regenerate"}
         /\ c # Idle => c \in Call(I, F)
BY DEF Idle, Call

\* At the start nothing is open and nothing was told.
LEMMA InitEditor ==
  ASSUME NEW I, NEW V, NEW F, db \in [I -> V \cup {None}], seen = db,
         net = [s \in Slots |-> Idle], told = [i \in I |-> None]
  PROVE  EditorInv(I, V, F)
BY DEF EditorInv, Single, ToldIsStored, Idle

\* The list is read again.
LEMMA ReadEditor ==
  ASSUME NEW I, NEW V, NEW F, EditorInv(I, V, F), seen' \in {seen, db}, UNCHANGED <<db, net, told>>
  PROVE  EditorInv(I, V, F)'
BY DEF EditorInv

\* A call is sent: an update only when none is open.
LEMMA SentEditor ==
  ASSUME NEW I, NEW V, NEW F, Apart(I, V), EditorInv(I, V, F),
         NEW s \in Slots, net[s] = Idle, NEW c \in Call(I, F), c.step = "sent", CallOK(c, I, V),
         c.kind = "update" => \A t \in Slots : net[t].kind # "update",
         net' = [net EXCEPT ![s] = c], UNCHANGED <<db, seen, told>>
  PROVE  EditorInv(I, V, F)'
<1>1. net' \in [Slots -> {Idle} \cup Call(I, F)]
  BY DEF EditorInv
<1>2. \A t \in Slots : net'[t] = IF t = s THEN c ELSE net[t]
  BY DEF EditorInv
<1>3. \A i : (Changing(net, i) => Changing(net', i)) /\ (Deleting(net, i) => Deleting(net', i))
  BY <1>2 DEF Changing, Deleting, Idle
<1>4. Single(net')
  BY <1>2 DEF EditorInv, Single
<1>5. ToldIsStored(net', db, told)
  BY <1>3 DEF EditorInv, ToldIsStored
<1>6. \A t \in Slots : net'[t] # Idle => CallOK(net'[t], I, V) /\ DoneIsStored(net'[t], net', db)
  <2> SUFFICES ASSUME NEW t \in Slots, net'[t] # Idle
               PROVE  CallOK(net'[t], I, V) /\ DoneIsStored(net'[t], net', db)
    OBVIOUS
  <2>1. CASE t = s
    BY <1>2, <2>1 DEF DoneIsStored
  <2>2. CASE t # s
    BY <1>2, <1>3, <2>2 DEF EditorInv, DoneIsStored
  <2> QED
    BY <2>1, <2>2
<1> QED
  BY <1>1, <1>4, <1>5, <1>6 DEF EditorInv

\* The server does what a call asks for item i; x is what it says then.
LEMMA ServedEditor ==
  ASSUME NEW I, NEW V, NEW F, Apart(I, V), EditorInv(I, V, F),
         NEW s \in Slots, net[s] # Idle, net[s].step = "sent", NEW i \in I,
         IF net[s].kind = "create" THEN db[i] = None ELSE i = net[s].id /\ There(db[i]),
         NEW x \in V \cup {Gone}, net[s].kind \in {"create", "update"} => x = net[s].form.says,
         net[s].kind = "regenerate" => x = db[i],
         db' = [db EXCEPT ![i] = x],
         net' = [net EXCEPT ![s] = [net[s] EXCEPT !.id = i, !.step = "done"]], UNCHANGED <<seen, told>>
  PROVE  EditorInv(I, V, F)'
<1> DEFINE c == [net[s] EXCEPT !.id = i, !.step = "done"]
<1>1. c \in Call(I, F) /\ c.kind = net[s].kind /\ c.id = i /\ c.step = "done" /\ c.form = net[s].form
  BY DEF EditorInv, Call, Idle
<1>2. net' \in [Slots -> {Idle} \cup Call(I, F)] /\ db' \in [I -> V \cup {None, Gone}]
  BY <1>1 DEF EditorInv
<1>3. \A t \in Slots : net'[t] = IF t = s THEN c ELSE net[t]
  BY DEF EditorInv
<1>4. CallOK(net[s], I, V)
  BY DEF EditorInv
<1>5. net[s].kind = "create" \/ net[s].id = i
  OBVIOUS
<1> HIDE DEF c
<1>6. CallOK(c, I, V)
  BY <1>1, <1>4, <1>5 DEF CallOK
<1>7. net[s].kind \in {"create", "update", "delete", "regenerate"}
  BY SlotKinds DEF EditorInv
<1>8. \A j \in I : (Changing(net, j) => Changing(net', j)) /\ (Deleting(net, j) => Deleting(net', j))
  <2> SUFFICES ASSUME NEW j \in I, NEW t \in Slots, net[t].id = j, net[t].kind \in {"create", "update", "delete"}
               PROVE  Changing(net', j) /\ (net[t].kind = "delete" => Deleting(net', j))
    BY DEF Changing, Deleting
  <2>1. CASE t = s
    <3>1. net[s].kind # "create"
      BY <1>4, <2>1 DEF CallOK, Apart
    <3> QED
      BY <1>1, <1>3, <1>5, <2>1, <3>1 DEF Changing, Deleting
  <2>2. CASE t # s
    BY <1>3, <2>2 DEF Changing, Deleting
  <2> QED
    BY <2>1, <2>2
<1>9. Single(net')
  BY <1>1, <1>3 DEF EditorInv, Single
<1>10. net[s].kind = "regenerate" => db' = db
  BY <1>5 DEF EditorInv
<1>11. net[s].kind = "delete" => Deleting(net', i)
  BY <1>1, <1>3 DEF Deleting
<1>12. ToldIsStored(net', db', told)
  <2> SUFFICES ASSUME NEW j \in I
               PROVE  told[j] = None \/ db'[j] \in {told[j], Gone} \/ Changing(net', j)
    BY DEF EditorInv, ToldIsStored
  <2>1. CASE j = i /\ net[s].kind # "regenerate"
    BY <1>1, <1>3, <1>7, <2>1 DEF Changing
  <2>2. CASE j # i \/ net[s].kind = "regenerate"
    <3>1. db'[j] = db[j]
      BY <1>10, <2>2 DEF EditorInv
    <3> QED
      BY <1>8, <3>1 DEF EditorInv, ToldIsStored
  <2> QED
    BY <2>1, <2>2
<1>13. ASSUME NEW t \in Slots, net'[t] # Idle
       PROVE  CallOK(net'[t], I, V) /\ DoneIsStored(net'[t], net', db')
  <2>1. CASE t = s
    BY <1>1, <1>3, <1>6, <2>1 DEF DoneIsStored, EditorInv
  <2>2. CASE t # s
    <3>1. net'[t] = net[t] /\ CallOK(net[t], I, V) /\ DoneIsStored(net[t], net, db)
      BY <1>3, <1>13, <2>2 DEF EditorInv
    <3> SUFFICES ASSUME net[t].kind = "update", net[t].step = "done", net[t].sole
                 PROVE  db'[net[t].id] \in {net[t].form.says, Gone} \/ Deleting(net', net[t].id)
      BY <3>1 DEF DoneIsStored
    <3>2. net[t].id \in I /\ net[t].form.says \in V
      BY <3>1 DEF CallOK
    <3>3. db[net[t].id] \in {net[t].form.says, Gone} \/ Deleting(net', net[t].id)
      BY <1>8, <3>1, <3>2 DEF DoneIsStored
    <3>4. CASE net[t].id # i \/ net[s].kind = "regenerate"
      BY <1>10, <3>3, <3>4 DEF EditorInv
    <3>5. CASE net[t].id = i /\ net[s].kind = "create"
      BY <3>2, <3>3, <3>5 DEF Apart
    <3>6. CASE net[t].id = i /\ net[s].kind = "update"
      BY <2>2, <3>6 DEF EditorInv, Single
    <3>7. CASE net[t].id = i /\ net[s].kind = "delete"
      BY <1>11, <3>7
    <3> QED
      BY <1>7, <3>4, <3>5, <3>6, <3>7
  <2> QED
    BY <2>1, <2>2
<1> QED
  BY <1>2, <1>9, <1>12, <1>13 DEF EditorInv

\* A call is settled, and the user told of it or not.
LEMMA SettledEditor ==
  ASSUME NEW I, NEW V, NEW F, Apart(I, V), EditorInv(I, V, F), NEW s \in Slots, net[s] # Idle,
         net' = [x \in Slots |-> IF x = s THEN Idle
                   ELSE IF net[x] # Idle /\ net[s].kind = "delete" /\ net[x].id = net[s].id
                        THEN [net[x] EXCEPT !.sole = FALSE] ELSE net[x]],
         told' \in [I -> V \cup {None}],
         \A j \in I :
           \/ told'[j] = None
           \/ told'[j] = told[j] /\ (j # net[s].id \/ net[s].kind = "regenerate")
           \/ /\ j = net[s].id /\ net[s].kind = "update" /\ net[s].step = "done" /\ net[s].sole
              /\ told'[j] = net[s].form.says,
         UNCHANGED <<db, seen>>
  PROVE  EditorInv(I, V, F)'
<1> DEFINE Undone(x) == net[x] # Idle /\ net[s].kind = "delete" /\ net[x].id = net[s].id
<1>1. \A t \in Slots : net[t] # Idle => net[t] \in Call(I, F)
  BY SlotKinds DEF EditorInv
<1>2. \A t \in Slots : t # s /\ net[t] # Idle =>
        /\ net'[t] \in Call(I, F) /\ net'[t].kind = net[t].kind /\ net'[t].id = net[t].id
        /\ net'[t].form = net[t].form /\ net'[t].step = net[t].step
        /\ net'[t].sole => net[t].sole /\ ~Undone(t)
  <2> SUFFICES ASSUME NEW t \in Slots, t # s, net[t] \in Call(I, F), net[t] # Idle
               PROVE  /\ net'[t] \in Call(I, F) /\ net'[t].kind = net[t].kind /\ net'[t].id = net[t].id
                      /\ net'[t].form = net[t].form /\ net'[t].step = net[t].step
                      /\ net'[t].sole => net[t].sole /\ ~Undone(t)
    BY <1>1
  <2>1. CASE Undone(t)
    <3>1. net'[t] = [net[t] EXCEPT !.sole = FALSE]
      BY <2>1
    <3> QED
      BY <3>1 DEF Call
  <2>2. CASE ~Undone(t)
    BY <2>2
  <2> QED
    BY <2>1, <2>2
<1>3. \A t \in Slots : (t = s \/ net[t] = Idle) => net'[t] = Idle
  OBVIOUS
<1>4. net' \in [Slots -> {Idle} \cup Call(I, F)]
  <2>1. \A t \in Slots : net'[t] \in {Idle} \cup Call(I, F)
    BY <1>2, <1>3
  <2>2. DOMAIN net' = Slots /\ net' = [t \in Slots |-> net'[t]]
    OBVIOUS
  <2> QED
    BY <2>1, <2>2
<1> HIDE DEF Undone
<1>5. \A t \in Slots : t # s => net'[t].kind = net[t].kind /\ (net[t] # Idle => net'[t].id = net[t].id)
  BY <1>2, <1>3
<1>6. \A t \in Slots : net[t].kind \in {"create", "update", "delete"} => net[t] # Idle
  BY DEF Idle
<1>7. \A j : Deleting(net, j) /\ ~(net[s].kind = "delete" /\ net[s].id = j) => Deleting(net', j)
  BY <1>5, <1>6 DEF Deleting
<1>8. \A j : Changing(net, j) /\ (net[s].kind = "regenerate" \/ net[s].id # j) => Changing(net', j)
  BY <1>5, <1>6 DEF Changing
<1>9. \A j : Deleting(net', j) => Changing(net', j)
  BY DEF Changing, Deleting
<1>10. Single(net')
  BY <1>3, <1>5 DEF EditorInv, Single, Idle
<1>11. ToldIsStored(net', db, told')
  <2> SUFFICES ASSUME NEW j \in I, told'[j] # None
               PROVE  db[j] \in {told'[j], Gone} \/ Changing(net', j)
    BY DEF ToldIsStored
  <2>1. CASE told'[j] = told[j] /\ (j # net[s].id \/ net[s].kind = "regenerate")
    BY <1>8, <2>1 DEF EditorInv, ToldIsStored
  <2>2. CASE j = net[s].id /\ net[s].kind = "update" /\ net[s].step = "done" /\ net[s].sole
             /\ told'[j] = net[s].form.says
    <3>1. db[j] \in {net[s].form.says, Gone} \/ Deleting(net, j)
      BY <2>2 DEF EditorInv, DoneIsStored
    <3> QED
      BY <1>7, <1>9, <2>2, <3>1
  <2> QED
    BY <2>1, <2>2
<1>12. ASSUME NEW t \in Slots, net'[t] # Idle
       PROVE  CallOK(net'[t], I, V) /\ DoneIsStored(net'[t], net', db)
  <2>1. t # s /\ net[t] # Idle
    BY <1>3, <1>12
  <2>2. CallOK(net[t], I, V) /\ DoneIsStored(net[t], net, db)
    BY <2>1 DEF EditorInv
  <2>3. CallOK(net'[t], I, V)
    BY <1>2, <2>1, <2>2 DEF CallOK
  <2>4. DoneIsStored(net'[t], net', db)
    <3> SUFFICES ASSUME net'[t].kind = "update", net'[t].step = "done", net'[t].sole
                 PROVE  db[net'[t].id] \in {net'[t].form.says, Gone} \/ Deleting(net', net'[t].id)
      BY DEF DoneIsStored
    <3>1. ~Undone(t) /\ (db[net[t].id] \in {net[t].form.says, Gone} \/ Deleting(net, net[t].id))
      BY <1>2, <2>1, <2>2 DEF DoneIsStored
    <3> QED
      BY <1>2, <1>7, <2>1, <3>1 DEF Undone
  <2> QED
    BY <2>3, <2>4
<1> QED
  BY <1>4, <1>10, <1>11, <1>12 DEF EditorInv

\* The server's step as it is written: d is what a deletion leaves.
LEMMA ServesEditor ==
  ASSUME NEW I, NEW V, NEW F, Apart(I, V), EditorInv(I, V, F), NEW s \in Slots, net[s] # Idle,
         net[s].step = "sent", NEW i \in I,
         IF net[s].kind = "create" THEN db[i] = None ELSE i = net[s].id /\ There(db[i]),
         NEW d, There(db[i]) => d \in V \cup {Gone},
         db' = [db EXCEPT ![i] = CASE net[s].kind = "delete" -> d
                                   [] net[s].kind = "regenerate" -> db[i]
                                   [] OTHER -> net[s].form.says],
         net' = [net EXCEPT ![s] = [net[s] EXCEPT !.id = i, !.step = "done"]], UNCHANGED <<seen, told>>
  PROVE  EditorInv(I, V, F)'
<1>1. net[s].kind \in {"create", "update", "delete", "regenerate"} /\ CallOK(net[s], I, V)
  BY SlotKinds DEF EditorInv
<1>2. db[i] \in V \cup {None, Gone}
  BY DEF EditorInv
<1>3. CASE net[s].kind = "delete"
  <2>1. d \in V \cup {Gone} /\ db' = [db EXCEPT ![i] = d]
    BY <1>3
  <2> QED
    BY <1>3, <2>1, ServedEditor
<1>4. CASE net[s].kind = "regenerate"
  <2>1. db[i] \in V \cup {Gone} /\ db' = [db EXCEPT ![i] = db[i]]
    BY <1>2, <1>4 DEF There
  <2> QED
    BY <1>4, <2>1, ServedEditor
<1>5. CASE net[s].kind \in {"create", "update"}
  <2>1. net[s].form.says \in V \cup {Gone} /\ db' = [db EXCEPT ![i] = net[s].form.says]
    BY <1>1, <1>5 DEF CallOK
  <2> QED
    BY <1>5, <2>1, ServedEditor
<1> QED
  BY <1>1, <1>3, <1>4, <1>5

\* An error, or an answer that is lost.
LEMMA FailsEditor ==
  ASSUME NEW I, NEW V, NEW F, Apart(I, V), EditorInv(I, V, F), NEW s \in Slots, net[s] # Idle,
         net' = [x \in Slots |-> IF x = s THEN Idle
                   ELSE IF net[x] # Idle /\ net[s].kind = "delete" /\ net[x].id = net[s].id
                        THEN [net[x] EXCEPT !.sole = FALSE] ELSE net[x]],
         told' = IF net[s].id \in I THEN [told EXCEPT ![net[s].id] = None] ELSE told,
         UNCHANGED <<db, seen>>
  PROVE  EditorInv(I, V, F)'
<1>1. told \in [I -> V \cup {None}]
  BY DEF EditorInv
<1>2. told' \in [I -> V \cup {None}] /\ \A j \in I : told'[j] = None \/ (told'[j] = told[j] /\ j # net[s].id)
  BY <1>1
<1> QED
  BY <1>2, SettledEditor

\* A success, of which the user is told.
LEMMA SucceedsEditor ==
  ASSUME NEW I, NEW V, NEW F, Apart(I, V), EditorInv(I, V, F), NEW s \in Slots, net[s] # Idle,
         net[s].step = "done",
         net' = [x \in Slots |-> IF x = s THEN Idle
                   ELSE IF net[x] # Idle /\ net[s].kind = "delete" /\ net[x].id = net[s].id
                        THEN [net[x] EXCEPT !.sole = FALSE] ELSE net[x]],
         told' = [told EXCEPT ![net[s].id] =
                    CASE net[s].kind = "update" /\ net[s].sole -> net[s].form.says
                      [] net[s].kind = "regenerate" -> told[net[s].id]
                      [] OTHER -> None],
         UNCHANGED <<db, seen>>
  PROVE  EditorInv(I, V, F)'
<1>1. told \in [I -> V \cup {None}]
  BY DEF EditorInv
<1>2. net[s] \in Call(I, F) /\ CallOK(net[s], I, V)
  BY SlotKinds DEF EditorInv
<1>3. net[s].id \in I /\ (net[s].kind = "update" => net[s].form.says \in V)
  BY <1>2 DEF CallOK
<1>4. CASE net[s].kind = "update" /\ net[s].sole
  <2>1. told' = [told EXCEPT ![net[s].id] = net[s].form.says]
    BY <1>4
  <2>2. told' \in [I -> V \cup {None}] /\ \A j \in I : told'[j] = IF j = net[s].id THEN net[s].form.says ELSE told[j]
    BY <1>1, <1>3, <1>4, <2>1
  <2> QED
    BY <1>4, <2>2, SettledEditor
<1>5. CASE net[s].kind = "regenerate"
  <2>1. told' = told
    BY <1>1, <1>3, <1>5
  <2> QED
    BY <1>1, <1>5, <2>1, SettledEditor
<1>6. CASE ~(net[s].kind = "update" /\ net[s].sole) /\ net[s].kind # "regenerate"
  <2>1. told' = [told EXCEPT ![net[s].id] = None]
    BY <1>6
  <2>2. told' \in [I -> V \cup {None}] /\ \A j \in I : told'[j] = None \/ (told'[j] = told[j] /\ j # net[s].id)
    BY <1>1, <1>3, <2>1
  <2> QED
    BY <2>2, SettledEditor
<1> QED
  BY <1>4, <1>5, <1>6

\* What the page promises follows.
LEMMA EditorMeaning ==
  ASSUME NEW I, NEW V, NEW F, EditorInv(I, V, F)
  PROVE  /\ \A s \in Slots : net[s].kind \in {"create", "update"} =>
              net[s].form.of = IF net[s].kind = "update" THEN net[s].id ELSE None
         /\ \A i \in I : told[i] = None \/ db[i] \in {told[i], Gone} \/ \E s \in Slots : net[s] # Idle /\ net[s].id = i
<1>1. \A s \in Slots : net[s].kind \in {"create", "update", "delete"} => net[s] # Idle
  BY DEF Idle
<1> QED
  BY <1>1 DEF EditorInv, CallOK, ToldIsStored, Changing

----------------------------------------------------------------------------
(* The page of users *)

\* The dialog edits the user its form was filled from.
UsersUI ==
  /\ ui \in [editUser: Ids \cup {None}, edit: [of: Ids \cup {None}, says: Users!FormTexts],
             addOpen: BOOLEAN, add: Users!NewUsers \cup {Blank}]
  /\ ui.edit.of = ui.editUser
  /\ ui.editUser # None => ui.edit.says \in Users!Values

UsersEditor == EditorInv(Ids, Users!Values, Users!FormTexts)
UsersInv == UsersEditor /\ UsersUI

\* The values of users are apart from what stands for none.
LEMMA UsersApart == Apart(Ids, Users!Values) /\ Users!NewUsers \subseteq Users!Values /\ Users!Values \subseteq Users!FormTexts
BY PagesAssumption DEF Apart, Users!NewUsers, Users!Values, Users!FormTexts

\* At the start no dialog is open.
LEMMA InitUsers == ASSUME Users!Init PROVE UsersInv
<1>1. UsersEditor
  BY InitEditor DEF Users!Init, Users!EditorInit, Users!Idle, Idle, UsersEditor
<1>2. UsersUI
  BY DEF Users!Init, UsersUI, Users!Form, Users!FormTexts
<1> QED
  BY <1>1, <1>2 DEF UsersInv

\* A call the page sends.
LEMMA UsersSend ==
  ASSUME UsersInv, NEW s \in Slots, NEW kind \in {"create", "update", "delete"},
         NEW id \in Ids \cup {None}, NEW form \in [of: Ids \cup {None}, says: Users!FormTexts],
         Users!mutateAsync(s, kind, id, form),
         kind = "create" => id = None /\ form.of = None,
         kind # "create" => id \in Ids, kind = "update" => form.of = id /\ ~Users!isPending("update"),
         kind \in {"create", "update"} => form.says \in Users!Values
  PROVE  UsersInv'
<1> DEFINE c == [kind |-> kind, id |-> id, form |-> form, step |-> "sent", sole |-> TRUE]
<1>1. c \in Call(Ids, Users!FormTexts) /\ c.step = "sent" /\ CallOK(c, Ids, Users!Values)
  BY DEF Call, CallOK
<1>2. c.kind = "update" => \A t \in Slots : net[t].kind # "update"
  BY DEF Users!isPending, Users!Open
<1>3. net[s] = Idle /\ net' = [net EXCEPT ![s] = c] /\ UNCHANGED <<db, seen, ui, told>>
  BY DEF Users!mutateAsync, Users!Idle, Idle
<1> HIDE DEF c
<1>4. UsersEditor'
  BY <1>1, <1>2, <1>3, UsersApart, SentEditor DEF UsersInv, UsersEditor
<1> QED
  BY <1>3, <1>4 DEF UsersInv, UsersUI

\* A change of the page alone.
LEMMA UsersShow ==
  ASSUME UsersInv, NEW next, Users!OnScreen(next),
         next \in [editUser: Ids \cup {None}, edit: [of: Ids \cup {None}, says: Users!FormTexts],
                   addOpen: BOOLEAN, add: Users!NewUsers \cup {Blank}],
         next.edit.of = next.editUser, next.editUser # None => next.edit.says \in Users!Values
  PROVE  UsersInv'
<1>1. UsersEditor'
  BY ReadEditor DEF UsersInv, UsersEditor, Users!OnScreen
<1> QED
  BY <1>1 DEF UsersInv, UsersUI, Users!OnScreen

\* An answer, after which the page is as in next.
LEMMA UsersSucceed ==
  ASSUME UsersInv, NEW s \in Slots, NEW next, Users!Succeeds(s, next),
         next \in [editUser: Ids \cup {None}, edit: [of: Ids \cup {None}, says: Users!FormTexts],
                   addOpen: BOOLEAN, add: Users!NewUsers \cup {Blank}],
         next.edit.of = next.editUser, next.editUser # None => next.edit.says \in Users!Values
  PROVE  UsersInv'
<1>1. UsersEditor'
  BY UsersApart, SucceedsEditor DEF UsersInv, UsersEditor, Users!Succeeds, Users!Settled, Users!Idle, Idle
<1> QED
  BY <1>1 DEF UsersInv, UsersUI, Users!Succeeds

\* The server, a failure and the list that is read again.
LEMMA UsersAnswers ==
  ASSUME UsersInv, NEW s \in Slots, Users!ServerDoes(s, Users!Deactivated) \/ Users!Fails(s) \/ Users!ListRead
  PROVE  UsersInv'
<1>1. UNCHANGED ui
  BY DEF Users!ServerDoes, Users!Fails, Users!ListRead
<1>2. CASE Users!ServerDoes(s, Users!Deactivated)
  <2>1. \A x : Users!There(x) <=> There(x)
    BY DEF Users!There, There
  <2>2. PICK i \in Ids :
          /\ IF net[s].kind = "create" THEN db[i] = None ELSE i = net[s].id /\ There(db[i])
          /\ db' = [db EXCEPT ![i] = CASE net[s].kind = "delete" -> Users!Deactivated(db[i])
                                       [] net[s].kind = "regenerate" -> db[i]
                                       [] OTHER -> net[s].form.says]
          /\ net' = [net EXCEPT ![s] = [net[s] EXCEPT !.id = i, !.step = "done"]]
    BY <1>2, <2>1 DEF Users!ServerDoes
  <2>3. There(db[i]) => Users!Deactivated(db[i]) \in Users!Values
    BY DEF UsersInv, UsersEditor, EditorInv, There, Users!Deactivated, Users!Values
  <2>4. UsersEditor'
    BY <1>2, <2>2, <2>3, UsersApart, ServesEditor
      DEF UsersInv, UsersEditor, Users!ServerDoes, Users!Idle, Idle
  <2> QED
    BY <1>1, <2>4 DEF UsersInv, UsersUI
<1>3. CASE Users!Fails(s)
  <2>1. UsersEditor'
    BY <1>3, UsersApart, FailsEditor DEF UsersInv, UsersEditor, Users!Fails, Users!Settled, Users!Idle, Idle
  <2> QED
    BY <1>1, <2>1 DEF UsersInv, UsersUI
<1>4. CASE Users!ListRead
  <2>1. UsersEditor'
    BY <1>4, ReadEditor DEF UsersInv, UsersEditor, Users!ListRead
  <2> QED
    BY <1>1, <2>1 DEF UsersInv, UsersUI
<1> QED
  BY <1>2, <1>3, <1>4

\* A press or what is typed on the page.
LEMMA UsersPress ==
  ASSUME UsersInv, NEW s \in Slots,
         \/ Users!UsersGrid(s)
         \/ ui.editUser # None /\ Users!EditUserDialog(s)
         \/ Users!AddUserDialog(s)
  PROVE  UsersInv'
<1> USE UsersApart
<1>1. UsersUI
  BY DEF UsersInv
<1>2. ASSUME NEW i \in Ids, Users!There(seen[i]), Users!openEdit(i)  PROVE UsersInv'
  <2>1. seen[i] \in Users!Values
    BY <1>2 DEF UsersInv, UsersEditor, EditorInv, Users!There
  <2> QED
    BY <1>1, <1>2, <2>1, UsersShow DEF UsersUI, Users!openEdit, Users!Form
<1>3. ASSUME NEW i \in Ids, Users!handleDelete(s, i)  PROVE UsersInv'
  BY <1>3, UsersSend DEF Users!handleDelete, Users!Form, Users!FormTexts
<1>4. ASSUME NEW open \in BOOLEAN, Users!setAddOpen(open)  PROVE UsersInv'
  BY <1>1, <1>4, UsersShow DEF UsersUI, Users!setAddOpen
<1>5. CASE Users!UsersGrid(s)
  BY <1>2, <1>3, <1>4, <1>5 DEF Users!UsersGrid, Users!columnsWithActions
<1>6. CASE ui.editUser # None /\ Users!EditUserDialog(s)
  <2>1. ASSUME NEW v \in Users!Values, Users!OnScreen([ui EXCEPT !.edit.says = v])  PROVE UsersInv'
    BY <1>1, <2>1, UsersShow DEF UsersUI
  <2>2. CASE ~Users!isPending("update") /\ Users!handleUpdate(s)
    BY <1>1, <1>6, <2>2, UsersSend DEF UsersUI, Users!handleUpdate
  <2>3. CASE Users!OnScreen(Users!setEditUserNull)
    BY <1>1, <2>3, UsersShow DEF UsersUI, Users!setEditUserNull, Users!Form, Users!FormTexts
  <2> QED
    BY <1>6, <2>1, <2>2, <2>3 DEF Users!EditUserDialog
<1>7. CASE Users!AddUserDialog(s)
  <2>1. ASSUME NEW v \in Users!NewUsers, Users!OnScreen([ui EXCEPT !.add = v])  PROVE UsersInv'
    BY <1>1, <2>1, UsersShow DEF UsersUI
  <2>2. CASE Users!handleCreate(s)
    BY <1>1, <2>2, UsersSend DEF UsersUI, Users!handleCreate, Users!Form
  <2> QED
    BY <1>4, <1>7, <2>1, <2>2 DEF Users!AddUserDialog
<1> QED
  BY <1>5, <1>6, <1>7

\* A step of the page.
LEMMA NextUsers == ASSUME UsersInv, Users!Next PROVE UsersInv'
<1>1. UsersUI
  BY DEF UsersInv
<1>2. ASSUME NEW s \in Slots, Users!updated(s)  PROVE UsersInv'
  BY <1>1, <1>2, UsersSucceed DEF UsersUI, Users!updated, Users!setEditUserNull, Users!Form, Users!FormTexts
<1>3. ASSUME NEW s \in Slots, Users!deleted(s)  PROVE UsersInv'
  BY <1>1, <1>3, UsersSucceed DEF UsersUI, Users!deleted
<1>4. ASSUME NEW s \in Slots, Users!created(s)  PROVE UsersInv'
  BY <1>1, <1>4, UsersSucceed DEF UsersUI, Users!created
<1> QED
  BY <1>2, <1>3, <1>4, UsersPress, UsersAnswers DEF Users!Next

----------------------------------------------------------------------------
(* The page of transcode presets *)

\* The dialog edits the preset its form was filled from, and keeps a resolution.
PresetsPage(x) ==
  /\ x \in [dialogOpen: BOOLEAN, editingId: OneId \cup {None}, form: [of: OneId \cup {None}, says: Presets!Forms]]
  /\ x.form.of = x.editingId
  /\ x.form.says.resolutions # {}

PresetsUI == PresetsPage(ui)
PresetsEditor == EditorInv(OneId, Presets!Values, Presets!Forms)
PresetsInv == PresetsEditor /\ PresetsUI

\* The values of presets are apart from what stands for none, and an empty form has a
\* resolution.
LEMMA PresetsApart ==
  /\ Apart(OneId, Presets!Values) /\ Presets!Values \subseteq Presets!Forms
  /\ Presets!EMPTY_FORM \in Presets!Forms /\ Presets!EMPTY_FORM.resolutions # {}
<1>1. PICK r \in Labels : r = (CHOOSE x \in Labels : TRUE)
  BY PagesAssumption
<1>2. Presets!EMPTY_FORM = [named |-> FALSE, resolutions |-> {r}]
  BY <1>1 DEF Presets!EMPTY_FORM
<1>3. Presets!EMPTY_FORM \in Presets!Forms /\ Presets!EMPTY_FORM.resolutions # {}
  BY <1>2 DEF Presets!Forms
<1>4. Apart(OneId, Presets!Values)
  BY PagesAssumption DEF Apart
<1>5. Presets!Values \subseteq Presets!Forms
  BY DEF Presets!Values, Presets!Forms
<1> QED
  BY <1>3, <1>4, <1>5

\* A preset is what a form with a name and a resolution says.
LEMMA PresetsValues ==
  /\ \A x \in Presets!Values : x \in Presets!Forms /\ x.resolutions # {}
  /\ \A x \in Presets!Forms : x.named /\ x.resolutions # {} => x \in Presets!Values
<1> PICK N : N = {TRUE}
  OBVIOUS
<1> PICK S : S = SUBSET (Labels \cup Odd)
  OBVIOUS
<1> PICK R : R = S \ {{}}
  OBVIOUS
<1>1. Presets!Values = [named: N, resolutions: R]
  BY DEF Presets!Values
<1>2. N \subseteq BOOLEAN /\ (\A b \in BOOLEAN : b => b \in N)
  OBVIOUS
<1>4. \A y : y \in R <=> y \in S /\ y # {}
  OBVIOUS
<1>3. Presets!Forms = [named: BOOLEAN, resolutions: S]
  BY DEF Presets!Forms
<1>5. ASSUME NEW x \in Presets!Values  PROVE x \in Presets!Forms /\ x.resolutions # {}
  <2>1. x.named \in N /\ x.resolutions \in R /\ x = [named |-> x.named, resolutions |-> x.resolutions]
    BY <1>1
  <2>2. x.named \in BOOLEAN /\ x.resolutions \in S /\ x.resolutions # {}
    BY <1>2, <1>4, <2>1
  <2> QED
    BY <1>3, <2>1, <2>2
<1>6. ASSUME NEW x \in Presets!Forms, x.named, x.resolutions # {}  PROVE x \in Presets!Values
  <2>1. x.named \in BOOLEAN /\ x.resolutions \in S /\ x = [named |-> x.named, resolutions |-> x.resolutions]
    BY <1>3
  <2>2. x.named \in N /\ x.resolutions \in R
    BY <1>2, <1>4, <1>6, <2>1
  <2> QED
    BY <1>1, <2>1, <2>2
<1> QED
  BY <1>5, <1>6

\* At the start the dialog is closed.
LEMMA InitPresets == ASSUME Presets!Init PROVE PresetsInv
<1>1. PresetsEditor
  BY InitEditor DEF Presets!Init, Presets!EditorInit, Presets!Idle, Idle, PresetsEditor
<1>2. PresetsUI
  BY PresetsApart DEF Presets!Init, PresetsUI, PresetsPage, Presets!Form
<1> QED
  BY <1>1, <1>2 DEF PresetsInv

\* A call the page sends.
LEMMA PresetsSend ==
  ASSUME PresetsInv, NEW s \in Slots, NEW kind \in {"create", "update", "delete", "regenerate"},
         NEW id \in OneId \cup {None}, NEW form \in [of: OneId \cup {None}, says: Presets!Forms],
         Presets!mutateAsync(s, kind, id, form),
         kind = "create" => id = None /\ form.of = None,
         kind # "create" => id \in OneId, kind = "update" => form.of = id /\ ~Presets!isPending("update"),
         kind \in {"create", "update"} => form.says \in Presets!Values
  PROVE  PresetsInv'
<1> DEFINE c == [kind |-> kind, id |-> id, form |-> form, step |-> "sent", sole |-> TRUE]
<1>1. c \in Call(OneId, Presets!Forms) /\ c.step = "sent" /\ CallOK(c, OneId, Presets!Values)
  BY DEF Call, CallOK
<1>2. c.kind = "update" => \A t \in Slots : net[t].kind # "update"
  BY DEF Presets!isPending, Presets!Open
<1>3. net[s] = Idle /\ net' = [net EXCEPT ![s] = c] /\ UNCHANGED <<db, seen, ui, told>>
  BY DEF Presets!mutateAsync, Presets!Idle, Idle
<1> HIDE DEF c
<1>4. PresetsEditor'
  BY <1>1, <1>2, <1>3, PresetsApart, SentEditor DEF PresetsInv, PresetsEditor
<1> QED
  BY <1>3, <1>4 DEF PresetsInv, PresetsUI

\* A change of the page alone.
LEMMA PresetsShow ==
  ASSUME PresetsInv, NEW next, Presets!OnScreen(next), PresetsPage(next)
  PROVE  PresetsInv'
<1>1. PresetsEditor'
  BY ReadEditor DEF PresetsInv, PresetsEditor, Presets!OnScreen
<1> QED
  BY <1>1 DEF PresetsInv, PresetsUI, Presets!OnScreen

\* An answer, after which the page is as in next.
LEMMA PresetsSucceed ==
  ASSUME PresetsInv, NEW s \in Slots, NEW next, Presets!Succeeds(s, next), PresetsPage(next)
  PROVE  PresetsInv'
<1>1. PresetsEditor'
  BY PresetsApart, SucceedsEditor DEF PresetsInv, PresetsEditor, Presets!Succeeds, Presets!Settled, Presets!Idle, Idle
<1> QED
  BY <1>1 DEF PresetsInv, PresetsUI, Presets!Succeeds

\* The server, a failure and the list that is read again.
LEMMA PresetsAnswers ==
  ASSUME PresetsInv, Presets!Answers
  PROVE  PresetsInv'
<1>1. UNCHANGED ui
  BY DEF Presets!Answers, Presets!ServerDoes, Presets!Fails, Presets!ListRead
<1>2. ASSUME NEW s \in Slots, Presets!ServerDoes(s, Presets!Removed)  PROVE PresetsEditor'
  <2>1. \A x : Presets!There(x) <=> There(x)
    BY DEF Presets!There, There
  <2>2. PICK i \in OneId :
          /\ IF net[s].kind = "create" THEN db[i] = None ELSE i = net[s].id /\ There(db[i])
          /\ db' = [db EXCEPT ![i] = CASE net[s].kind = "delete" -> Gone
                                       [] net[s].kind = "regenerate" -> db[i]
                                       [] OTHER -> net[s].form.says]
          /\ net' = [net EXCEPT ![s] = [net[s] EXCEPT !.id = i, !.step = "done"]]
    BY <1>2, <2>1 DEF Presets!ServerDoes, Presets!Removed
  <2> QED
    BY <1>2, <2>2, PresetsApart, ServesEditor
      DEF PresetsInv, PresetsEditor, Presets!ServerDoes, Presets!Idle, Idle
<1>3. ASSUME NEW s \in Slots, Presets!Fails(s)  PROVE PresetsEditor'
  BY <1>3, PresetsApart, FailsEditor DEF PresetsInv, PresetsEditor, Presets!Fails, Presets!Settled, Presets!Idle, Idle
<1>4. CASE Presets!ListRead
  <2>1. PresetsEditor'
    BY <1>4, ReadEditor DEF PresetsInv, PresetsEditor, Presets!ListRead
  <2> QED
    BY <1>1, <2>1 DEF PresetsInv, PresetsUI
<1> QED
  BY <1>1, <1>2, <1>3, <1>4 DEF Presets!Answers, PresetsInv, PresetsUI

\* A press or what is typed on the page.
LEMMA PresetsPress ==
  ASSUME PresetsInv, NEW s \in Slots, Presets!PresetsTable(s) \/ Presets!PresetDialog(s)
  PROVE  PresetsInv'
<1> USE PresetsApart
<1>1. PresetsPage(ui)
  BY DEF PresetsInv, PresetsUI
<1>2. ASSUME NEW i \in OneId, Presets!There(seen[i]), Presets!openEdit(i)  PROVE PresetsInv'
  <2>1. seen[i] \in Presets!Values
    BY <1>2 DEF PresetsInv, PresetsEditor, EditorInv, Presets!There
  <2> PICK says \in Presets!Values : says = seen[i]
    BY <2>1
  <2>2. says \in Presets!Forms /\ says.resolutions # {}
    BY PresetsValues
  <2> DEFINE next == [dialogOpen |-> TRUE, editingId |-> i, form |-> [of |-> i, says |-> says]]
  <2>3. PresetsPage(next)
    BY <2>2 DEF PresetsPage
  <2>4. Presets!OnScreen(next)
    BY <1>2 DEF Presets!openEdit, Presets!Form
  <2> QED
    BY <2>3, <2>4, PresetsShow
<1>3. ASSUME NEW i \in OneId, Presets!handleDelete(s, i)  PROVE PresetsInv'
  BY <1>3, PresetsSend DEF Presets!handleDelete, Presets!Form
<1>4. CASE Presets!openCreate
  BY <1>4, PresetsShow DEF PresetsPage, Presets!openCreate, Presets!Form
<1>5. CASE Presets!PresetsTable(s)
  BY <1>2, <1>3, <1>4, <1>5 DEF Presets!PresetsTable
<1>6. ASSUME NEW named \in BOOLEAN, Presets!setField(named)  PROVE PresetsInv'
  BY <1>1, <1>6, PresetsShow DEF PresetsPage, Presets!setField, Presets!Forms
<1>7. ASSUME NEW values, Presets!handleResolutionChange(values)  PROVE PresetsInv'
  <2>1. PICK entries \in SUBSET Labels :
          entries # {} /\ Presets!OnScreen([ui EXCEPT !.form.says.resolutions = entries])
    BY <1>7 DEF Presets!handleResolutionChange
  <2> DEFINE says == [ui.form.says EXCEPT !.resolutions = entries]
             next == [ui EXCEPT !.form.says.resolutions = entries]
  <2>2. says \in Presets!Forms /\ says.resolutions = entries
    BY <1>1 DEF PresetsPage, Presets!Forms
  <2>3. next = [ui EXCEPT !.form = [ui.form EXCEPT !.says = says]]
    BY <1>1 DEF PresetsPage
  <2> HIDE DEF says
  <2>4. PresetsPage(next)
    BY <1>1, <2>1, <2>2, <2>3 DEF PresetsPage
  <2> QED
    BY <2>1, <2>4, PresetsShow
<1>8. CASE Presets!setDialogOpen(FALSE)
  BY <1>1, <1>8, PresetsShow DEF PresetsPage, Presets!setDialogOpen
<1>9. CASE ui.form.says.named /\ ~Presets!isPending("update") /\ Presets!handleSubmit(s)
  <2> PICK says \in Presets!Forms : says = ui.form.says /\ says.resolutions # {} /\ says.named
    BY <1>1, <1>9 DEF PresetsPage
  <2>1. says \in Presets!Values
    BY PresetsValues
  <2>2. CASE ui.editingId = None
    BY <1>1, <1>9, <2>1, <2>2, PresetsSend DEF PresetsPage, Presets!handleSubmit
  <2>3. CASE ui.editingId # None
    BY <1>1, <1>9, <2>1, <2>3, PresetsSend DEF PresetsPage, Presets!handleSubmit
  <2> QED
    BY <2>2, <2>3
<1>10. CASE Presets!PresetDialog(s)
  BY <1>6, <1>7, <1>8, <1>9, <1>10 DEF Presets!PresetDialog
<1> QED
  BY <1>5, <1>10

\* A step of the page.
LEMMA NextPresets == ASSUME PresetsInv, Presets!Next PROVE PresetsInv'
<1>1. PresetsPage(ui)
  BY DEF PresetsInv, PresetsUI
<1>2. ASSUME NEW s \in Slots, Presets!submitted(s) \/ Presets!deleted(s)  PROVE PresetsInv'
  BY <1>1, <1>2, PresetsSucceed DEF PresetsPage, Presets!submitted, Presets!deleted
<1> QED
  BY <1>2, PresetsPress, PresetsAnswers DEF Presets!Next

----------------------------------------------------------------------------
(* The page of webhooks *)

\* The dialog edits the webhook its form was filled from.
WebhooksPage(x) ==
  /\ x \in [dialogOpen: BOOLEAN, editingId: OneId \cup {None},
            form: [of: OneId \cup {None}, says: Webhooks!Forms], createdSecret: OneId \cup {None}]
  /\ x.form.of = x.editingId

WebhooksUI == WebhooksPage(ui)
WebhooksEditor == EditorInv(OneId, Webhooks!Values, Webhooks!Forms)
WebhooksInv == WebhooksEditor /\ WebhooksUI

\* The values of webhooks are apart from what stands for none.
LEMMA WebhooksApart ==
  /\ Apart(OneId, Webhooks!Values) /\ Webhooks!Values \subseteq Webhooks!Forms
  /\ Webhooks!EMPTY_FORM = [of |-> None, says |-> Blank] /\ Blank \in Webhooks!Forms
BY PagesAssumption DEF Apart, Webhooks!Forms, Webhooks!EMPTY_FORM, Webhooks!Form

\* At the start the dialog is closed.
LEMMA InitWebhooks == ASSUME Webhooks!Init PROVE WebhooksInv
<1>1. WebhooksEditor
  BY InitEditor DEF Webhooks!Init, Webhooks!EditorInit, Webhooks!Idle, Idle, WebhooksEditor
<1>2. WebhooksUI
  BY WebhooksApart DEF Webhooks!Init, WebhooksUI, WebhooksPage
<1> QED
  BY <1>1, <1>2 DEF WebhooksInv

\* A call the page sends.
LEMMA WebhooksSend ==
  ASSUME WebhooksInv, NEW s \in Slots, NEW kind \in {"create", "update", "delete", "regenerate"},
         NEW id \in OneId \cup {None}, NEW form \in [of: OneId \cup {None}, says: Webhooks!Forms],
         Webhooks!mutateAsync(s, kind, id, form),
         kind = "create" => id = None /\ form.of = None,
         kind # "create" => id \in OneId, kind = "update" => form.of = id /\ ~Webhooks!isPending("update"),
         kind \in {"create", "update"} => form.says \in Webhooks!Values
  PROVE  WebhooksInv'
<1> DEFINE c == [kind |-> kind, id |-> id, form |-> form, step |-> "sent", sole |-> TRUE]
<1>1. c \in Call(OneId, Webhooks!Forms) /\ c.step = "sent" /\ CallOK(c, OneId, Webhooks!Values)
  BY DEF Call, CallOK
<1>2. c.kind = "update" => \A t \in Slots : net[t].kind # "update"
  BY DEF Webhooks!isPending, Webhooks!Open
<1>3. net[s] = Idle /\ net' = [net EXCEPT ![s] = c] /\ UNCHANGED <<db, seen, ui, told>>
  BY DEF Webhooks!mutateAsync, Webhooks!Idle, Idle
<1> HIDE DEF c
<1>4. WebhooksEditor'
  BY <1>1, <1>2, <1>3, WebhooksApart, SentEditor DEF WebhooksInv, WebhooksEditor
<1> QED
  BY <1>3, <1>4 DEF WebhooksInv, WebhooksUI

\* A change of the page alone.
LEMMA WebhooksShow ==
  ASSUME WebhooksInv, NEW next, Webhooks!OnScreen(next), WebhooksPage(next)
  PROVE  WebhooksInv'
<1>1. WebhooksEditor'
  BY ReadEditor DEF WebhooksInv, WebhooksEditor, Webhooks!OnScreen
<1> QED
  BY <1>1 DEF WebhooksInv, WebhooksUI, Webhooks!OnScreen

\* An answer, after which the page is as in next.
LEMMA WebhooksSucceed ==
  ASSUME WebhooksInv, NEW s \in Slots, NEW next, Webhooks!Succeeds(s, next), WebhooksPage(next)
  PROVE  WebhooksInv'
<1>1. WebhooksEditor'
  BY WebhooksApart, SucceedsEditor DEF WebhooksInv, WebhooksEditor, Webhooks!Succeeds, Webhooks!Settled, Webhooks!Idle, Idle
<1> QED
  BY <1>1 DEF WebhooksInv, WebhooksUI, Webhooks!Succeeds

\* The server, a failure and the list that is read again.
LEMMA WebhooksAnswers ==
  ASSUME WebhooksInv, Webhooks!Answers
  PROVE  WebhooksInv'
<1>1. UNCHANGED ui
  BY DEF Webhooks!Answers, Webhooks!ServerDoes, Webhooks!Fails, Webhooks!ListRead
<1>2. ASSUME NEW s \in Slots, Webhooks!ServerDoes(s, Webhooks!Removed)  PROVE WebhooksEditor'
  <2>1. \A x : Webhooks!There(x) <=> There(x)
    BY DEF Webhooks!There, There
  <2>2. PICK i \in OneId :
          /\ IF net[s].kind = "create" THEN db[i] = None ELSE i = net[s].id /\ There(db[i])
          /\ db' = [db EXCEPT ![i] = CASE net[s].kind = "delete" -> Gone
                                       [] net[s].kind = "regenerate" -> db[i]
                                       [] OTHER -> net[s].form.says]
          /\ net' = [net EXCEPT ![s] = [net[s] EXCEPT !.id = i, !.step = "done"]]
    BY <1>2, <2>1 DEF Webhooks!ServerDoes, Webhooks!Removed
  <2> QED
    BY <1>2, <2>2, WebhooksApart, ServesEditor
      DEF WebhooksInv, WebhooksEditor, Webhooks!ServerDoes, Webhooks!Idle, Idle
<1>3. ASSUME NEW s \in Slots, Webhooks!Fails(s)  PROVE WebhooksEditor'
  BY <1>3, WebhooksApart, FailsEditor DEF WebhooksInv, WebhooksEditor, Webhooks!Fails, Webhooks!Settled, Webhooks!Idle, Idle
<1>4. CASE Webhooks!ListRead
  <2>1. WebhooksEditor'
    BY <1>4, ReadEditor DEF WebhooksInv, WebhooksEditor, Webhooks!ListRead
  <2> QED
    BY <1>1, <2>1 DEF WebhooksInv, WebhooksUI
<1> QED
  BY <1>1, <1>2, <1>3, <1>4 DEF Webhooks!Answers, WebhooksInv, WebhooksUI

\* A press or what is typed on the page.
LEMMA WebhooksPress ==
  ASSUME WebhooksInv, NEW s \in Slots,
         Webhooks!WebhooksTable(s) \/ Webhooks!WebhookDialog(s) \/ Webhooks!SecretDialog
  PROVE  WebhooksInv'
<1> USE WebhooksApart
<1>1. WebhooksPage(ui)
  BY DEF WebhooksInv, WebhooksUI
<1>2. ASSUME NEW i \in OneId, Webhooks!There(seen[i]), Webhooks!openEdit(i)  PROVE WebhooksInv'
  <2>1. seen[i] \in Webhooks!Forms
    BY <1>2 DEF WebhooksInv, WebhooksEditor, EditorInv, Webhooks!There
  <2> QED
    BY <1>1, <1>2, <2>1, WebhooksShow DEF WebhooksPage, Webhooks!openEdit, Webhooks!Form
<1>3. ASSUME NEW i \in OneId, Webhooks!handleDelete(s, i)  PROVE WebhooksInv'
  BY <1>3, WebhooksSend DEF Webhooks!handleDelete
<1>4. ASSUME NEW i \in OneId, Webhooks!handleRegenerate(s, i)  PROVE WebhooksInv'
  BY <1>4, WebhooksSend DEF Webhooks!handleRegenerate
<1>5. CASE Webhooks!openCreate
  BY <1>1, <1>5, WebhooksShow DEF WebhooksPage, Webhooks!openCreate
<1>6. CASE Webhooks!WebhooksTable(s)
  BY <1>2, <1>3, <1>4, <1>5, <1>6 DEF Webhooks!WebhooksTable
<1>7. ASSUME NEW says \in Webhooks!Values, Webhooks!OnScreen([ui EXCEPT !.form.says = says])  PROVE WebhooksInv'
  BY <1>1, <1>7, WebhooksShow DEF WebhooksPage
<1>8. ASSUME NEW event \in Events, Webhooks!toggleEvent(event)  PROVE WebhooksInv'
  <2>1. ui.form.says \in Webhooks!Values
    BY <1>1, <1>8 DEF WebhooksPage, Webhooks!toggleEvent, Webhooks!Forms
  <2> DEFINE says == IF event \in ui.form.says THEN ui.form.says \ {event} ELSE ui.form.says \cup {event}
  <2>2. says \in Webhooks!Values
    BY <2>1 DEF Webhooks!Values
  <2>3. Webhooks!OnScreen([ui EXCEPT !.form.says = says])
    BY <1>8 DEF Webhooks!toggleEvent
  <2> QED
    BY <1>7, <2>2, <2>3
<1>9. CASE Webhooks!setDialogOpen(FALSE) \/ Webhooks!SecretDialog
  BY <1>1, <1>9, WebhooksShow DEF WebhooksPage, Webhooks!setDialogOpen, Webhooks!SecretDialog
<1>10. CASE ui.form.says # Blank /\ ~Webhooks!isPending("update") /\ Webhooks!handleSubmit(s)
  <2>1. ui.form.says \in Webhooks!Values
    BY <1>1, <1>10 DEF WebhooksPage, Webhooks!Forms
  <2>2. CASE ui.editingId = None
    BY <1>1, <1>10, <2>1, <2>2, WebhooksSend DEF WebhooksPage, Webhooks!handleSubmit
  <2>3. CASE ui.editingId # None
    BY <1>1, <1>10, <2>1, <2>3, WebhooksSend DEF WebhooksPage, Webhooks!handleSubmit
  <2> QED
    BY <2>2, <2>3
<1>11. CASE Webhooks!WebhookDialog(s)
  <2>1. {} \in Webhooks!Values
    BY DEF Webhooks!Values
  <2> QED
    BY <1>7, <1>8, <1>9, <1>10, <1>11, <2>1 DEF Webhooks!WebhookDialog
<1> QED
  BY <1>6, <1>9, <1>11

\* A step of the page.
LEMMA NextWebhooks == ASSUME WebhooksInv, Webhooks!Next PROVE WebhooksInv'
<1>1. WebhooksPage(ui)
  BY DEF WebhooksInv, WebhooksUI
<1>2. ASSUME NEW s \in Slots, Webhooks!deleted(s)  PROVE WebhooksInv'
  BY <1>1, <1>2, WebhooksSucceed DEF WebhooksPage, Webhooks!deleted
<1>3. ASSUME NEW s \in Slots, Webhooks!submitted(s) \/ Webhooks!regenerated(s)  PROVE WebhooksInv'
  <2>1. net[s] # Webhooks!Idle /\ net[s].step = "done"
    BY <1>3 DEF Webhooks!submitted, Webhooks!regenerated, Webhooks!Succeeds
  <2>2. net[s] \in Call(OneId, Webhooks!Forms)
    BY <2>1, SlotKinds DEF WebhooksInv, WebhooksEditor, EditorInv, Webhooks!Idle, Idle
  <2>3. net[s].id \in OneId \cup {None}
    BY <2>2 DEF Call
  <2>4. CASE Webhooks!regenerated(s)
    BY <1>1, <2>3, <2>4, WebhooksSucceed DEF WebhooksPage, Webhooks!regenerated
  <2>5. CASE Webhooks!submitted(s)
    <3> DEFINE next == [ui EXCEPT !.dialogOpen = FALSE,
                                  !.createdSecret = IF net[s].kind = "create" THEN net[s].id ELSE ui.createdSecret]
    <3>1. Webhooks!Succeeds(s, next)
      BY <1>1, <2>5 DEF Webhooks!submitted, WebhooksPage
    <3>2. WebhooksPage(next)
      BY <1>1, <2>3 DEF WebhooksPage
    <3> QED
      BY <3>1, <3>2, WebhooksSucceed
  <2> QED
    BY <1>3, <2>4, <2>5
<1> QED
  BY <1>2, <1>3, WebhooksPress, WebhooksAnswers DEF Webhooks!Next

----------------------------------------------------------------------------
(* Captions: who is removed belonged to the video it is removed from *)

Marked == [loaded: BOOLEAN, subtitles: SUBSET OneText, stale: BOOLEAN, old: BOOLEAN]
Fetch == [kind: {"fetch"}, read: SUBSET OneText, step: {"sent", "done"}, old: BOOLEAN]
Mutation == [kind: {"select", "thumbnail", "remove", "upload", "attach"}, id: Videos,
             what: OneText \cup {None}, step: {"sent", "done"}]

\* The lists of a video, the server's, the one last read and one on its way, hold only
\* what the video ever had; a removal is of one of them.
CaptionsInv ==
  /\ db \in [Videos -> SUBSET OneText] /\ told \in [Videos -> SUBSET OneText] /\ seen \in [Videos -> Marked]
  /\ ui \in [video: Videos \cup {None}, open: BOOLEAN, query: BOOLEAN, searchEnabled: BOOLEAN, label: BOOLEAN]
  /\ ui.open => ui.video \in Videos
  /\ net \in [OneSlot \cup Videos -> {Idle} \cup Fetch \cup Mutation]
  /\ \A v \in Videos :
       /\ net[v] \in {Idle} \cup Fetch /\ (net[v] # Idle => net[v].read \subseteq told[v])
       /\ db[v] \subseteq told[v] /\ seen[v].subtitles \subseteq told[v]
  /\ \A s \in OneSlot :
       net[s] \in {Idle} \cup Mutation /\ (net[s].kind = "remove" => net[s].what \in told[net[s].id])

\* What is open is no idle slot.
LEMMA CaptionKinds ==
  /\ \A x \in Fetch : x # Idle /\ x.kind = "fetch"
  /\ \A x \in Mutation : x # Idle /\ x.kind \in {"select", "thumbnail", "remove", "upload", "attach"}
  /\ Idle.kind = "idle"
BY DEF Fetch, Mutation, Idle

\* At the start nothing is read.
LEMMA InitCaptions == ASSUME Captions!Init PROVE CaptionsInv
<1>1. db \in [Videos -> SUBSET OneText] /\ told = db
  BY DEF Captions!Init
<1>2. seen \in [Videos -> Marked] /\ \A v \in Videos : seen[v].subtitles = {}
  BY DEF Captions!Init, Captions!Unread, Marked
<1>3. net \in [OneSlot \cup Videos -> {Idle}]
  BY DEF Captions!Init, Captions!Idle, Idle
<1>4. ui \in [video: Videos \cup {None}, open: BOOLEAN, query: BOOLEAN, searchEnabled: BOOLEAN, label: BOOLEAN] /\ ~ui.open
  BY DEF Captions!Init
<1> QED
  BY <1>1, <1>2, <1>3, <1>4, CaptionKinds DEF CaptionsInv

\* The page alone changes.
LEMMA CaptionsShow ==
  ASSUME CaptionsInv, UNCHANGED <<db, seen, net, told>>,
         ui' \in [video: Videos \cup {None}, open: BOOLEAN, query: BOOLEAN, searchEnabled: BOOLEAN, label: BOOLEAN],
         ui'.open => ui'.video \in Videos
  PROVE  CaptionsInv'
BY DEF CaptionsInv

\* One request or mutation changes, of the list of a video or of a slot.
LEMMA CaptionsNet ==
  ASSUME CaptionsInv, UNCHANGED <<db, told>>, seen' \in [Videos -> Marked],
         \A v \in Videos : seen'[v].subtitles \subseteq told[v],
         ui' \in [video: Videos \cup {None}, open: BOOLEAN, query: BOOLEAN, searchEnabled: BOOLEAN, label: BOOLEAN],
         ui'.open => ui'.video \in Videos,
         net' \in [OneSlot \cup Videos -> {Idle} \cup Fetch \cup Mutation],
         \A v \in Videos : net'[v] = net[v] \/ net'[v] = Idle \/ (net'[v] \in Fetch /\ net'[v].read \subseteq told[v]),
         \A s \in OneSlot : net'[s] = net[s] \/ net'[s] = Idle
           \/ (net'[s] \in Mutation /\ (net'[s].kind = "remove" => net'[s].what \in told[net'[s].id]))
  PROVE  CaptionsInv'
BY CaptionKinds DEF CaptionsInv

\* A slot is used for no list.
LEMMA SlotsApart == \A s \in OneSlot, v \in Videos : s # v
BY PagesAssumption

\* The sheet shows a video.
LEMMA ShowCaptions == ASSUME CaptionsInv, NEW v \in Videos, Captions!Show(v) PROVE CaptionsInv'
<1> DEFINE x == IF seen[v].stale /\ net[v] = Idle THEN Captions!Request ELSE net[v]
<1>1. Captions!Request \in Fetch /\ Captions!Request.read = {}
  BY DEF Captions!Request, Fetch
<1>2. x = net[v] \/ x = Captions!Request
  OBVIOUS
<1>3. net' = [net EXCEPT ![v] = x]
  BY DEF Captions!Show, CaptionsInv, Captions!Idle, Idle
<1> HIDE DEF x
<1>4. net' \in [OneSlot \cup Videos -> {Idle} \cup Fetch \cup Mutation]
  BY <1>1, <1>2, <1>3 DEF CaptionsInv
<1>5. \A w \in Videos : net'[w] = net[w] \/ (net'[w] \in Fetch /\ net'[w].read \subseteq told[w])
  BY <1>1, <1>2, <1>3 DEF CaptionsInv
<1>6. \A s \in OneSlot : net'[s] = net[s]
  BY <1>3, SlotsApart DEF CaptionsInv
<1>7. /\ ui' \in [video: Videos \cup {None}, open: BOOLEAN, query: BOOLEAN, searchEnabled: BOOLEAN, label: BOOLEAN]
      /\ ui'.video \in Videos /\ UNCHANGED <<db, seen, told>>
  BY DEF CaptionsInv, Captions!Show
<1> QED
  BY <1>4, <1>5, <1>6, <1>7, CaptionsNet DEF CaptionsInv

\* The server reads a list.
LEMMA FetchedCaptions == ASSUME CaptionsInv, NEW v \in Videos, Captions!Fetched(v) PROVE CaptionsInv'
<1>1. net[v] \in Fetch
  BY DEF CaptionsInv, Captions!Fetched, Captions!Idle, Idle
<1> DEFINE x == [net[v] EXCEPT !.read = db[v], !.step = "done"]
<1>2. x \in Fetch /\ x.read \subseteq told[v]
  BY <1>1 DEF CaptionsInv, Fetch
<1>3. net' = [net EXCEPT ![v] = x] /\ UNCHANGED <<db, seen, ui, told>>
  BY DEF Captions!Fetched
<1> HIDE DEF x
<1>4. net' \in [OneSlot \cup Videos -> {Idle} \cup Fetch \cup Mutation]
  BY <1>2, <1>3 DEF CaptionsInv
<1>5. \A w \in Videos : net'[w] = net[w] \/ (net'[w] \in Fetch /\ net'[w].read \subseteq told[w])
  BY <1>2, <1>3 DEF CaptionsInv
<1>6. \A s \in OneSlot : net'[s] = net[s]
  BY <1>3, SlotsApart DEF CaptionsInv
<1> QED
  BY <1>3, <1>4, <1>5, <1>6, CaptionsNet DEF CaptionsInv

\* A list arrives.
LEMMA ArrivesCaptions == ASSUME CaptionsInv, NEW v \in Videos, Captions!Arrives(v) PROVE CaptionsInv'
<1>1. net[v] \in Fetch /\ net[v].read \subseteq told[v]
  BY DEF CaptionsInv, Captions!Arrives, Captions!Idle, Idle
<1> DEFINE x == [loaded |-> TRUE, subtitles |-> net[v].read, stale |-> FALSE, old |-> net[v].old]
<1>2. x \in Marked /\ x.subtitles \subseteq told[v]
  BY <1>1 DEF Fetch, Marked
<1>3. seen' = [seen EXCEPT ![v] = x] /\ net' = [net EXCEPT ![v] = Idle] /\ UNCHANGED <<db, ui, told>>
  BY DEF Captions!Arrives, Captions!Idle, Idle
<1> HIDE DEF x
<1>4. seen' \in [Videos -> Marked] /\ \A w \in Videos : seen'[w].subtitles \subseteq told[w]
  BY <1>2, <1>3 DEF CaptionsInv
<1>5. net' \in [OneSlot \cup Videos -> {Idle} \cup Fetch \cup Mutation] /\ \A y \in OneSlot \cup Videos : net'[y] = net[y] \/ net'[y] = Idle
  BY <1>3 DEF CaptionsInv
<1> QED
  BY <1>3, <1>4, <1>5, CaptionsNet DEF CaptionsInv

\* A mutation is sent from the open sheet.
LEMMA SentCaptions ==
  ASSUME CaptionsInv, ui.open, NEW s \in OneSlot,
         NEW kind \in {"select", "thumbnail", "remove", "upload", "attach"}, NEW what,
         IF kind = "remove" THEN what \in seen[ui.video].subtitles ELSE what = None,
         Captions!mutateAsync(s, kind, what)
  PROVE  CaptionsInv'
<1> DEFINE x == [kind |-> kind, id |-> ui.video, what |-> what, step |-> "sent"]
<1>1. ui.video \in Videos /\ seen[ui.video].subtitles \subseteq told[ui.video] /\ told[ui.video] \subseteq OneText
  BY DEF CaptionsInv
<1>2. x \in Mutation /\ (x.kind = "remove" => x.what \in told[x.id])
  BY <1>1 DEF Mutation
<1>3. net' = [net EXCEPT ![s] = x] /\ UNCHANGED <<db, seen, ui, told>>
  BY DEF Captions!mutateAsync
<1> HIDE DEF x
<1>4. net' \in [OneSlot \cup Videos -> {Idle} \cup Fetch \cup Mutation]
  BY <1>2, <1>3 DEF CaptionsInv
<1>5. \A t \in OneSlot : net'[t] = IF t = s THEN x ELSE net[t]
  BY <1>3 DEF CaptionsInv
<1>6. \A w \in Videos : net'[w] = net[w]
  BY <1>3, SlotsApart DEF CaptionsInv
<1> QED
  BY <1>2, <1>3, <1>4, <1>5, <1>6, CaptionsNet DEF CaptionsInv

\* What the sheet offers.
LEMMA SheetCaptions ==
  ASSUME CaptionsInv, ui.open, NEW s \in OneSlot, Captions!ThumbnailSelector(s) \/ Captions!CaptionTab(s)
  PROVE  CaptionsInv'
<1>1. ASSUME NEW b \in BOOLEAN, Captions!OnScreen([ui EXCEPT !.label = b])  PROVE CaptionsInv'
  BY <1>1, CaptionsShow DEF CaptionsInv, Captions!OnScreen
<1>2. ASSUME NEW b \in BOOLEAN, Captions!OnScreen([ui EXCEPT !.query = b, !.searchEnabled = FALSE])  PROVE CaptionsInv'
  BY <1>2, CaptionsShow DEF CaptionsInv, Captions!OnScreen
<1>3. CASE Captions!OnScreen([ui EXCEPT !.searchEnabled = TRUE])
  BY <1>3, CaptionsShow DEF CaptionsInv, Captions!OnScreen
<1>4. CASE Captions!ThumbnailSelector(s)
  BY <1>4, SentCaptions
    DEF Captions!ThumbnailSelector, Captions!handleUploadThumbnail, Captions!handleSelectThumbnail
<1>5. CASE Captions!AttachedSubtitles(s)
  BY <1>5, SentCaptions DEF Captions!AttachedSubtitles, Captions!listed
<1>6. CASE Captions!UploadSubtitle(s)
  BY <1>1, <1>6, SentCaptions DEF Captions!UploadSubtitle
<1>7. CASE Captions!SearchSubtitles
  BY <1>2, <1>3, <1>7 DEF Captions!SearchSubtitles
<1>8. CASE Captions!SearchResults(s)
  BY <1>8, SentCaptions DEF Captions!SearchResults
<1> QED
  BY <1>4, <1>5, <1>6, <1>7, <1>8 DEF Captions!CaptionTab

\* The server carries a mutation out.
LEMMA ServedCaptions == ASSUME CaptionsInv, NEW s \in OneSlot, Captions!ServerDoes(s) PROVE CaptionsInv'
<1>1. net[s] \in Mutation /\ (net[s].kind = "remove" => net[s].what \in told[net[s].id])
  BY DEF CaptionsInv, Captions!ServerDoes, Captions!Idle, Idle
<1> DEFINE v == net[s].id
           x == [net[s] EXCEPT !.step = "done"]
<1>2. x \in Mutation /\ x.kind = net[s].kind /\ x.id = net[s].id /\ x.what = net[s].what
  BY <1>1 DEF Mutation
<1>3. net' = [net EXCEPT ![s] = x] /\ UNCHANGED <<seen, ui>>
  BY DEF Captions!ServerDoes
<1>4. v \in Videos
  BY <1>1 DEF Mutation
<1>5. /\ db' \in [Videos -> SUBSET OneText] /\ told' \in [Videos -> SUBSET OneText]
      /\ \A w \in Videos : db'[w] \subseteq told'[w] /\ told[w] \subseteq told'[w]
  <2>1. CASE net[s].kind \in {"upload", "attach"}
    <3>1. PICK sub \in OneText : db' = [db EXCEPT ![v] = db[v] \cup {sub}] /\ told' = [told EXCEPT ![v] = told[v] \cup {sub}]
      BY <2>1 DEF Captions!ServerDoes
    <3> QED
      BY <1>4, <3>1 DEF CaptionsInv
  <2>2. CASE net[s].kind = "remove"
    <3>1. db' = [db EXCEPT ![v] = db[v] \ {net[s].what}] /\ told' = told
      BY <2>2 DEF Captions!ServerDoes
    <3> QED
      BY <1>4, <3>1 DEF CaptionsInv
  <2>3. CASE net[s].kind \notin {"upload", "attach", "remove"}
    <3>1. db' = db /\ told' = told
      BY <2>3 DEF Captions!ServerDoes
    <3> QED
      BY <3>1 DEF CaptionsInv
  <2> QED
    BY <2>1, <2>2, <2>3
<1> HIDE DEF v, x
<1>6. net' \in [OneSlot \cup Videos -> {Idle} \cup Fetch \cup Mutation]
  BY <1>2, <1>3 DEF CaptionsInv
<1>7. \A w \in Videos : net'[w] = net[w]
  BY <1>3, SlotsApart DEF CaptionsInv
<1>8. ASSUME NEW t \in OneSlot
      PROVE  net'[t] \in {Idle} \cup Mutation /\ (net'[t].kind = "remove" => net'[t].what \in told'[net'[t].id])
  <2>1. net[t] \in {Idle} \cup Mutation /\ (net[t].kind = "remove" => net[t].what \in told[net[t].id])
    BY DEF CaptionsInv
  <2>2. net[t].kind = "remove" => net[t].id \in Videos
    BY <2>1, CaptionKinds DEF Mutation
  <2>3. CASE t = s
    BY <1>2, <1>3, <1>5, <2>1, <2>2, <2>3 DEF CaptionsInv
  <2>4. CASE t # s
    BY <1>3, <1>5, <2>1, <2>2, <2>4 DEF CaptionsInv
  <2> QED
    BY <2>3, <2>4
<1>9. \A w \in Videos :
        /\ net'[w] \in {Idle} \cup Fetch /\ (net'[w] # Idle => net'[w].read \subseteq told'[w])
        /\ db'[w] \subseteq told'[w] /\ seen'[w].subtitles \subseteq told'[w]
  BY <1>3, <1>5, <1>7 DEF CaptionsInv
<1> QED
  BY <1>3, <1>5, <1>6, <1>8, <1>9 DEF CaptionsInv

\* A mutation has succeeded, and its list is read anew.
LEMMA SucceedsCaptions == ASSUME CaptionsInv, NEW s \in OneSlot, Captions!Succeeds(s) PROVE CaptionsInv'
<1>1. net[s] \in Mutation
  BY DEF CaptionsInv, Captions!Succeeds, Captions!Idle, Idle
<1> DEFINE v == net[s].id
<1>2. v \in Videos
  BY <1>1 DEF Mutation
<1>3. PICK hits \in BOOLEAN : hits = (net[s].kind \in {"upload", "attach", "remove"})
  <2>1. (net[s].kind \in {"upload", "attach", "remove"}) \in BOOLEAN
    OBVIOUS
  <2> QED
    BY <2>1
<1>4. /\ seen' = IF hits THEN [seen EXCEPT ![v].stale = TRUE] ELSE seen
      /\ net' = [x \in OneSlot \cup Videos |->
                   IF x = s THEN Idle ELSE IF hits /\ x = v THEN Captions!Refetch(v) ELSE net[x]]
      /\ ui' = IF net[s].kind = "upload" THEN [ui EXCEPT !.label = FALSE] ELSE ui
      /\ UNCHANGED <<db, told>>
  BY <1>3 DEF Captions!Succeeds, Captions!InvalidatesOf, Captions!Idle, Idle
<1>5. seen' \in [Videos -> Marked] /\ \A w \in Videos : seen'[w].subtitles \subseteq told[w]
  <2>1. CASE hits
    <3>1. [seen[v] EXCEPT !.stale = TRUE] \in Marked /\ [seen[v] EXCEPT !.stale = TRUE].subtitles = seen[v].subtitles
      BY <1>2 DEF CaptionsInv, Marked
    <3>2. seen' = [seen EXCEPT ![v] = [seen[v] EXCEPT !.stale = TRUE]]
      BY <1>4, <2>1
    <3> QED
      BY <1>2, <3>1, <3>2 DEF CaptionsInv
  <2>2. CASE ~hits
    BY <1>4, <2>2 DEF CaptionsInv
  <2> QED
    BY <2>1, <2>2
<1>6. PICK r : r = Captions!Refetch(v)
  OBVIOUS
<1>7. r = Idle \/ (r \in Fetch /\ r.read \subseteq told[v])
  <2>1. Captions!Request \in Fetch /\ Captions!Request.read = {}
    BY DEF Captions!Request, Fetch
  <2>2. CASE r = Captions!Request \/ r = Idle
    BY <2>1, <2>2
  <2>3. CASE net[v] # Idle /\ r = [net[v] EXCEPT !.old = net[v].old \/ net[v].step = "done"]
    <3>1. net[v] \in Fetch /\ net[v].read \subseteq told[v]
      BY <1>2, <2>3 DEF CaptionsInv
    <3>2. PICK b \in BOOLEAN : b = (net[v].old \/ net[v].step = "done")
      OBVIOUS
    <3>3. r = [net[v] EXCEPT !.old = b]
      BY <2>3, <3>2
    <3> QED
      BY <3>1, <3>3 DEF Fetch
  <2>4. r = Captions!Request \/ r = Idle \/ (net[v] # Idle /\ r = [net[v] EXCEPT !.old = net[v].old \/ net[v].step = "done"])
    BY <1>6 DEF Captions!Refetch, Captions!Idle, Idle
  <2> QED
    BY <2>2, <2>3, <2>4
<1> HIDE DEF v
<1>8. \A x \in OneSlot \cup Videos : net'[x] = IF x = s THEN Idle ELSE IF hits /\ x = v THEN r ELSE net[x]
  BY <1>4, <1>6
<1>9. net' \in [OneSlot \cup Videos -> {Idle} \cup Fetch \cup Mutation]
  <2>1. \A x \in OneSlot \cup Videos : net'[x] \in {Idle} \cup Fetch \cup Mutation
    BY <1>7, <1>8 DEF CaptionsInv
  <2>2. net' = [x \in OneSlot \cup Videos |-> net'[x]]
    BY <1>4
  <2> QED
    BY <2>1, <2>2
<1>10. \A w \in Videos : net'[w] = net[w] \/ net'[w] = Idle \/ (net'[w] \in Fetch /\ net'[w].read \subseteq told[w])
  BY <1>7, <1>8
<1>11. \A t \in OneSlot : net'[t] = net[t] \/ net'[t] = Idle
  BY <1>2, <1>8, SlotsApart
<1>12. /\ ui' \in [video: Videos \cup {None}, open: BOOLEAN, query: BOOLEAN, searchEnabled: BOOLEAN, label: BOOLEAN]
       /\ ui'.open => ui'.video \in Videos
  BY <1>4 DEF CaptionsInv
<1> QED
  BY <1>4, <1>5, <1>9, <1>10, <1>11, <1>12, CaptionsNet

\* The server refuses.
LEMMA FailsCaptions == ASSUME CaptionsInv, NEW s \in OneSlot, Captions!Fails(s) PROVE CaptionsInv'
<1>1. net' = [net EXCEPT ![s] = Idle] /\ UNCHANGED <<db, seen, ui, told>>
  BY DEF Captions!Fails, Captions!Idle, Idle
<1>2. net' \in [OneSlot \cup Videos -> {Idle} \cup Fetch \cup Mutation] /\ \A y \in OneSlot \cup Videos : net'[y] = net[y] \/ net'[y] = Idle
  BY <1>1 DEF CaptionsInv
<1> QED
  BY <1>1, <1>2, CaptionsNet DEF CaptionsInv

\* A step of the sheet.
LEMMA NextCaptions == ASSUME CaptionsInv, Captions!Next PROVE CaptionsInv'
<1>1. CASE Captions!OnScreen([ui EXCEPT !.open = FALSE])
  BY <1>1, CaptionsShow DEF CaptionsInv, Captions!OnScreen
<1> QED
  BY <1>1, ShowCaptions, FetchedCaptions, ArrivesCaptions, SheetCaptions, ServedCaptions, SucceedsCaptions, FailsCaptions
    DEF Captions!Next

----------------------------------------------------------------------------
(* The account page: name and email *)

Fields == {"name", "email"}
Names == Texts \cup {None}
AccountKinds == Account!Refreshing \cup Account!Quiet \cup {"refresh"}
AccountCall == [kind: AccountKinds, says: Names \cup Account!Profile, step: {"sent", "done"}]

\* A save that is open says a text, and once it is done the server has it; a refresh
\* brings a profile.
SaveOK(c, profile) ==
  /\ c.kind \in Fields => c.says \in Texts /\ (c.step = "done" => profile[c.kind] = c.says)
  /\ c.kind = "refresh" /\ c.step = "done" => c.says \in Account!Profile

\* One save is open at most; what was told and is not being saved again is stored.
AccountInv ==
  /\ Account!TypeOK
  /\ \A s \in Slots : SaveOK(net[s], db)
  /\ \A s, t \in Slots : net[s].kind \in Fields /\ net[t].kind \in Fields => s = t
  /\ \A f \in Fields : told[f] = None \/ db[f] = told[f] \/ \E s \in Slots : net[s].kind = f

\* The kinds of calls.
LEMMA AccountNames ==
  /\ Fields \subseteq AccountKinds /\ "refresh" \in AccountKinds /\ "refresh" \notin Fields /\ Idle.kind \notin AccountKinds
  /\ Account!Refreshing = {"name", "email", "password", "avatar", "link", "unlink", "register"}
  /\ Account!Quiet = {"device", "session", "renamePasskey", "deletePasskey"}
BY DEF Fields, AccountKinds, Account!Refreshing, Account!Fields, Account!Quiet, Idle

\* What the types say of calls, profile and history.
LEMMA AccountTypes ==
  ASSUME Account!TypeOK
  PROVE  /\ net \in [Slots -> {Idle} \cup AccountCall] /\ db \in Account!Profile
         /\ told \in [name: Names, email: Names, blurred: BOOLEAN]
BY DEF Account!TypeOK, AccountCall, AccountKinds, Names, Idle, Account!Idle

\* At the start nothing is open.
LEMMA InitAccount == ASSUME Account!Init PROVE AccountInv
<1>1. PICK t \in Texts : db = [name |-> t, email |-> t, version |-> 0]
  BY DEF Account!Init
<1>2. 0 \in 0 .. MaxChanges
  BY PagesAssumption
<1>3. db \in Account!Profile
  BY <1>1, <1>2 DEF Account!Profile
<1>4. /\ seen = db /\ net \in [Slots -> {Account!Idle}]
      /\ ui = [dialog |-> "none", draft |-> None, registering |-> FALSE]
      /\ told = [name |-> None, email |-> None, blurred |-> FALSE]
  BY DEF Account!Init
<1>5. Account!TypeOK
  BY <1>3, <1>4 DEF Account!TypeOK, Account!Dialogs
<1>6. \A s \in Slots : net[s].kind \notin Fields /\ net[s].kind # "refresh"
  BY <1>4 DEF Account!Idle, Fields
<1> QED
  BY <1>4, <1>5, <1>6 DEF AccountInv, SaveOK, Fields

\* A dialog opens, closes or is typed in.
LEMMA AccountDialog ==
  ASSUME AccountInv, NEW d \in Account!Dialogs, NEW t \in Names, Account!Dialog(d, t)
  PROVE  AccountInv'
<1>1. Account!TypeOK'
  BY DEF AccountInv, Account!TypeOK, Account!Dialog, Names
<1> QED
  BY <1>1 DEF AccountInv, SaveOK, Account!Dialog

\* A call is sent; a save only where none is open.
LEMMA AccountSend ==
  ASSUME AccountInv, NEW s \in Slots, NEW kind \in AccountKinds, NEW says \in Names, Account!Send(s, kind, says),
         kind \in Fields => says \in Texts /\ \A t \in Slots : net[t].kind \notin Fields,
         \E b \in BOOLEAN : ui' = [ui EXCEPT !.registering = b]
  PROVE  AccountInv'
<1> DEFINE c == [kind |-> kind, says |-> says, step |-> "sent"]
<1>1. c \in AccountCall /\ SaveOK(c, db) /\ c.kind = kind
  BY DEF AccountCall, SaveOK
<1>2. net \in [Slots -> {Idle} \cup AccountCall]
  BY AccountTypes DEF AccountInv
<1>3. net' = [net EXCEPT ![s] = c] /\ net[s] = Idle /\ UNCHANGED <<db, seen, told>>
  BY DEF Account!Send, Account!Idle, Idle
<1> HIDE DEF c
<1>4. net' \in [Slots -> {Idle} \cup AccountCall] /\ \A t \in Slots : net'[t] = IF t = s THEN c ELSE net[t]
  BY <1>1, <1>2, <1>3
<1>5. ui' \in [dialog: Account!Dialogs, draft: Names, registering: BOOLEAN]
  BY DEF AccountInv, Account!TypeOK, Names
<1>6. Account!TypeOK'
  BY <1>3, <1>4, <1>5 DEF AccountInv, Account!TypeOK, AccountCall, AccountKinds, Names, Idle, Account!Idle
<1>7. \A t \in Slots : SaveOK(net'[t], db')
  BY <1>1, <1>3, <1>4 DEF AccountInv, SaveOK
<1>8. \A t, u \in Slots : net'[t].kind \in Fields /\ net'[u].kind \in Fields => t = u
  BY <1>1, <1>4 DEF AccountInv
<1>9. \A f \in Fields : (\E t \in Slots : net[t].kind = f) => \E t \in Slots : net'[t].kind = f
  BY <1>3, <1>4, AccountNames
<1> QED
  BY <1>3, <1>6, <1>7, <1>8, <1>9 DEF AccountInv

\* The server answers a call, which keeps its kind.
LEMMA AccountServed == ASSUME AccountInv, NEW s \in Slots, Account!ServerDoes(s) PROVE AccountInv'
<1>1. net \in [Slots -> {Idle} \cup AccountCall] /\ db \in Account!Profile
  BY AccountTypes DEF AccountInv
<1>2. net[s] \in AccountCall /\ net[s].step = "sent" /\ UNCHANGED <<seen, ui, told>> /\ SaveOK(net[s], db)
  BY <1>1 DEF Account!ServerDoes, Idle, Account!Idle, AccountInv
<1>3. PICK c \in AccountCall :
        /\ net' = [net EXCEPT ![s] = c] /\ c.kind = net[s].kind /\ c.step = "done"
        /\ IF c.kind = "refresh" THEN c.says \in Account!Profile ELSE c.says = net[s].says
  <2>1. CASE net[s].kind = "refresh"
    <3>1. net' = [net EXCEPT ![s] = [net[s] EXCEPT !.step = "done", !.says = db]]
      BY <2>1 DEF Account!ServerDoes
    <3> DEFINE c == [net[s] EXCEPT !.step = "done", !.says = db]
    <3>2. c \in AccountCall /\ c.kind = net[s].kind /\ c.step = "done" /\ c.says = db
      BY <1>1, <1>2 DEF AccountCall
    <3> QED
      BY <1>1, <2>1, <3>1, <3>2
  <2>2. CASE net[s].kind # "refresh"
    <3>1. net' = [net EXCEPT ![s] = [net[s] EXCEPT !.step = "done"]]
      BY <2>2 DEF Account!ServerDoes
    <3> DEFINE c == [net[s] EXCEPT !.step = "done"]
    <3>2. c \in AccountCall /\ c.kind = net[s].kind /\ c.step = "done" /\ c.says = net[s].says
      BY <1>2 DEF AccountCall
    <3> QED
      BY <2>2, <3>1, <3>2
  <2> QED
    BY <2>1, <2>2
<1>4. /\ db' \in Account!Profile
      /\ \A f \in Fields : db'[f] = IF net[s].kind = f THEN net[s].says ELSE db[f]
  <2>1. CASE net[s].kind = "refresh"
    BY <1>1, <2>1, AccountNames DEF Account!ServerDoes
  <2>2. CASE net[s].kind # "refresh"
    <3>1. PICK name \in Texts : name = IF net[s].kind = "name" THEN net[s].says ELSE db.name
      BY <1>1, <1>2 DEF SaveOK, Fields, Account!Profile
    <3>2. PICK email \in Texts : email = IF net[s].kind = "email" THEN net[s].says ELSE db.email
      BY <1>1, <1>2 DEF SaveOK, Fields, Account!Profile
    <3>3. db.version \in 0 .. MaxChanges /\ MaxChanges \in Nat
      BY <1>1, PagesAssumption DEF Account!Profile
    <3>4. PICK version \in 0 .. MaxChanges :
            version = IF Account!Changes(net[s].kind) THEN db.version + 1 ELSE db.version
      BY <2>2, <3>3 DEF Account!ServerDoes
    <3>5. db' = [name |-> name, email |-> email, version |-> version]
      BY <2>2, <3>1, <3>2, <3>4 DEF Account!ServerDoes
    <3> QED
      BY <3>1, <3>2, <3>5 DEF Fields, Account!Profile
  <2> QED
    BY <2>1, <2>2
<1>5. net' \in [Slots -> {Idle} \cup AccountCall] /\ \A t \in Slots : net'[t] = IF t = s THEN c ELSE net[t]
  BY <1>1, <1>3
<1>6. Account!TypeOK'
  BY <1>2, <1>4, <1>5 DEF AccountInv, Account!TypeOK, AccountCall, AccountKinds, Names, Idle, Account!Idle
<1>7. \A t \in Slots : net'[t].kind = net[t].kind
  BY <1>3, <1>5
<1>8. \A t \in Slots : SaveOK(net'[t], db')
  <2> SUFFICES ASSUME NEW t \in Slots
               PROVE  SaveOK(net'[t], db')
    OBVIOUS
  <2>1. CASE t = s
    BY <1>2, <1>3, <1>4, <1>5, <2>1, AccountNames DEF SaveOK
  <2>2. CASE t # s
    <3>1. net'[t] = net[t] /\ SaveOK(net[t], db)
      BY <1>5, <2>2 DEF AccountInv
    <3>2. net[t].kind \in Fields => net[s].kind \notin Fields
      BY <2>2 DEF AccountInv
    <3> QED
      BY <1>4, <3>1, <3>2 DEF SaveOK
  <2> QED
    BY <2>1, <2>2
<1>9. \A f \in Fields : told'[f] = None \/ db'[f] = told'[f] \/ \E t \in Slots : net'[t].kind = f
  BY <1>2, <1>4, <1>7 DEF AccountInv
<1> QED
  BY <1>6, <1>7, <1>8, <1>9 DEF AccountInv

\* A call ends, or goes on as a refresh.
LEMMA AccountSettled ==
  ASSUME AccountInv, NEW s \in Slots, net[s] \in AccountCall, UNCHANGED db, seen' \in Account!Profile,
         ui' \in [dialog: Account!Dialogs, draft: Names, registering: BOOLEAN],
         NEW c \in {Idle} \cup AccountCall, c.kind \notin Fields, c.kind = "refresh" => c.step = "sent",
         net' = [net EXCEPT ![s] = c],
         told' \in [name: Names, email: Names, blurred: BOOLEAN],
         \A f \in Fields :
           IF net[s].kind = f THEN told'[f] = None \/ (net[s].step = "done" /\ told'[f] = net[s].says)
           ELSE told'[f] = told[f]
  PROVE  AccountInv'
<1>1. net \in [Slots -> {Idle} \cup AccountCall]
  BY AccountTypes DEF AccountInv
<1>2. net' \in [Slots -> {Idle} \cup AccountCall] /\ \A t \in Slots : net'[t] = IF t = s THEN c ELSE net[t]
  BY <1>1
<1>3. Account!TypeOK'
  BY <1>2 DEF AccountInv, Account!TypeOK, AccountCall, AccountKinds, Names, Idle, Account!Idle
<1>4. \A t \in Slots : SaveOK(net'[t], db')
  BY <1>2 DEF AccountInv, SaveOK
<1>5. \A t, u \in Slots : net'[t].kind \in Fields /\ net'[u].kind \in Fields => t = u
  BY <1>2 DEF AccountInv
<1>6. ASSUME NEW f \in Fields
      PROVE  told'[f] = None \/ db'[f] = told'[f] \/ \E t \in Slots : net'[t].kind = f
  <2>1. CASE net[s].kind = f
    BY <2>1 DEF AccountInv, SaveOK
  <2>2. CASE net[s].kind # f
    <3>1. (\E t \in Slots : net[t].kind = f) => \E t \in Slots : net'[t].kind = f
      BY <1>2, <2>2
    <3> QED
      BY <2>2, <3>1 DEF AccountInv
  <2> QED
    BY <2>1, <2>2
<1> QED
  BY <1>3, <1>4, <1>5, <1>6 DEF AccountInv

\* A success is told, and goes on as a refresh if the user may have changed.
LEMMA AccountSucceeds == ASSUME AccountInv, NEW s \in Slots, Account!Succeeds(s) PROVE AccountInv'
<1>1. net \in [Slots -> {Idle} \cup AccountCall] /\ told \in [name: Names, email: Names, blurred: BOOLEAN]
  BY AccountTypes DEF AccountInv
<1>2. net[s] \in AccountCall /\ net[s].step = "done" /\ UNCHANGED <<db, seen>> /\ SaveOK(net[s], db)
  BY <1>1 DEF Account!Succeeds, Account!SucceedsRefreshing, Idle, Account!Idle, AccountInv
<1>3. PICK c \in {Idle} \cup AccountCall :
        net' = [net EXCEPT ![s] = c] /\ c.kind \notin Fields /\ (c.kind = "refresh" => c.step = "sent")
  <2> DEFINE r == [kind |-> "refresh", says |-> None, step |-> "sent"]
  <2>1. r \in AccountCall
    BY DEF AccountCall, AccountKinds, Names
  <2>2. net' = [net EXCEPT ![s] = r] \/ net' = [net EXCEPT ![s] = Idle]
    BY DEF Account!Succeeds, Account!SucceedsRefreshing, Idle, Account!Idle
  <2> QED
    BY <2>1, <2>2 DEF Idle, Fields
<1>4. ui' \in [dialog: Account!Dialogs, draft: Names, registering: BOOLEAN]
  <2>1. ui' = Account!After(net[s].kind)
    BY DEF Account!Succeeds, Account!SucceedsRefreshing
  <2>2. ui \in [dialog: Account!Dialogs, draft: Names, registering: BOOLEAN]
    BY DEF AccountInv, Account!TypeOK, Names
  <2>3. PICK d \in Account!Dialogs :
          d = IF net[s].kind \in {"name", "email", "password", "device"} /\ ui.dialog = net[s].kind THEN "none"
              ELSE IF net[s].kind = "renamePasskey" /\ ui.dialog = "passkeyName" THEN "signIn" ELSE ui.dialog
    BY <2>2 DEF Account!Dialogs
  <2>4. PICK t \in Names :
          t = IF net[s].kind \in {"name", "email", "password", "device"} /\ ui.dialog = net[s].kind THEN None ELSE ui.draft
    BY <2>2 DEF Names
  <2>5. PICK b \in BOOLEAN : b = (ui.registering /\ net[s].kind # "register")
    OBVIOUS
  <2>6. ui' = [ui EXCEPT !.dialog = d, !.draft = t, !.registering = b]
    BY <2>1, <2>3, <2>4, <2>5 DEF Account!After
  <2> QED
    BY <2>2, <2>6
<1>5. /\ told' \in [name: Names, email: Names, blurred: BOOLEAN]
      /\ \A f \in Fields : told'[f] = IF net[s].kind = f THEN net[s].says ELSE told[f]
  <2>1. PICK name \in Names : name = IF net[s].kind = "name" THEN net[s].says ELSE told.name
    BY <1>1, <1>2 DEF SaveOK, Fields, Names
  <2>2. PICK email \in Names : email = IF net[s].kind = "email" THEN net[s].says ELSE told.email
    BY <1>1, <1>2 DEF SaveOK, Fields, Names
  <2>3. PICK b \in BOOLEAN : b = (net[s].kind = "deletePasskey"
          \/ (told.blurred /\ ~(net[s].kind \in Account!Refreshing /\ Account!Open({"refresh"}) = {})))
    OBVIOUS
  <2>4. told' = [name |-> name, email |-> email, blurred |-> b]
    BY <2>1, <2>2, <2>3 DEF Account!Succeeds, Account!SucceedsRefreshing
  <2> QED
    BY <2>1, <2>2, <2>4 DEF Fields
<1>6. seen' \in Account!Profile
  BY <1>2 DEF AccountInv, Account!TypeOK
<1> QED
  BY <1>2, <1>3, <1>4, <1>5, <1>6, AccountSettled

\* The user is read again.
LEMMA AccountRefreshed == ASSUME AccountInv, NEW s \in Slots, Account!Refreshed(s) PROVE AccountInv'
<1>1. net \in [Slots -> {Idle} \cup AccountCall] /\ told \in [name: Names, email: Names, blurred: BOOLEAN]
  BY AccountTypes DEF AccountInv
<1>2. /\ net[s] \in AccountCall /\ net[s].kind \notin Fields /\ net' = [net EXCEPT ![s] = Idle]
      /\ seen' = net[s].says /\ UNCHANGED <<db, ui>>
  BY <1>1 DEF Account!Refreshed, Idle, Account!Idle, Fields
<1>3. seen' \in Account!Profile
  BY <1>2 DEF Account!Refreshed, AccountInv, SaveOK
<1>4. Idle.kind \notin Fields /\ Idle.kind # "refresh"
  BY DEF Idle, Fields
<1>5. ui' \in [dialog: Account!Dialogs, draft: Names, registering: BOOLEAN]
  BY <1>2 DEF AccountInv, Account!TypeOK, Names
<1>6. \A f \in Fields : net[s].kind # f
  BY <1>2
<1>7. /\ told' \in [name: Names, email: Names, blurred: BOOLEAN]
      /\ \A f \in Fields : told'[f] = told[f]
  <2>1. PICK b \in BOOLEAN : b = (told.blurred \/ net[s].says.version < seen.version)
    OBVIOUS
  <2>2. told' = [told EXCEPT !.blurred = b]
    BY <2>1 DEF Account!Refreshed
  <2> QED
    BY <1>1, <2>2 DEF Fields
<1> QED
  BY <1>1, <1>2, <1>3, <1>4, <1>5, <1>6, <1>7, AccountSettled

\* A call fails, and the user is told so.
LEMMA AccountFails == ASSUME AccountInv, NEW s \in Slots, Account!Fails(s) PROVE AccountInv'
<1>1. net \in [Slots -> {Idle} \cup AccountCall] /\ told \in [name: Names, email: Names, blurred: BOOLEAN]
  BY AccountTypes DEF AccountInv
<1>2. net[s] \in AccountCall /\ net' = [net EXCEPT ![s] = Idle] /\ UNCHANGED <<db, seen>>
  BY <1>1 DEF Account!Fails, Idle, Account!Idle
<1>3. ui' \in [dialog: Account!Dialogs, draft: Names, registering: BOOLEAN]
  <2>1. PICK b \in BOOLEAN : b = (ui.registering /\ net[s].kind # "register")
    OBVIOUS
  <2>2. ui' = [ui EXCEPT !.registering = b]
    BY <2>1 DEF Account!Fails
  <2> QED
    BY <2>2 DEF AccountInv, Account!TypeOK, Names
<1>4. /\ told' \in [name: Names, email: Names, blurred: BOOLEAN]
      /\ \A f \in Fields : told'[f] = IF net[s].kind = f THEN None ELSE told[f]
  <2>1. PICK b \in BOOLEAN : b = (told.blurred \/ net[s].kind = "refresh"
          \/ (net[s].step = "done" /\ Account!Changes(net[s].kind)))
    OBVIOUS
  <2>2. told' = [name |-> IF net[s].kind = "name" THEN None ELSE told.name,
                 email |-> IF net[s].kind = "email" THEN None ELSE told.email, blurred |-> b]
    BY <2>1 DEF Account!Fails
  <2> QED
    BY <1>1, <2>2 DEF Fields, Names
<1>5. Idle.kind \notin Fields /\ Idle.kind # "refresh" /\ seen' \in Account!Profile
  BY <1>2 DEF Idle, Fields, AccountInv, Account!TypeOK
<1> QED
  BY <1>2, <1>3, <1>4, <1>5, AccountSettled

\* A call of the page that is no save.
LEMMA AccountCalls ==
  ASSUME AccountInv, NEW s \in Slots, NEW kind \in AccountKinds \ Fields, Account!mutateAsync(s, kind)
  PROVE  AccountInv'
<1>1. ui \in [dialog: Account!Dialogs, draft: Names, registering: BOOLEAN]
  BY DEF AccountInv, Account!TypeOK, Names
<1>2. ui' = [ui EXCEPT !.registering = ui.registering] /\ ui.registering \in BOOLEAN
  BY <1>1 DEF Account!mutateAsync
<1> QED
  BY <1>2, AccountSend DEF Account!mutateAsync, Names

\* A save of the page.
LEMMA AccountSaves ==
  ASSUME AccountInv, NEW s \in Slots, NEW kind \in Fields, ui.draft # None, Account!Send(s, kind, ui.draft),
         UNCHANGED ui, ~Account!isPending(Account!Fields)
  PROVE  AccountInv'
<1>1. ui \in [dialog: Account!Dialogs, draft: Names, registering: BOOLEAN]
  BY DEF AccountInv, Account!TypeOK, Names
<1>2. ui' = [ui EXCEPT !.registering = ui.registering] /\ ui.registering \in BOOLEAN /\ ui.draft \in Texts
  BY <1>1 DEF Names
<1>3. \A t \in Slots : net[t].kind \notin Fields
  BY DEF Account!isPending, Account!Open, Account!Fields, Fields
<1> QED
  BY <1>2, <1>3, AccountNames, AccountSend DEF Names

\* What the page and its dialogs offer.
LEMMA AccountPress == ASSUME AccountInv, NEW s \in Slots, Account!Page(s) PROVE AccountInv'
<1>1. /\ ui.dialog \in Account!Dialogs /\ seen.name \in Names /\ seen.email \in Names
      /\ None \in Names /\ Texts \subseteq Names
      /\ {"none", "name", "email", "password", "device", "signIn", "passkeyName"} \subseteq Account!Dialogs
  BY DEF AccountInv, Account!TypeOK, Account!Profile, Account!Dialogs, Names
<1>2. {"password", "avatar", "link", "unlink", "device", "session", "renamePasskey", "deletePasskey", "register"} \subseteq AccountKinds \ Fields
  BY AccountNames DEF AccountKinds, Fields
<1>3. CASE Account!Type
  BY <1>1, <1>3, AccountDialog DEF Account!Type, Names
<1>4. CASE Account!onOpenChange
  BY <1>1, <1>4, AccountDialog DEF Account!onOpenChange
<1>5. CASE Account!BasicInfo(s)
  BY <1>1, <1>2, <1>5, AccountDialog, AccountCalls
    DEF Account!BasicInfo, Account!handleRemoveAvatar, Account!handleAvatarChange, Account!openNameDialog
<1>6. CASE Account!AccountSettings
  BY <1>1, <1>6, AccountDialog DEF Account!AccountSettings, Account!openEmailDialog, Names
<1>7. CASE Account!AccountLogs(s)
  BY <1>1, <1>2, <1>7, AccountDialog, AccountCalls DEF Account!AccountLogs, Account!handleDeleteSession, Names
<1>8. CASE Account!NameDialog(s) \/ Account!EmailDialog(s)
  BY <1>3, <1>8, AccountSaves
    DEF Account!NameDialog, Account!EmailDialog, Account!handleNameSave, Account!handleEmailSave, Fields
<1>9. CASE Account!PasswordDialog(s) \/ Account!AddDeviceDialog(s) \/ Account!PasskeyNameDialog(s)
  BY <1>2, <1>3, <1>9, AccountCalls
    DEF Account!PasswordDialog, Account!AddDeviceDialog, Account!PasskeyNameDialog, Account!handlePasswordChange,
        Account!handleAddDevice, Account!handleRenamePasskey
<1>10. CASE Account!handleRegisterPasskey(s)
  BY <1>1, <1>2, <1>10, AccountSend DEF Account!handleRegisterPasskey
<1>11. CASE Account!SignInDialog(s)
  BY <1>1, <1>2, <1>10, <1>11, AccountDialog, AccountCalls
    DEF Account!SignInDialog, Account!handleUnlinkGoogle, Account!handleLinkGoogle, Account!handleDeletePasskey
<1> QED
  BY <1>4, <1>5, <1>6, <1>7, <1>8, <1>9, <1>11 DEF Account!Page

\* A step of the page.
LEMMA NextAccount == ASSUME AccountInv, Account!Next PROVE AccountInv'
BY AccountPress, AccountServed, AccountSucceeds, AccountRefreshed, AccountFails DEF Account!Next, Account!Answers

----------------------------------------------------------------------------
(* The settings *)

SettingsTexts == Settings!FieldTexts \cup {None}
SettingsLogos == Settings!Logos \cup {None}
SettingsForm == [site_logo: SettingsLogos, field: SettingsTexts]
Verification == [there: BOOLEAN, path: SettingsTexts, changed: BOOLEAN]
SettingsScreen ==
  [open: BOOLEAN, tab: {"system", "encoding", "form"}, edits: SettingsForm, logoPreview: SettingsLogos,
   ffmpegStatus: Verification]
SettingsSave == [step: {"idle", "sent", "done"}, text: SettingsTexts]
SettingsNet == [saves: [Settings!Visits -> SettingsSave], verify: Verification, readers: SUBSET Settings!Logos]
SettingsTold == [typed: SettingsForm, saved: SettingsTexts]

\* What a save stored is what the server has, as long as it is told of it.
StoredIs(save, value) ==
  save.step = "done" /\ save.text # None => value = Settings!parsed(save.text)

\* A save that was stored is what the server has, until another is.
SettingsInv ==
  /\ db \in Settings!Values /\ seen \in Settings!Values \cup {None}
  /\ ui \in SettingsScreen /\ net \in SettingsNet /\ told \in SettingsTold
  /\ \A v \in Settings!Visits : StoredIs(net.saves[v], db)
  /\ Settings!SavedIsShown

\* What is stored of a text is shown again like it, but for quotes.
LEMMA ShownAsSaved ==
  /\ \A text \in Settings!FieldTexts :
       Settings!parsed(text) \in Settings!Values /\ text \in {Settings!show(Settings!parsed(text)), "quoted 12"}
  /\ \A value \in Settings!Values : Settings!show(value) \in Settings!FieldTexts
BY DEF Settings!FieldTexts, Settings!parsed, Settings!show, Settings!Values

\* What is there at the start or after the page is left.
LEMMA SettingsNothing ==
  /\ Settings!NoVerification \in Verification /\ Settings!Empty \in SettingsForm /\ Settings!Closed \in SettingsScreen
  /\ Settings!NoSave \in SettingsSave /\ Settings!NoSave.step = "idle"
BY DEF Settings!NoVerification, Verification, Settings!Empty, SettingsForm, Settings!Closed, SettingsScreen,
       Settings!NoSave, SettingsSave, SettingsTexts, SettingsLogos

\* At the start nothing is saved.
LEMMA InitSettings == ASSUME Settings!Init PROVE SettingsInv
<1>1. db \in Settings!Values /\ seen \in Settings!Values \cup {None} /\ ui \in SettingsScreen
  BY SettingsNothing DEF Settings!Init
<1>2. net \in SettingsNet /\ \A v \in Settings!Visits : StoredIs(net.saves[v], db)
  BY SettingsNothing DEF Settings!Init, SettingsNet, StoredIs
<1>3. told \in SettingsTold /\ told.saved = None
  BY SettingsNothing DEF Settings!Init, SettingsTold, SettingsTexts
<1> QED
  BY <1>1, <1>2, <1>3 DEF SettingsInv, Settings!SavedIsShown

\* Nothing is saved and nobody is told of a save.
LEMMA SettingsFrame ==
  ASSUME SettingsInv, db' = db, seen' \in Settings!Values \cup {None}, ui' \in SettingsScreen,
         net' \in SettingsNet, net'.saves = net.saves, told' \in SettingsTold, told'.saved = told.saved
  PROVE  SettingsInv'
BY DEF SettingsInv, Settings!SavedIsShown

\* A form that is filled is one.
LEMMA SettingsFill ==
  ASSUME NEW p \in SettingsScreen, NEW value \in Settings!Values \cup {None}, NEW q \in Settings!Fill(p, value)
  PROVE  q \in SettingsScreen
<1>1. CASE q = p
  BY <1>1
<1>2. ASSUME NEW form \in Settings!Filled(value), q = [p EXCEPT !.edits = form, !.logoPreview = form.site_logo]
      PROVE  q \in SettingsScreen
  <2>1. form \in SettingsForm
    <3>1. CASE value = None
      BY <1>2, <3>1, SettingsNothing DEF Settings!Filled
    <3>2. CASE value # None
      <4>1. PICK logo \in Settings!Logos : form = [site_logo |-> logo, field |-> Settings!show(value)]
        BY <1>2, <3>2 DEF Settings!Filled
      <4> QED
        BY <3>2, <4>1, ShownAsSaved DEF SettingsForm, SettingsLogos, SettingsTexts
    <3> QED
      BY <3>1, <3>2
  <2>2. form.site_logo \in SettingsLogos
    BY <2>1 DEF SettingsForm
  <2> QED
    BY <1>2, <2>1, <2>2 DEF SettingsScreen
<1> QED
  BY <1>1, <1>2 DEF Settings!Fill

\* Something is typed or a logo is read.
LEMMA SettingsTyped ==
  ASSUME SettingsInv, NEW p \in SettingsScreen, NEW key, NEW value, Settings!Typed(key, value, p),
         \/ key = "field" /\ value \in Settings!FieldTexts
         \/ key = "site_logo" /\ value \in Settings!Logos,
         net' \in SettingsNet, net'.saves = net.saves
  PROVE  SettingsInv'
<1>1. UNCHANGED <<db, seen>> /\ ui' = Settings!setField(key, value, p)
  BY DEF Settings!Typed
<1>2. ui' \in SettingsScreen
  <2>1. CASE key = "field"
    BY <1>1, <2>1 DEF Settings!setField, SettingsScreen, SettingsForm, SettingsTexts
  <2>2. CASE key = "site_logo"
    BY <1>1, <2>2 DEF Settings!setField, SettingsScreen, SettingsForm, SettingsLogos
  <2> QED
    BY <2>1, <2>2
<1>3. told' \in SettingsTold /\ told'.saved = told.saved
  <2>1. CASE key = "field"
    BY <2>1 DEF SettingsInv, Settings!Typed, SettingsTold, SettingsForm, SettingsTexts
  <2>2. CASE key = "site_logo"
    BY <2>2 DEF SettingsInv, Settings!Typed, SettingsTold, SettingsForm, SettingsLogos
  <2> QED
    BY <2>1, <2>2
<1> QED
  BY <1>1, <1>2, <1>3, SettingsFrame DEF SettingsInv

\* The page opens, is left, or its settings are read.
LEMMA SettingsPages == ASSUME SettingsInv, Settings!Enter \/ Settings!Leave \/ Settings!SettingsRead PROVE SettingsInv'
<1>1. CASE Settings!Enter
  <2>1. [Settings!Closed EXCEPT !.open = TRUE] \in SettingsScreen
    BY SettingsNothing DEF SettingsScreen
  <2>2. ui' \in SettingsScreen /\ UNCHANGED <<db, seen, net>>
    BY <1>1, <2>1, SettingsFill DEF Settings!Enter, SettingsInv
  <2>3. told' \in SettingsTold /\ told'.saved = told.saved
    BY <1>1, SettingsNothing DEF Settings!Enter, SettingsInv, SettingsTold
  <2> QED
    BY <2>2, <2>3, SettingsFrame DEF SettingsInv
<1>2. CASE Settings!Leave
  <2>1. PICK saves : saves =
          IF net.saves["now"] = Settings!NoSave THEN net.saves
          ELSE [net.saves EXCEPT !["now"] = Settings!NoSave, !["before"] = net.saves["now"]]
    OBVIOUS
  <2>2. /\ net' = [saves |-> saves, verify |-> Settings!NoVerification, readers |-> {}]
        /\ ui' = Settings!Closed /\ UNCHANGED <<db, seen, told>>
    BY <1>2, <2>1 DEF Settings!Leave
  <2>3. net.saves \in [Settings!Visits -> SettingsSave] /\ \A v \in Settings!Visits : StoredIs(net.saves[v], db)
    BY DEF SettingsInv, SettingsNet
  <2>4. /\ saves \in [Settings!Visits -> SettingsSave]
        /\ \A v \in Settings!Visits : saves[v] \in {Settings!NoSave, net.saves["now"], net.saves["before"]}
    BY <2>1, <2>3, SettingsNothing DEF Settings!Visits
  <2>5. \A v \in Settings!Visits : StoredIs(saves[v], db)
    BY <2>3, <2>4, SettingsNothing DEF Settings!Visits, StoredIs
  <2>6. net' \in SettingsNet /\ net'.saves = saves
    BY <2>2, <2>4, SettingsNothing DEF SettingsNet
  <2> QED
    BY <2>2, <2>5, <2>6, SettingsNothing DEF SettingsInv, Settings!SavedIsShown
<1>3. CASE Settings!SettingsRead
  <2>1. ui' \in SettingsScreen /\ seen' = db /\ UNCHANGED <<db, net, told>>
    BY <1>3, SettingsFill DEF Settings!SettingsRead, SettingsInv
  <2> QED
    BY <2>1, SettingsFrame DEF SettingsInv
<1> QED
  BY <1>1, <1>2, <1>3

\* The tabs only type and verify.
LEMMA SettingsTabbed == ASSUME SettingsInv, Settings!SettingsTabs PROVE SettingsInv'
<1> USE SettingsNothing
<1>1. /\ ui \in SettingsScreen /\ net \in SettingsNet /\ told \in SettingsTold
      /\ net.saves \in [Settings!Visits -> SettingsSave] /\ net.verify \in Verification /\ net.readers \subseteq Settings!Logos
  BY DEF SettingsInv, SettingsNet
<1>2. CASE Settings!setBoolField
  <2>1. PICK text \in Settings!FieldTexts : Settings!Typed("field", text, ui) /\ UNCHANGED net
    BY <1>2 DEF Settings!setBoolField
  <2> QED
    BY <1>1, <2>1, SettingsTyped
<1>3. CASE Settings!Tab
  <2>1. PICK tab \in {"system", "encoding", "form"} :
          ui' = [ui EXCEPT !.tab = tab, !.ffmpegStatus = Settings!NoVerification]
    BY <1>3 DEF Settings!Tab
  <2>2. ui' \in SettingsScreen
    BY <1>1, <2>1 DEF SettingsScreen
  <2>3. net' \in SettingsNet /\ net'.saves = net.saves
    BY <1>1, <1>3 DEF Settings!Tab, SettingsNet
  <2> QED
    BY <1>1, <1>3, <2>2, <2>3, SettingsFrame DEF Settings!Tab, SettingsInv
<1>4. CASE Settings!ImageDropzone
  <2>1. PICK file \in Settings!Logos : net' = [net EXCEPT !.readers = net.readers \cup {file}] /\ UNCHANGED <<db, seen, ui, told>>
    BY <1>4 DEF Settings!ImageDropzone, Settings!handleLogoFile
  <2>2. net' \in SettingsNet /\ net'.saves = net.saves
    BY <1>1, <2>1 DEF SettingsNet
  <2> QED
    BY <1>1, <2>1, <2>2, SettingsFrame DEF SettingsInv
<1>5. CASE Settings!FFmpegPath
  <2>1. PICK path \in Settings!FieldTexts :
          /\ Settings!Typed("field", path, [ui EXCEPT !.ffmpegStatus = Settings!NoVerification])
          /\ net' = [net EXCEPT !.verify.changed = net.verify.there]
    BY <1>5 DEF Settings!FFmpegPath
  <2>2. [ui EXCEPT !.ffmpegStatus = Settings!NoVerification] \in SettingsScreen
    BY <1>1 DEF SettingsScreen
  <2>3. net' \in SettingsNet /\ net'.saves = net.saves
    BY <1>1, <2>1 DEF SettingsNet, Verification
  <2> QED
    BY <2>1, <2>2, <2>3, SettingsTyped
<1>6. CASE Settings!handleVerify
  <2>1. ui.edits.field \in SettingsTexts
    BY <1>1 DEF SettingsScreen, SettingsForm
  <2>2. [there |-> TRUE, path |-> ui.edits.field, changed |-> FALSE] \in Verification
    BY <2>1 DEF Verification
  <2>3. net' \in SettingsNet /\ net'.saves = net.saves
    BY <1>1, <1>6, <2>2 DEF Settings!handleVerify, SettingsNet
  <2>4. ui' \in SettingsScreen /\ UNCHANGED <<db, seen, told>>
    BY <1>1, <1>6 DEF Settings!handleVerify, SettingsScreen
  <2> QED
    BY <1>1, <2>3, <2>4, SettingsFrame DEF SettingsInv
<1>7. CASE Settings!SystemSettingsTab
  BY <1>2, <1>4, <1>7 DEF Settings!SystemSettingsTab, Settings!CacheSettingsDialog
<1>8. CASE Settings!EncodingSettingsTab
  BY <1>5, <1>6, <1>8 DEF Settings!EncodingSettingsTab
<1>9. CASE Settings!PlayerSettingsTab \/ Settings!NotificationSettingsTab
  BY <1>2, <1>9
    DEF Settings!PlayerSettingsTab, Settings!PlayerConfiguration, Settings!PlaybackConfiguration, Settings!AllControls,
        Settings!PlayerControls, Settings!NotificationSettingsTab, Settings!NotificationCards,
        Settings!NotificationServices, Settings!SMTPDialog, Settings!PushDialog, Settings!TelegramDialog
<1>10. CASE Settings!SecuritySettingsTab \/ Settings!TranscribingSettingsTab \/ Settings!PaymentSettingsTab \/ Settings!ApiSettingsTab
  BY <1>2, <1>10
    DEF Settings!SecuritySettingsTab, Settings!TranscribingSettingsTab, Settings!PaymentSettingsTab, Settings!ApiSettingsTab
<1> QED
  BY <1>3, <1>7, <1>8, <1>9, <1>10 DEF Settings!SettingsTabs

\* Only the saves change.
LEMMA SettingsSaves ==
  ASSUME SettingsInv, NEW saves \in [Settings!Visits -> SettingsSave], net' = [net EXCEPT !.saves = saves],
         UNCHANGED <<seen, ui>>, db' \in Settings!Values, told' \in SettingsTold,
         \A v \in Settings!Visits : StoredIs(saves[v], db'),
         told'.saved \in {None, Settings!show(db'), "quoted 12"}
  PROVE  SettingsInv'
<1>1. net' \in SettingsNet /\ net'.saves = saves
  BY DEF SettingsInv, SettingsNet
<1> QED
  BY <1>1 DEF SettingsInv, Settings!SavedIsShown

\* A save that was done before another is stored has nothing to be told of.
LEMMA SaveNotStored ==
  ASSUME NEW save \in SettingsSave
  PROVE  Settings!NotStored(save) \in SettingsSave /\ \A value : StoredIs(Settings!NotStored(save), value)
<1>1. CASE save.step = "done"
  BY <1>1 DEF Settings!NotStored, SettingsSave, SettingsTexts, StoredIs
<1>2. CASE save.step # "done"
  BY <1>2 DEF Settings!NotStored, StoredIs
<1> QED
  BY <1>1, <1>2

\* One save comes or goes, and nothing is stored.
LEMMA SettingsSaveOf ==
  ASSUME SettingsInv, NEW v \in Settings!Visits, NEW save \in SettingsSave, StoredIs(save, db),
         net' = [net EXCEPT !.saves[v] = save], UNCHANGED <<db, seen, ui>>, told' \in SettingsTold,
         told'.saved \in {None, Settings!show(db), "quoted 12"}
  PROVE  SettingsInv'
<1>1. PICK saves : saves = [net.saves EXCEPT ![v] = save]
  OBVIOUS
<1>2. net.saves \in [Settings!Visits -> SettingsSave] /\ \A u \in Settings!Visits : StoredIs(net.saves[u], db)
      /\ db \in Settings!Values
  BY DEF SettingsInv, SettingsNet
<1>3. saves \in [Settings!Visits -> SettingsSave] /\ net' = [net EXCEPT !.saves = saves]
  BY <1>1, <1>2
<1>4. \A u \in Settings!Visits : StoredIs(saves[u], db)
  BY <1>1, <1>2
<1> QED
  BY <1>2, <1>3, <1>4, SettingsSaves

\* The form is sent, stored and told of, or not.
LEMMA SettingsStored ==
  ASSUME SettingsInv,
         \/ Settings!handleSave \/ Settings!OthersSave
         \/ \E v \in Settings!Visits : Settings!BulkUpdate(v) \/ Settings!Saved(v) \/ Settings!SaveFails(v)
  PROVE  SettingsInv'
<1>1. /\ net \in SettingsNet /\ net.saves \in [Settings!Visits -> SettingsSave] /\ told \in SettingsTold
      /\ told.saved \in {None, Settings!show(db), "quoted 12"} /\ db \in Settings!Values
      /\ \A v \in Settings!Visits : StoredIs(net.saves[v], db)
  BY DEF SettingsInv, SettingsNet, Settings!SavedIsShown
<1>2. [told EXCEPT !.saved = None] \in SettingsTold /\ [told EXCEPT !.saved = None].saved = None
  BY <1>1 DEF SettingsTold, SettingsTexts
<1>3. CASE Settings!handleSave
  <2>1. PICK save : save = [step |-> "sent", text |-> ui.edits.field]
    OBVIOUS
  <2>2. save \in SettingsSave /\ StoredIs(save, db)
    BY <2>1 DEF SettingsInv, SettingsScreen, SettingsForm, SettingsSave, StoredIs
  <2>3. net' = [net EXCEPT !.saves["now"] = save] /\ UNCHANGED <<db, seen, ui, told>>
    BY <1>3, <2>1 DEF Settings!handleSave
  <2> QED
    BY <1>1, <2>2, <2>3, SettingsSaveOf DEF Settings!Visits
<1>4. ASSUME NEW v \in Settings!Visits, Settings!BulkUpdate(v) PROVE SettingsInv'
  <2>1. CASE net' = [net EXCEPT !.saves[v] = [step |-> "done", text |-> None]] /\ UNCHANGED <<db, told>>
    <3>1. PICK save : save = [step |-> "done", text |-> None]
      OBVIOUS
    <3>2. save \in SettingsSave /\ StoredIs(save, db)
      BY <3>1 DEF SettingsSave, SettingsTexts, StoredIs
    <3> QED
      BY <1>1, <1>4, <2>1, <3>1, <3>2, SettingsSaveOf DEF Settings!BulkUpdate
  <2>2. CASE /\ net.saves[v].text # None
             /\ db' = Settings!parsed(net.saves[v].text)
             /\ net' = [net EXCEPT !.saves = [u \in Settings!Visits |->
                         IF u = v THEN [net.saves[v] EXCEPT !.step = "done"]
                         ELSE Settings!NotStored(net.saves[u])]]
             /\ told' = [told EXCEPT !.saved = None]
    <3>1. PICK save, saves :
            /\ save = [net.saves[v] EXCEPT !.step = "done"]
            /\ saves = [u \in Settings!Visits |-> IF u = v THEN save ELSE Settings!NotStored(net.saves[u])]
      OBVIOUS
    <3>2. save \in SettingsSave /\ save.text = net.saves[v].text
      BY <1>1, <3>1 DEF SettingsSave
    <3>3. net.saves[v].text \in Settings!FieldTexts
      BY <1>1, <2>2 DEF SettingsSave, SettingsTexts
    <3>4. db' \in Settings!Values /\ StoredIs(save, db')
      BY <2>2, <3>2, <3>3, ShownAsSaved DEF StoredIs
    <3>5. \A u \in Settings!Visits : Settings!NotStored(net.saves[u]) \in SettingsSave
                                  /\ StoredIs(Settings!NotStored(net.saves[u]), db')
      BY <1>1, SaveNotStored
    <3>6. saves \in [Settings!Visits -> SettingsSave] /\ \A u \in Settings!Visits : StoredIs(saves[u], db')
      BY <3>1, <3>2, <3>4, <3>5
    <3>7. net' = [net EXCEPT !.saves = saves] /\ UNCHANGED <<seen, ui>>
      BY <1>4, <2>2, <3>1 DEF Settings!BulkUpdate
    <3> QED
      BY <1>2, <2>2, <3>4, <3>6, <3>7, SettingsSaves
  <2> QED
    BY <1>4, <2>1, <2>2 DEF Settings!BulkUpdate
<1>5. ASSUME NEW v \in Settings!Visits, Settings!Saved(v) PROVE SettingsInv'
  <2>1. net' = [net EXCEPT !.saves[v] = Settings!NoSave] /\ UNCHANGED <<db, seen, ui>>
    BY <1>5 DEF Settings!Saved
  <2>2. told' \in SettingsTold /\ told'.saved \in {None, Settings!show(db), "quoted 12"}
    <3>1. CASE net.saves[v].text # None
      <4>1. net.saves[v].step = "done" /\ StoredIs(net.saves[v], db)
        BY <1>1, <1>5 DEF Settings!Saved
      <4>2. net.saves[v].text \in Settings!FieldTexts /\ net.saves[v].text \in {Settings!show(db), "quoted 12"}
        <5>1. net.saves[v].text \in Settings!FieldTexts /\ db = Settings!parsed(net.saves[v].text)
          BY <1>1, <3>1, <4>1 DEF SettingsSave, SettingsTexts, StoredIs
        <5> QED
          BY <5>1, ShownAsSaved
      <4>3. told' = [told EXCEPT !.saved = net.saves[v].text]
        BY <1>5, <3>1 DEF Settings!Saved
      <4> QED
        BY <1>1, <4>2, <4>3 DEF SettingsTold, SettingsTexts
    <3>2. CASE net.saves[v].text = None
      BY <1>1, <1>5, <3>2 DEF Settings!Saved
    <3> QED
      BY <3>1, <3>2
  <2>3. StoredIs(Settings!NoSave, db)
    BY SettingsNothing DEF StoredIs
  <2> QED
    BY <1>1, <2>1, <2>2, <2>3, SettingsNothing, SettingsSaveOf
<1>6. ASSUME NEW v \in Settings!Visits, Settings!SaveFails(v) PROVE SettingsInv'
  <2>1. StoredIs(Settings!NoSave, db)
    BY SettingsNothing DEF StoredIs
  <2> QED
    BY <1>1, <1>6, <2>1, SettingsNothing, SettingsSaveOf DEF Settings!SaveFails
<1>7. CASE Settings!OthersSave
  <2>1. PICK text \in Settings!FieldTexts : db' = Settings!parsed(text)
    BY <1>7 DEF Settings!OthersSave
  <2>2. PICK saves : saves = [v \in Settings!Visits |-> Settings!NotStored(net.saves[v])]
    OBVIOUS
  <2>3. saves \in [Settings!Visits -> SettingsSave] /\ \A v \in Settings!Visits : StoredIs(saves[v], db')
    BY <1>1, <2>2, SaveNotStored
  <2>4. net' = [net EXCEPT !.saves = saves] /\ told' = [told EXCEPT !.saved = None] /\ UNCHANGED <<seen, ui>>
    BY <1>7, <2>2 DEF Settings!OthersSave
  <2>5. db' \in Settings!Values
    BY <2>1, ShownAsSaved
  <2> QED
    BY <1>2, <2>3, <2>4, <2>5, SettingsSaves
<1> QED
  BY <1>3, <1>4, <1>5, <1>6, <1>7

\* A step of the page.
LEMMA NextSettings == ASSUME SettingsInv, Settings!Next PROVE SettingsInv'
<1>1. ASSUME NEW file \in Settings!Logos, Settings!LogoRead(file)  PROVE SettingsInv'
  <2>1. [ui EXCEPT !.logoPreview = file] \in SettingsScreen
    BY DEF SettingsInv, SettingsScreen, SettingsLogos
  <2>2. net' \in SettingsNet /\ net'.saves = net.saves
    BY <1>1 DEF Settings!LogoRead, SettingsInv, SettingsNet
  <2> QED
    BY <1>1, <2>1, <2>2, SettingsTyped DEF Settings!LogoRead
<1>2. CASE Settings!Verified
  <2>1. PICK status \in {net.verify, Settings!NoVerification} : ui' = [ui EXCEPT !.ffmpegStatus = status]
    BY <1>2 DEF Settings!Verified
  <2>2. status \in Verification
    BY SettingsNothing DEF SettingsInv, SettingsNet
  <2>3. ui' \in SettingsScreen
    BY <2>1, <2>2 DEF SettingsInv, SettingsScreen
  <2>4. net' \in SettingsNet /\ net'.saves = net.saves
    BY <1>2, SettingsNothing DEF Settings!Verified, SettingsInv, SettingsNet
  <2> QED
    BY <1>2, <2>3, <2>4, SettingsFrame DEF Settings!Verified, SettingsInv
<1> QED
  BY <1>1, <1>2, SettingsPages, SettingsTabbed, SettingsStored DEF Settings!Next

\* What was typed is in the form; the status of a path, there or on its way, is of the
\* path in the form, unless that was changed; both are there on their tab only.
OfPath(v, edits) == v.there /\ ~v.changed => v.path \in {None, edits.field}
EditsInv ==
  /\ Settings!EditsKept
  /\ ~(ui.open /\ ui.tab = "encoding") => ~ui.ffmpegStatus.there /\ ~net.verify.there
  /\ OfPath(ui.ffmpegStatus, ui.edits) /\ OfPath(net.verify, ui.edits)

\* What the page promises follows.
LEMMA EditsMeaning ==
  ASSUME SettingsInv, EditsInv
  PROVE  Settings!TypeOK /\ Settings!EditsKept /\ Settings!StatusIsOfPath /\ Settings!SavedIsShown
<1>1. Settings!TypeOK
  BY DEF SettingsInv, Settings!TypeOK, SettingsScreen, SettingsNet, SettingsTold, SettingsSave, Verification,
         SettingsForm, SettingsTexts, SettingsLogos, Settings!Form
<1>2. Settings!StatusIsOfPath
  BY DEF EditsInv, OfPath, Settings!StatusIsOfPath
<1> QED
  BY <1>1, <1>2 DEF EditsInv, SettingsInv

\* At the start the page is closed.
LEMMA InitEdits == ASSUME Settings!Init PROVE EditsInv
BY DEF Settings!Init, EditsInv, OfPath, Settings!EditsKept, Settings!Closed, Settings!NoVerification

\* The form stays and what was typed.
LEMMA EditsFrame ==
  ASSUME EditsInv, ui'.open = ui.open, ui'.edits = ui.edits, ui'.logoPreview = ui.logoPreview, told'.typed = told.typed,
         ui'.ffmpegStatus \in {ui.ffmpegStatus, net.verify, Settings!NoVerification},
         \/ net'.verify \in {net.verify, Settings!NoVerification}
         \/ net'.verify.path = ui.edits.field /\ ui.open /\ ui.tab = "encoding",
         \/ ui'.tab = ui.tab
         \/ ui'.ffmpegStatus = Settings!NoVerification /\ net'.verify = Settings!NoVerification
  PROVE  EditsInv'
<1>1. Settings!EditsKept'
  BY DEF EditsInv, Settings!EditsKept
<1>2. ~Settings!NoVerification.there
  BY DEF Settings!NoVerification
<1>3. OfPath(ui'.ffmpegStatus, ui'.edits) /\ OfPath(net'.verify, ui'.edits)
  BY <1>2 DEF EditsInv, OfPath
<1>4. ~(ui'.open /\ ui'.tab = "encoding") => ~ui'.ffmpegStatus.there /\ ~net'.verify.there
  BY <1>2 DEF EditsInv
<1> QED
  BY <1>1, <1>3, <1>4 DEF EditsInv

\* The form is filled while it is empty, and nothing was typed then.
LEMMA EditsFilled ==
  ASSUME NEW p \in SettingsScreen, NEW value \in Settings!Values \cup {None}, NEW q \in Settings!Fill(p, value),
         NEW typed \in SettingsForm,
         p.open => \A k \in Settings!Keys : typed[k] \in {None, p.edits[k]},
         p.open => p.logoPreview = p.edits.site_logo
  PROVE  /\ q.open = p.open /\ q.tab = p.tab /\ q.ffmpegStatus = p.ffmpegStatus
         /\ q.open => \A k \in Settings!Keys : typed[k] \in {None, q.edits[k]}
         /\ q.open => q.logoPreview = q.edits.site_logo
         /\ \A v : OfPath(v, p.edits) => OfPath(v, q.edits)
<1>1. CASE q = p
  BY <1>1
<1>2. ASSUME NEW form \in Settings!Filled(value), p.open, p.edits = Settings!Empty,
             q = [p EXCEPT !.edits = form, !.logoPreview = form.site_logo]
      PROVE  /\ q.open = p.open /\ q.tab = p.tab /\ q.ffmpegStatus = p.ffmpegStatus
             /\ q.open => \A k \in Settings!Keys : typed[k] \in {None, q.edits[k]}
             /\ q.open => q.logoPreview = q.edits.site_logo
             /\ \A v : OfPath(v, p.edits) => OfPath(v, q.edits)
  <2>1. /\ q.open = p.open /\ q.tab = p.tab /\ q.ffmpegStatus = p.ffmpegStatus
        /\ q.edits = form /\ q.logoPreview = form.site_logo
    BY <1>2 DEF SettingsScreen
  <2>2. \A k \in Settings!Keys : p.edits[k] = None
    BY <1>2 DEF Settings!Empty, Settings!Keys
  <2>3. p.edits.field = None
    BY <1>2 DEF Settings!Empty
  <2>4. \A k \in Settings!Keys : typed[k] = None
    BY <1>2, <2>2
  <2>5. \A v : OfPath(v, p.edits) => OfPath(v, form)
    BY <2>3 DEF OfPath
  <2> QED
    BY <2>1, <2>4, <2>5
<1> QED
  BY <1>1, <1>2 DEF Settings!Fill

\* The page opens, is left, or its settings are read.
LEMMA EditsPages == ASSUME SettingsInv, EditsInv, Settings!Enter \/ Settings!Leave \/ Settings!SettingsRead PROVE EditsInv'
<1> USE SettingsNothing
<1>1. /\ ui \in SettingsScreen /\ net \in SettingsNet /\ told \in SettingsTold /\ told.typed \in SettingsForm
      /\ db \in Settings!Values /\ seen \in Settings!Values \cup {None}
  BY DEF SettingsInv, SettingsTold
<1>2. /\ Settings!Closed.tab = "system" /\ ~Settings!Closed.ffmpegStatus.there /\ ~Settings!NoVerification.there
      /\ Settings!Closed.edits = Settings!Empty /\ Settings!Closed.logoPreview = None
      /\ Settings!Empty.site_logo = None /\ \A k \in Settings!Keys : Settings!Empty[k] = None
      /\ ~Settings!Closed.open
  BY DEF Settings!Closed, Settings!NoVerification, Settings!Empty, Settings!Keys
<1>3. CASE Settings!Enter
  <2>1. PICK p \in SettingsScreen : p = [Settings!Closed EXCEPT !.open = TRUE]
    BY DEF SettingsScreen
  <2>2. /\ p.open /\ p.tab = "system" /\ ~p.ffmpegStatus.there
        /\ p.edits = Settings!Empty /\ p.logoPreview = p.edits.site_logo
    BY <1>2, <2>1 DEF SettingsScreen
  <2>3. ui' \in Settings!Fill(p, seen) /\ UNCHANGED net /\ told' = [told EXCEPT !.typed = Settings!Empty]
    BY <1>3, <2>1 DEF Settings!Enter
  <2>4. told'.typed = Settings!Empty
    BY <1>1, <2>3 DEF SettingsTold
  <2>5. PICK typed \in SettingsForm : typed = Settings!Empty
    OBVIOUS
  <2>6. ~net.verify.there
    BY <1>3 DEF Settings!Enter, EditsInv
  <2>7. OfPath(p.ffmpegStatus, p.edits) /\ OfPath(net.verify, p.edits)
    BY <2>2, <2>6 DEF OfPath
  <2>8. \A k \in Settings!Keys : typed[k] \in {None, p.edits[k]}
    BY <1>2, <2>5
  <2>9. /\ ui'.open = p.open /\ ui'.tab = p.tab /\ ui'.ffmpegStatus = p.ffmpegStatus
        /\ ui'.open => \A k \in Settings!Keys : typed[k] \in {None, ui'.edits[k]}
        /\ ui'.open => ui'.logoPreview = ui'.edits.site_logo
        /\ OfPath(p.ffmpegStatus, ui'.edits) /\ OfPath(net.verify, ui'.edits)
    <3>1. PICK q \in Settings!Fill(p, seen), value \in Settings!Values \cup {None} : ui' = q /\ value = seen
      BY <1>1, <2>3
    <3>2. /\ q.open = p.open /\ q.tab = p.tab /\ q.ffmpegStatus = p.ffmpegStatus
          /\ q.open => \A k \in Settings!Keys : typed[k] \in {None, q.edits[k]}
          /\ q.open => q.logoPreview = q.edits.site_logo
          /\ \A v : OfPath(v, p.edits) => OfPath(v, q.edits)
      BY <2>2, <2>8, <3>1, EditsFilled
    <3> QED
      BY <2>7, <3>1, <3>2
  <2> QED
    BY <2>2, <2>3, <2>4, <2>5, <2>6, <2>9 DEF EditsInv, Settings!EditsKept
<1>4. CASE Settings!Leave
  <2>1. net'.verify = Settings!NoVerification /\ ui' = Settings!Closed
    BY <1>1, <1>4 DEF Settings!Leave, SettingsNet
  <2> QED
    BY <1>2, <2>1 DEF EditsInv, OfPath, Settings!EditsKept
<1>5. CASE Settings!SettingsRead
  <2>1. ui' \in Settings!Fill(ui, db) /\ UNCHANGED <<net, told>>
    BY <1>5 DEF Settings!SettingsRead
  <2>2. /\ ui'.open = ui.open /\ ui'.tab = ui.tab /\ ui'.ffmpegStatus = ui.ffmpegStatus
        /\ ui'.open => \A k \in Settings!Keys : told.typed[k] \in {None, ui'.edits[k]}
        /\ ui'.open => ui'.logoPreview = ui'.edits.site_logo
        /\ OfPath(ui.ffmpegStatus, ui'.edits) /\ OfPath(net.verify, ui'.edits)
    BY <1>1, <2>1, EditsFilled DEF EditsInv, Settings!EditsKept
  <2> QED
    BY <2>1, <2>2 DEF EditsInv, Settings!EditsKept
<1> QED
  BY <1>3, <1>4, <1>5

\* Something is typed, on a page whose status is s and while v is under way.
LEMMA EditsTyped ==
  ASSUME SettingsInv, EditsInv, NEW p \in SettingsScreen, NEW key \in Settings!Keys, NEW value,
         key = "field" => value \in Settings!FieldTexts, key = "site_logo" => value \in Settings!Logos,
         Settings!Typed(key, value, p), p.open = ui.open, p.edits = ui.edits, p.tab = ui.tab,
         p.logoPreview = IF key = "site_logo" THEN value ELSE ui.logoPreview,
         p.ffmpegStatus \in {ui.ffmpegStatus, Settings!NoVerification},
         key = "field" => ~p.ffmpegStatus.there /\ (net'.verify.there => net'.verify.changed),
         key = "site_logo" => net'.verify = net.verify,
         net'.verify.there => net.verify.there
  PROVE  EditsInv'
<1>1. /\ ui \in SettingsScreen /\ told \in SettingsTold /\ told.typed \in SettingsForm /\ p.edits \in SettingsForm
      /\ ui' = [p EXCEPT !.edits[key] = value] /\ told' = [told EXCEPT !.typed[key] = value]
  BY DEF SettingsInv, SettingsTold, SettingsScreen, Settings!Typed, Settings!setField
<1>2. PICK edits \in SettingsForm, typed \in SettingsForm :
        /\ edits = [p.edits EXCEPT ![key] = value] /\ typed = [told.typed EXCEPT ![key] = value]
  <2>1. CASE key = "field"
    BY <1>1, <2>1 DEF SettingsForm, SettingsTexts
  <2>2. CASE key = "site_logo"
    BY <1>1, <2>2 DEF SettingsForm, SettingsLogos
  <2> QED
    BY <2>1, <2>2 DEF Settings!Keys
<1>3. ui' = [p EXCEPT !.edits = edits] /\ told' = [told EXCEPT !.typed = typed]
  BY <1>1, <1>2
<1>4. /\ ui'.open = p.open /\ ui'.tab = p.tab /\ ui'.ffmpegStatus = p.ffmpegStatus /\ ui'.logoPreview = p.logoPreview
      /\ ui'.edits = edits
  BY <1>3 DEF SettingsScreen
<1>5. told'.typed = typed
  BY <1>1, <1>3 DEF SettingsTold
<1>6. \A k \in Settings!Keys : edits[k] = (IF k = key THEN value ELSE ui.edits[k]) /\ typed[k] = IF k = key THEN value ELSE told.typed[k]
  BY <1>1, <1>2 DEF SettingsForm, Settings!Keys
<1>7. edits.field = (IF key = "field" THEN value ELSE ui.edits.field) /\ edits.site_logo = IF key = "site_logo" THEN value ELSE ui.edits.site_logo
  BY <1>6 DEF Settings!Keys
<1>8. Settings!EditsKept'
  BY <1>4, <1>5, <1>6, <1>7 DEF EditsInv, Settings!EditsKept
<1>9. ~Settings!NoVerification.there
  BY DEF Settings!NoVerification
<1>10. OfPath(ui'.ffmpegStatus, ui'.edits) /\ OfPath(net'.verify, ui'.edits)
  BY <1>4, <1>7, <1>9 DEF EditsInv, OfPath, Settings!Keys
<1>11. ~(ui'.open /\ ui'.tab = "encoding") => ~ui'.ffmpegStatus.there /\ ~net'.verify.there
  BY <1>4, <1>9 DEF EditsInv
<1> QED
  BY <1>8, <1>10, <1>11 DEF EditsInv

\* The tabs type and verify.
LEMMA EditsTabbed == ASSUME SettingsInv, EditsInv, ui.open, Settings!SettingsTabs PROVE EditsInv'
<1> USE SettingsNothing
<1>1. ui \in SettingsScreen /\ net \in SettingsNet /\ net.verify \in Verification
  BY DEF SettingsInv, SettingsNet
<1>2. ~Settings!NoVerification.there
  BY DEF Settings!NoVerification
<1>3. CASE ui.tab # "encoding" /\ Settings!setBoolField
  <2>1. PICK text \in Settings!FieldTexts : Settings!Typed("field", text, ui) /\ UNCHANGED net
    BY <1>3 DEF Settings!setBoolField
  <2>2. ~ui.ffmpegStatus.there /\ ~net.verify.there
    BY <1>3 DEF EditsInv
  <2>3. "field" \in Settings!Keys /\ "field" # "site_logo"
    BY DEF Settings!Keys
  <2> QED
    BY <1>1, <2>1, <2>2, <2>3, EditsTyped
<1>4. CASE Settings!Tab
  <2>1. PICK tab \in {"system", "encoding", "form"} :
          ui' = [ui EXCEPT !.tab = tab, !.ffmpegStatus = Settings!NoVerification]
    BY <1>4 DEF Settings!Tab
  <2>2. /\ ui'.open = ui.open /\ ui'.edits = ui.edits /\ ui'.logoPreview = ui.logoPreview
        /\ ui'.ffmpegStatus = Settings!NoVerification
    BY <1>1, <2>1 DEF SettingsScreen
  <2>3. net'.verify = Settings!NoVerification /\ told' = told
    BY <1>1, <1>4 DEF Settings!Tab, SettingsNet
  <2> QED
    BY <2>2, <2>3, EditsFrame
<1>5. CASE Settings!ImageDropzone
  <2>1. PICK file \in Settings!Logos : net' = [net EXCEPT !.readers = net.readers \cup {file}] /\ UNCHANGED <<ui, told>>
    BY <1>5 DEF Settings!ImageDropzone, Settings!handleLogoFile
  <2>2. net'.verify = net.verify
    BY <1>1, <2>1 DEF SettingsNet
  <2> QED
    BY <2>1, <2>2, EditsFrame
<1>6. CASE Settings!FFmpegPath
  <2>1. PICK path \in Settings!FieldTexts :
          /\ Settings!Typed("field", path, [ui EXCEPT !.ffmpegStatus = Settings!NoVerification])
          /\ net' = [net EXCEPT !.verify.changed = net.verify.there]
    BY <1>6 DEF Settings!FFmpegPath
  <2>2. PICK p \in SettingsScreen : p = [ui EXCEPT !.ffmpegStatus = Settings!NoVerification]
    BY <1>1 DEF SettingsScreen
  <2>3. /\ p.open = ui.open /\ p.edits = ui.edits /\ p.tab = ui.tab /\ p.logoPreview = ui.logoPreview
        /\ p.ffmpegStatus = Settings!NoVerification
    BY <1>1, <2>2 DEF SettingsScreen
  <2>4. net'.verify.there = net.verify.there /\ net'.verify.changed = net.verify.there
    BY <1>1, <2>1 DEF SettingsNet, Verification
  <2>5. "field" \in Settings!Keys /\ "field" # "site_logo"
    BY DEF Settings!Keys
  <2> QED
    BY <1>2, <2>1, <2>2, <2>3, <2>4, <2>5, EditsTyped
<1>7. CASE Settings!handleVerify /\ ui.tab = "encoding"
  <2>1. net'.verify.path = ui.edits.field
    BY <1>1, <1>7 DEF Settings!handleVerify, SettingsNet
  <2>2. /\ ui'.open = ui.open /\ ui'.edits = ui.edits /\ ui'.logoPreview = ui.logoPreview /\ ui'.tab = ui.tab
        /\ ui'.ffmpegStatus = Settings!NoVerification /\ told' = told
    BY <1>1, <1>7 DEF Settings!handleVerify, SettingsScreen
  <2> QED
    BY <1>7, <2>1, <2>2, EditsFrame
<1>8. CASE ui.tab = "system" /\ Settings!SystemSettingsTab
  BY <1>3, <1>5, <1>8 DEF Settings!SystemSettingsTab, Settings!CacheSettingsDialog
<1>9. CASE ui.tab = "encoding" /\ Settings!EncodingSettingsTab
  BY <1>6, <1>7, <1>9 DEF Settings!EncodingSettingsTab
<1>10. CASE ui.tab = "form" /\ (Settings!PlayerSettingsTab \/ Settings!NotificationSettingsTab)
  BY <1>3, <1>10
    DEF Settings!PlayerSettingsTab, Settings!PlayerConfiguration, Settings!PlaybackConfiguration, Settings!AllControls,
        Settings!PlayerControls, Settings!NotificationSettingsTab, Settings!NotificationCards,
        Settings!NotificationServices, Settings!SMTPDialog, Settings!PushDialog, Settings!TelegramDialog
<1>11. CASE ui.tab = "form" /\ (Settings!SecuritySettingsTab \/ Settings!TranscribingSettingsTab \/ Settings!PaymentSettingsTab \/ Settings!ApiSettingsTab)
  BY <1>3, <1>11
    DEF Settings!SecuritySettingsTab, Settings!TranscribingSettingsTab, Settings!PaymentSettingsTab, Settings!ApiSettingsTab
<1> QED
  BY <1>4, <1>8, <1>9, <1>10, <1>11 DEF Settings!SettingsTabs

\* A step of the page.
LEMMA NextEdits == ASSUME SettingsInv, EditsInv, Settings!Next PROVE EditsInv'
<1> USE SettingsNothing
<1>1. ui \in SettingsScreen /\ net \in SettingsNet /\ told \in SettingsTold
  BY DEF SettingsInv
<1>2. ASSUME NEW file \in Settings!Logos, Settings!LogoRead(file)  PROVE EditsInv'
  <2>1. PICK p \in SettingsScreen : p = [ui EXCEPT !.logoPreview = file]
    BY <1>1 DEF SettingsScreen, SettingsLogos
  <2>2. /\ p.open = ui.open /\ p.edits = ui.edits /\ p.tab = ui.tab /\ p.logoPreview = file
        /\ p.ffmpegStatus = ui.ffmpegStatus
    BY <1>1, <2>1 DEF SettingsScreen
  <2>3. Settings!Typed("site_logo", file, p) /\ net'.verify = net.verify
    BY <1>1, <1>2, <2>1 DEF Settings!LogoRead, SettingsNet
  <2>4. "site_logo" \in Settings!Keys /\ "field" # "site_logo"
    BY DEF Settings!Keys
  <2> QED
    BY <2>2, <2>3, <2>4, EditsTyped
<1>3. CASE Settings!Verified
  <2>1. PICK status \in {net.verify, Settings!NoVerification} : ui' = [ui EXCEPT !.ffmpegStatus = status]
    BY <1>3 DEF Settings!Verified
  <2>2. /\ ui'.open = ui.open /\ ui'.edits = ui.edits /\ ui'.logoPreview = ui.logoPreview /\ ui'.tab = ui.tab
        /\ ui'.ffmpegStatus = status
    BY <1>1, <2>1 DEF SettingsScreen
  <2>3. net'.verify = Settings!NoVerification /\ told' = told
    BY <1>1, <1>3 DEF Settings!Verified, SettingsNet
  <2> QED
    BY <2>1, <2>2, <2>3, EditsFrame
<1>4. CASE Settings!handleSave \/ (\E v \in Settings!Visits : Settings!BulkUpdate(v) \/ Settings!Saved(v) \/ Settings!SaveFails(v))
           \/ Settings!OthersSave
  <2>1. ui' = ui
    BY <1>4 DEF Settings!handleSave, Settings!BulkUpdate, Settings!Saved, Settings!SaveFails, Settings!OthersSave
  <2>2. \E saves : net' = [net EXCEPT !.saves = saves]
    BY <1>1, <1>4
      DEF Settings!handleSave, Settings!BulkUpdate, Settings!Saved, Settings!SaveFails, Settings!OthersSave, SettingsNet
  <2>3. net'.verify = net.verify
    BY <1>1, <2>2 DEF SettingsNet
  <2>4. told'.typed = told.typed
    BY <1>1, <1>4
      DEF Settings!handleSave, Settings!BulkUpdate, Settings!Saved, Settings!SaveFails, Settings!OthersSave, SettingsTold
  <2> QED
    BY <2>1, <2>3, <2>4, EditsFrame
<1> QED
  BY <1>2, <1>3, <1>4, EditsPages, EditsTabbed DEF Settings!Next

----------------------------------------------------------------------------
(* The pages that links in mails lead to *)

Steps == {"idle", "sent", "ok", "refused"}
Requests == Slots \cup {"verify", "timer"}
PasswordScreen ==
  [route: {"verify-email", "change-password", "signin"}, verifyingToken: BOOLEAN, isValidToken: BOOLEAN,
   error: BOOLEAN, success: BOOLEAN]

\* The form waits for the change under way.
OneChange(n) == \A s, t \in Slots : n[s] # "idle" /\ n[t] # "idle" => s = t
NoChange(n) == \A s \in Slots : n[s] = "idle"

\* A change that is reported done was carried out, was the only one, and no form is
\* shown after it; the verification of an address is asked for once.
PasswordInv ==
  /\ db \in Nat /\ told \in {0, 1} /\ ui \in PasswordScreen /\ net \in [Requests -> Steps]
  /\ OneChange(net)
  /\ \A s \in Slots : net[s] = "ok" => db >= 1
  /\ told = 1 => NoChange(net) /\ db >= 1
  /\ ui.route = "change-password" /\ told = 1 => ui.success
  /\ ui.route = "verify-email" => NoChange(net)
  /\ ui.route = "verify-email" /\ net["verify"] # "idle" => told = 0
  /\ ui.route = "verify-email" /\ net["verify"] = "ok" => db >= 1
  /\ net["timer"] = "sent" => told = 1
  /\ ui.route = "signin" /\ ~ui.error => told = 1

\* The names of the requests differ.
LEMMA RequestNames ==
  /\ "verify" \in Requests /\ "timer" \in Requests /\ Slots \subseteq Requests
  /\ "verify" \notin Slots /\ "timer" \notin Slots
BY PagesAssumption DEF Requests

\* At the start at most the token is asked about.
LEMMA InitPassword == ASSUME Password!Init PROVE PasswordInv
<1>1. PICK p \in {"verify-email", "change-password"}, token \in {None, "token"} :
        /\ ui = Password!Opened(p, token)
        /\ net = [x \in Requests |-> IF x = "verify" /\ token # None THEN "sent" ELSE "idle"]
  BY DEF Password!Init, Password!Pages, Requests
<1>2. ui \in PasswordScreen /\ ui.route = p
  BY <1>1 DEF Password!Opened, PasswordScreen
<1>3. net \in [Requests -> Steps]
  BY <1>1 DEF Steps
<1>4. net["timer"] = "idle" /\ net["verify"] # "ok" /\ \A s \in Slots : net[s] = "idle"
  BY <1>1, RequestNames
<1>5. db = 0 /\ told = 0
  BY DEF Password!Init
<1> QED
  BY <1>1, <1>2, <1>3, <1>4, <1>5 DEF PasswordInv, OneChange, NoChange

\* Only how far a request got changes.
LEMMA PasswordServer ==
  ASSUME PasswordInv, NEW x \in Slots \cup {"verify"}, Password!Served(x) \/ Password!Lost(x)
  PROVE  PasswordInv'
<1>1. x \in Requests /\ x # "timer"
  BY RequestNames
<1>2. PICK step \in Steps : net' = [net EXCEPT ![x] = step]
  BY DEF Password!Served, Password!Lost, Steps
<1>3. net' \in [Requests -> Steps] /\ net'[x] = step /\ \A y \in Requests : y # x => net'[y] = net[y]
  BY <1>1, <1>2 DEF PasswordInv
<1>4. net[x] # "idle" /\ UNCHANGED <<ui, told>> /\ db' \in {db, db + 1} /\ db \in Nat
  BY DEF Password!Served, Password!Lost, PasswordInv
<1>5. \A y \in Requests : net'[y] # "idle" => net[y] # "idle"
  BY <1>3, <1>4
<1>6. net'[x] = "ok" /\ (x \in Slots \/ ui.route = "verify-email") => db' >= 1
  <2>1. CASE Password!Served(x)
    BY <1>1, <1>3, <1>4, <2>1 DEF Password!Served, PasswordInv
  <2>2. CASE Password!Lost(x)
    BY <1>1, <1>3, <2>2 DEF Password!Lost, PasswordInv
  <2> QED
    BY <2>1, <2>2
<1>7. db' \in Nat /\ (db >= 1 => db' >= 1)
  BY <1>4
<1>8. OneChange(net') /\ (NoChange(net) => NoChange(net'))
  BY <1>5, RequestNames DEF PasswordInv, OneChange, NoChange
<1>9. \A s \in Slots : net'[s] = "ok" => db' >= 1
  BY <1>3, <1>6, <1>7, RequestNames DEF PasswordInv
<1>10. ui.route = "verify-email" /\ net'["verify"] # "idle" => told = 0
  BY <1>5, RequestNames DEF PasswordInv
<1>11. ui.route = "verify-email" /\ net'["verify"] = "ok" => db' >= 1
  BY <1>3, <1>6, <1>7, RequestNames DEF PasswordInv
<1>12. net'["timer"] = net["timer"]
  BY <1>1, <1>3, RequestNames
<1> QED
  BY <1>3, <1>4, <1>7, <1>8, <1>9, <1>10, <1>11, <1>12 DEF PasswordInv

\* The answer about the address or the token.
LEMMA PasswordVerifies == ASSUME PasswordInv, Password!verify \/ Password!verifyToken PROVE PasswordInv'
<1>1. CASE Password!verify
  <2>1. ui.route = "verify-email" /\ NoChange(net) /\ told = 0 /\ (net["verify"] = "ok" => db >= 1)
    BY <1>1 DEF Password!verify, PasswordInv
  <2>2. PICK ok \in BOOLEAN : ok = (net["verify"] = "ok")
    OBVIOUS
  <2>3. ui' = [ui EXCEPT !.verifyingToken = FALSE, !.success = ok, !.error = ~ok]
    BY <1>1, <2>2 DEF Password!verify
  <2>4. ui' \in PasswordScreen /\ ui'.route = "verify-email"
    BY <2>1, <2>3 DEF PasswordInv, PasswordScreen
  <2>5. PICK timer \in {"sent", net["timer"]} :
          /\ net' = [net EXCEPT !["verify"] = "idle", !["timer"] = timer]
          /\ timer = IF ok THEN "sent" ELSE net["timer"]
    BY <1>1, <2>2 DEF Password!verify
  <2>6. timer \in Steps
    BY RequestNames DEF PasswordInv, Steps
  <2>7. /\ net' \in [Requests -> Steps] /\ net'["verify"] = "idle" /\ net'["timer"] = timer
        /\ \A s \in Slots : net'[s] = net[s]
    <3>1. "idle" \in Steps /\ net \in [Requests -> Steps]
      BY DEF PasswordInv, Steps
    <3>2. PICK n \in [Requests -> Steps] : n = [net EXCEPT !["verify"] = "idle"]
      BY <3>1
    <3>3. net' = [n EXCEPT !["timer"] = timer]
      BY <2>5, <3>2
    <3>4. n["verify"] = "idle" /\ \A s \in Slots : n[s] = net[s]
      BY <3>1, <3>2, RequestNames
    <3> QED
      BY <2>6, <3>2, <3>3, <3>4, RequestNames
  <2>8. told' = (IF ok THEN 1 ELSE 0) /\ db' = db
    <3>1. told' = (IF net["verify"] = "ok" THEN told + 1 ELSE told) /\ db' = db
      BY <1>1 DEF Password!verify
    <3>2. CASE net["verify"] = "ok"
      <4>1. told' = 1
        BY <2>1, <3>1, <3>2
      <4>2. ok
        BY <2>2, <3>2
      <4> QED
        BY <3>1, <4>1, <4>2
    <3>3. CASE net["verify"] # "ok"
      <4>1. told' = 0
        BY <2>1, <3>1, <3>3
      <4>2. ~ok
        BY <2>2, <3>3
      <4> QED
        BY <3>1, <4>1, <4>2
    <3> QED
      BY <3>2, <3>3
  <2>9. NoChange(net') /\ OneChange(net')
    BY <2>1, <2>7 DEF NoChange, OneChange
  <2>10. net'["timer"] = "sent" => told' = 1
    BY <2>1, <2>5, <2>7, <2>8 DEF PasswordInv
  <2>11. db' \in Nat /\ told' \in {0, 1} /\ (told' = 1 => db' >= 1)
    BY <2>1, <2>2, <2>8 DEF PasswordInv
  <2>12. \A s \in Slots : net'[s] # "ok"
    BY <2>9 DEF NoChange
  <2> QED
    BY <2>4, <2>7, <2>9, <2>10, <2>11, <2>12 DEF PasswordInv
<1>2. CASE Password!verifyToken
  <2>1. PICK ok \in BOOLEAN : ui' = [ui EXCEPT !.verifyingToken = FALSE, !.isValidToken = ok, !.error = ~ok]
    BY <1>2 DEF Password!verifyToken
  <2>2. ui' \in PasswordScreen /\ ui'.route = "change-password" /\ ui'.success = ui.success /\ ui.route = "change-password"
    BY <1>2, <2>1 DEF Password!verifyToken, PasswordInv, PasswordScreen
  <2>3. net' = [net EXCEPT !["verify"] = "idle"] /\ UNCHANGED <<db, told>>
    BY <1>2 DEF Password!verifyToken
  <2>4. net' \in [Requests -> Steps] /\ net'["timer"] = net["timer"] /\ \A s \in Slots : net'[s] = net[s]
    BY <2>3, RequestNames DEF PasswordInv, Steps
  <2>5. OneChange(net') /\ (NoChange(net) => NoChange(net'))
    BY <2>4 DEF PasswordInv, OneChange, NoChange
  <2> QED
    BY <2>2, <2>3, <2>4, <2>5 DEF PasswordInv
<1> QED
  BY <1>1, <1>2

\* The form is sent: none is after a change that was reported done.
LEMMA PasswordSubmits == ASSUME PasswordInv, NEW s \in Slots, Password!onSubmit(s) PROVE PasswordInv'
<1>1. /\ ui.route = "change-password" /\ ~ui.success /\ UNCHANGED <<db, told>> /\ NoChange(net)
      /\ ui' = [ui EXCEPT !.error = FALSE, !.success = FALSE] /\ net' = [net EXCEPT ![s] = "sent"]
  BY DEF Password!onSubmit, Password!ChangePasswordForm, Password!FormShown, Password!isProcessing, NoChange
<1>2. told = 0
  BY <1>1 DEF PasswordInv
<1>3. ui' \in PasswordScreen /\ ui'.route = "change-password"
  BY <1>1 DEF PasswordInv, PasswordScreen
<1>4. /\ net' \in [Requests -> Steps] /\ net'["timer"] = net["timer"]
      /\ \A t \in Slots : net'[t] = IF t = s THEN "sent" ELSE "idle"
  BY <1>1, RequestNames DEF PasswordInv, Steps, NoChange
<1>5. OneChange(net') /\ \A t \in Slots : net'[t] # "ok"
  BY <1>4 DEF OneChange
<1> QED
  BY <1>1, <1>2, <1>3, <1>4, <1>5 DEF PasswordInv

\* The answer to a change.
LEMMA PasswordChanged == ASSUME PasswordInv, NEW s \in Slots, Password!Changed(s) PROVE PasswordInv'
<1>1. net[s] \in {"ok", "refused"} /\ db' = db /\ (net[s] = "ok" => db >= 1)
  BY DEF Password!Changed, PasswordInv
<1>2. told = 0 /\ ui.route # "verify-email" /\ \A t \in Slots : t # s => net[t] = "idle"
  BY <1>1 DEF PasswordInv, NoChange, OneChange
<1>3. PICK ok \in BOOLEAN : ok = (net[s] = "ok")
  OBVIOUS
<1>4. /\ ui' = IF ui.route # "signin" THEN [ui EXCEPT !.success = ok, !.error = ~ok] ELSE ui
      /\ net' = [Password!Redirects(ok) EXCEPT ![s] = "idle"]
      /\ told' = IF ok THEN told + 1 ELSE told
  BY <1>3 DEF Password!Changed, Password!Here
<1>5. /\ ui' \in PasswordScreen /\ ui'.route = ui.route
      /\ ui.route = "change-password" => ui'.success = ok
      /\ ui.route = "signin" => ui' = ui
  BY <1>4 DEF PasswordInv, PasswordScreen
<1>6. told' = IF ok THEN 1 ELSE 0
  BY <1>2, <1>4
<1>7. PICK n \in [Requests -> Steps] :
        /\ net' = [n EXCEPT ![s] = "idle"] /\ (n["timer"] = "sent" => ok \/ net["timer"] = "sent")
        /\ \A t \in Slots : n[t] = net[t]
  <2>1. CASE ok
    <3>1. net' = [[net EXCEPT !["timer"] = "sent"] EXCEPT ![s] = "idle"]
      BY <1>4, <2>1 DEF Password!Redirects
    <3>2. [net EXCEPT !["timer"] = "sent"] \in [Requests -> Steps]
      BY DEF PasswordInv, Steps
    <3>3. \A t \in Slots : [net EXCEPT !["timer"] = "sent"][t] = net[t]
      BY RequestNames DEF PasswordInv
    <3> QED
      BY <2>1, <3>1, <3>2, <3>3
  <2>2. CASE ~ok
    BY <1>4, <2>2 DEF Password!Redirects, PasswordInv
  <2> QED
    BY <2>1, <2>2
<1>8. /\ net' \in [Requests -> Steps] /\ net'["timer"] = n["timer"]
      /\ \A t \in Slots : net'[t] = "idle"
  BY <1>2, <1>7, RequestNames DEF Steps
<1>9. OneChange(net') /\ NoChange(net')
  BY <1>8 DEF OneChange, NoChange
<1>10. net'["timer"] = "sent" => told' = 1
  BY <1>2, <1>6, <1>7, <1>8 DEF PasswordInv
<1>11. \A t \in Slots : net'[t] # "ok"
  BY <1>8
<1>12. db' \in Nat /\ told' \in {0, 1} /\ (told' = 1 => db' >= 1)
  BY <1>1, <1>3, <1>6 DEF PasswordInv
<1>13. ui'.route = "signin" /\ ~ui'.error => told' = 1
  BY <1>2, <1>5 DEF PasswordInv
<1>14. ui'.route = "change-password" /\ told' = 1 => ui'.success
  BY <1>5, <1>6
<1> QED
  BY <1>2, <1>5, <1>8, <1>9, <1>10, <1>11, <1>12, <1>13, <1>14 DEF PasswordInv

\* To the sign-in page.
LEMMA PasswordLeaves == ASSUME PasswordInv, Password!Push \/ Password!GoBackToLogin PROVE PasswordInv'
<1>1. ui' = [ui EXCEPT !.route = "signin"] /\ UNCHANGED <<db, told>>
  BY DEF Password!Push, Password!GoBackToLogin
<1>2. ui' \in PasswordScreen /\ ui'.route = "signin" /\ ui'.error = ui.error
  BY <1>1 DEF PasswordInv, PasswordScreen
<1>3. /\ net' \in [Requests -> Steps] /\ (net'["timer"] = "sent" => net["timer"] = "sent")
      /\ \A s \in Slots : net'[s] = net[s]
  <2>1. CASE net' = [net EXCEPT !["timer"] = "idle"]
    BY <2>1, RequestNames DEF PasswordInv, Steps
  <2>2. CASE net' = net
    BY <2>2 DEF PasswordInv
  <2> QED
    BY <2>1, <2>2 DEF Password!Push, Password!GoBackToLogin
<1>4. ui.error \/ told = 1
  BY DEF Password!Push, Password!GoBackToLogin, PasswordInv
<1>5. OneChange(net') /\ (NoChange(net) => NoChange(net'))
  BY <1>3 DEF PasswordInv, OneChange, NoChange
<1> QED
  BY <1>1, <1>2, <1>3, <1>4, <1>5 DEF PasswordInv

\* A step of the pages.
LEMMA NextPassword == ASSUME PasswordInv, Password!Next PROVE PasswordInv'
BY PasswordServer, PasswordVerifies, PasswordSubmits, PasswordChanged, PasswordLeaves DEF Password!Next

----------------------------------------------------------------------------
(* The options of the captions *)

CaptionChoices == [OptionKeys -> Choices]
CaptionLine == [there: BOOLEAN, styled: BOOLEAN, style: CaptionChoices]
CaptionPages == {"player", "captions", "main"} \cup OptionKeys

\* The ref and the state are what was chosen; what is on the screen has its style unless
\* an observer or the effect is due.
OptionsInv ==
  /\ db \in [ref: CaptionChoices, state: CaptionChoices, stored: CaptionChoices]
  /\ ui \in [there: BOOLEAN, page: CaptionPages, shows: CaptionChoices, link: BOOLEAN]
  /\ seen \in [Lines -> CaptionLine]
  /\ net \in [observers: BOOLEAN, effect: BOOLEAN] /\ told \in CaptionChoices
  /\ Options!ChoicesKept
  /\ net.observers \/ net.effect \/ \A l \in Lines : seen[l] = Options!Styled(seen[l], told)

\* What the options promise follows.
LEMMA OptionsMeaning == ASSUME OptionsInv PROVE Options!TypeOK /\ Options!ChoicesKept /\ Options!CaptionsStyled
<1>1. Options!TypeOK
  BY DEF OptionsInv, Options!TypeOK, Options!Options, Options!Pages, CaptionChoices, CaptionLine, CaptionPages
<1>2. Options!CaptionsStyled
  BY DEF OptionsInv, Options!CaptionsStyled
<1> QED
  BY <1>1, <1>2 DEF OptionsInv

\* The defaults are options.
LEMMA DefaultOptions ==
  /\ Options!DEFAULT_CAPTION_OPTS \in CaptionChoices
  /\ Options!NoLine \in CaptionLine /\ Options!Raw \in CaptionLine /\ ~Options!NoLine.there
BY PagesAssumption DEF Options!DEFAULT_CAPTION_OPTS, CaptionChoices, Options!NoLine, Options!Raw, CaptionLine

\* A caption that is styled is one, and styling it again changes nothing.
LEMMA StyledLine ==
  ASSUME NEW line \in CaptionLine, NEW o \in CaptionChoices
  PROVE  /\ Options!Styled(line, o) \in CaptionLine
         /\ Options!Styled(Options!Styled(line, o), o) = Options!Styled(line, o)
<1>1. CASE line.there
  <2>1. PICK styled \in CaptionLine : styled = [there |-> TRUE, styled |-> TRUE, style |-> o]
    BY DEF CaptionLine
  <2>2. Options!Styled(line, o) = styled /\ Options!Styled(styled, o) = styled
    BY <1>1, <2>1 DEF Options!Styled
  <2> QED
    BY <2>2
<1>2. CASE ~line.there
  BY <1>2 DEF Options!Styled
<1> QED
  BY <1>1, <1>2

\* At the start the options are those that were stored.
LEMMA InitOptions == ASSUME Options!Init PROVE OptionsInv
<1>1. PICK o \in CaptionChoices : db = Options!loadCaptionOptions(o) /\ ui = Options!doInject(o)
  BY DEF Options!Init, Options!Options, CaptionChoices
<1>2. db \in [ref: CaptionChoices, state: CaptionChoices, stored: CaptionChoices] /\ db.ref = o /\ db.state = o
  BY <1>1 DEF Options!loadCaptionOptions
<1>3. ui \in [there: BOOLEAN, page: CaptionPages, shows: CaptionChoices, link: BOOLEAN] /\ ui.shows = o
  BY <1>1 DEF Options!doInject, CaptionPages
<1>4. seen \in [Lines -> CaptionLine]
  BY DefaultOptions DEF Options!Init
<1>5. told = o /\ net.effect /\ net \in [observers: BOOLEAN, effect: BOOLEAN]
  BY <1>2 DEF Options!Init
<1>6. \A l \in Lines : seen[l] = Options!Styled(seen[l], told)
  BY DefaultOptions DEF Options!Init, Options!Styled
<1> QED
  BY <1>2, <1>3, <1>4, <1>5, <1>6 DEF OptionsInv, Options!ChoicesKept

\* Only the page on display changes; what it shows is what is chosen.
LEMMA OptionsShow ==
  ASSUME OptionsInv, NEW p \in CaptionPages, NEW o \in CaptionChoices, NEW there \in BOOLEAN, NEW link \in BOOLEAN,
         ui' = [there |-> there, page |-> p, shows |-> o, link |-> link],
         p \in OptionKeys \cup {"main"} => o = told, UNCHANGED <<db, seen, net, told>>
  PROVE  OptionsInv'
BY DEF OptionsInv, Options!ChoicesKept

\* What is chosen is chosen in the ref, the state and the page on display.
LEMMA OptionsPress == ASSUME OptionsInv, Options!Press PROVE OptionsInv'
<1>1. /\ ui \in [there: BOOLEAN, page: CaptionPages, shows: CaptionChoices, link: BOOLEAN]
      /\ db \in [ref: CaptionChoices, state: CaptionChoices, stored: CaptionChoices] /\ db.ref = told
      /\ net \in [observers: BOOLEAN, effect: BOOLEAN] /\ told \in CaptionChoices
  BY DEF OptionsInv, Options!ChoicesKept
<1>2. ASSUME NEW next \in CaptionChoices, Options!handleCaptionChange(next), ui' = [ui EXCEPT !.shows = next],
             told' = next, UNCHANGED seen
      PROVE  OptionsInv'
  <2>1. PICK stored \in CaptionChoices : db' = [ref |-> next, state |-> next, stored |-> stored]
    <3>1. PICK kept \in BOOLEAN : db' = [ref |-> next, state |-> next, stored |-> IF kept THEN next ELSE db.stored]
      BY <1>2 DEF Options!handleCaptionChange
    <3> QED
      BY <1>1, <3>1
  <2>2. /\ db' \in [ref: CaptionChoices, state: CaptionChoices, stored: CaptionChoices]
        /\ db'.ref = next /\ db'.state = next
    BY <2>1
  <2>3. ui' \in [there: BOOLEAN, page: CaptionPages, shows: CaptionChoices, link: BOOLEAN] /\ ui'.shows = next
    BY <1>1, <1>2
  <2>4. net' \in [observers: BOOLEAN, effect: BOOLEAN] /\ net'.effect
    BY <1>1, <1>2 DEF Options!handleCaptionChange
  <2> QED
    BY <1>2, <2>2, <2>3, <2>4 DEF OptionsInv, Options!ChoicesKept
<1>3. ASSUME ui.page \in OptionKeys, NEW choice \in Choices, Options!Choose(choice), UNCHANGED seen
      PROVE  OptionsInv'
  <2>1. PICK next \in CaptionChoices : next = [told EXCEPT ![ui.page] = choice]
    BY <1>1 DEF CaptionChoices
  <2>2. Options!handleCaptionChange(next) /\ told' = next
    BY <1>1, <1>3, <2>1 DEF Options!Choose
  <2>3. db'.ref = next
    BY <2>2 DEF Options!handleCaptionChange
  <2>4. ui' = [ui EXCEPT !.page = ui.page, !.shows = next]
    BY <1>3, <2>3 DEF Options!Choose, Options!renderDetailPage
  <2>5. ui' = [ui EXCEPT !.shows = next]
    BY <1>1, <2>4
  <2> QED
    BY <1>2, <1>3, <2>2, <2>5
<1>4. ASSUME Options!Reset, UNCHANGED seen
      PROVE  OptionsInv'
  <2>1. PICK next \in CaptionChoices : next = Options!DEFAULT_CAPTION_OPTS
    BY DefaultOptions
  <2>2. Options!handleCaptionChange(next) /\ told' = next
    BY <1>4, <2>1 DEF Options!Reset
  <2>3. db'.ref = next
    BY <2>2 DEF Options!handleCaptionChange
  <2>4. ui' = [ui EXCEPT !.shows = next]
    BY <1>4, <2>3 DEF Options!Reset
  <2> QED
    BY <1>2, <1>4, <2>2, <2>4
<1> QED
  BY <1>3, <1>4 DEF Options!Press

\* The captions are styled, by the observers or by the effect.
LEMMA OptionsStyle == ASSUME OptionsInv, Options!Observed \/ Options!Effect PROVE OptionsInv'
<1>1. /\ ui \in [there: BOOLEAN, page: CaptionPages, shows: CaptionChoices, link: BOOLEAN]
      /\ seen \in [Lines -> CaptionLine] /\ db.ref = told /\ told \in CaptionChoices
  BY DEF OptionsInv, Options!ChoicesKept
<1>2. seen' = [l \in Lines |-> Options!Styled(seen[l], told)]
  BY <1>1 DEF Options!Observed, Options!Effect, Options!applyStylesToTextContainer
<1>3. seen' \in [Lines -> CaptionLine] /\ \A l \in Lines : seen'[l] = Options!Styled(seen'[l], told)
  BY <1>1, <1>2, StyledLine
<1>4. ui' = ui \/ ui' = [ui EXCEPT !.link = ui.there]
  BY DEF Options!Observed, Options!Effect, Options!ensureOptionsLink
<1>5. /\ ui' \in [there: BOOLEAN, page: CaptionPages, shows: CaptionChoices, link: BOOLEAN]
      /\ ui'.page = ui.page /\ ui'.shows = ui.shows
  BY <1>1, <1>4
<1>6. UNCHANGED <<db, told>> /\ net' \in [observers: BOOLEAN, effect: BOOLEAN]
  BY DEF Options!Observed, Options!Effect, OptionsInv
<1> QED
  BY <1>3, <1>5, <1>6 DEF OptionsInv, Options!ChoicesKept

\* A step of the menu, its captions or its effect.
LEMMA NextOptions == ASSUME OptionsInv, Options!Next PROVE OptionsInv'
<1>1. /\ ui \in [there: BOOLEAN, page: CaptionPages, shows: CaptionChoices, link: BOOLEAN]
      /\ net \in [observers: BOOLEAN, effect: BOOLEAN] /\ db.ref = told /\ told \in CaptionChoices
      /\ ui.page \in OptionKeys \cup {"main"} => ui.shows = told
  BY DEF OptionsInv, Options!ChoicesKept
<1>2. \A p \in {"player", "captions", "main"} : p \in CaptionPages /\ p \notin OptionKeys
  BY PagesAssumption DEF CaptionPages
<1>3. CASE Options!OpenCaptions
  <2>1. PICK p \in {"player", "captions"} : ui' = [ui EXCEPT !.page = p]
    BY <1>3 DEF Options!OpenCaptions
  <2>2. ui' = [there |-> ui.there, page |-> p, shows |-> ui.shows, link |-> ui.link]
    BY <1>1, <2>1
  <2>3. UNCHANGED <<db, seen, net, told>> /\ p \in CaptionPages /\ p \notin OptionKeys \cup {"main"}
    BY <1>2, <1>3 DEF Options!OpenCaptions
  <2> QED
    BY <1>1, <2>2, <2>3, OptionsShow
<1>4. CASE Options!Rebuilt
  <2>1. ui' \in [there: BOOLEAN, page: CaptionPages, shows: CaptionChoices, link: BOOLEAN] /\ ui'.page = ui.page /\ ui'.shows = ui.shows
    BY <1>1, <1>4 DEF Options!Rebuilt
  <2>2. net' \in [observers: BOOLEAN, effect: BOOLEAN] /\ net'.observers /\ UNCHANGED <<db, seen, told>>
    BY <1>1, <1>4 DEF Options!Rebuilt
  <2> QED
    BY <2>1, <2>2 DEF OptionsInv, Options!ChoicesKept
<1>5. CASE Options!Navigate
  <2>1. UNCHANGED <<db, seen, net, told>>
    BY <1>5 DEF Options!Navigate
  <2>2. PICK p \in CaptionPages, o \in {told, ui.shows} :
          ui' = [ui EXCEPT !.page = p, !.shows = o] /\ (p \in OptionKeys \cup {"main"} => o = told)
    <3>1. CASE ui' = Options!showMainPage
      BY <1>1, <1>2, <3>1 DEF Options!showMainPage
    <3>2. ASSUME NEW k \in OptionKeys, ui' = Options!renderDetailPage(k, db.ref)
          PROVE  \E p \in CaptionPages, o \in {told, ui.shows} :
                   ui' = [ui EXCEPT !.page = p, !.shows = o] /\ (p \in OptionKeys \cup {"main"} => o = told)
      BY <1>1, <3>2 DEF Options!renderDetailPage, CaptionPages
    <3>3. CASE ui' = Options!goBackToCaptions
      <4>1. ui' = [ui EXCEPT !.page = "captions", !.shows = ui.shows]
        BY <1>1, <3>3 DEF Options!goBackToCaptions
      <4> QED
        BY <1>2, <4>1
    <3> QED
      BY <1>5, <3>1, <3>2, <3>3 DEF Options!Navigate
  <2>3. ui' = [there |-> ui.there, page |-> p, shows |-> o, link |-> ui.link] /\ o \in CaptionChoices
    BY <1>1, <2>2
  <2> QED
    BY <1>1, <2>1, <2>2, <2>3, OptionsShow
<1>6. CASE Options!CleanUp
  <2>1. PICK p \in {"player", "captions"} : ui' = [ui EXCEPT !.there = FALSE, !.link = FALSE, !.page = p]
    BY <1>6 DEF Options!CleanUp
  <2>2. ui' = [there |-> FALSE, page |-> p, shows |-> ui.shows, link |-> FALSE]
    BY <1>1, <2>1
  <2>3. UNCHANGED <<db, seen, net, told>> /\ p \in CaptionPages /\ p \notin OptionKeys \cup {"main"}
    BY <1>2, <1>6 DEF Options!CleanUp
  <2> QED
    BY <1>1, <2>2, <2>3, OptionsShow
<1>7. CASE Options!Cue
  <2>1. PICK l \in Lines, line \in {Options!Raw, Options!NoLine} : seen' = [seen EXCEPT ![l] = line]
    BY <1>7 DEF Options!Cue
  <2>2. seen' \in [Lines -> CaptionLine]
    BY <2>1, DefaultOptions DEF OptionsInv
  <2>3. net' \in [observers: BOOLEAN, effect: BOOLEAN] /\ net'.observers /\ UNCHANGED <<db, ui, told>>
    BY <1>1, <1>7 DEF Options!Cue
  <2> QED
    BY <2>2, <2>3 DEF OptionsInv, Options!ChoicesKept
<1> QED
  BY <1>3, <1>4, <1>5, <1>6, <1>7, OptionsPress, OptionsStyle DEF Options!Next

----------------------------------------------------------------------------
(* The chat of the documentation *)

ChatQuestions == 1..MaxChanges
ChatInputs == OneText \cup {Blank, None}
ChatMessages == [role: {"user", "assistant"}, of: ChatQuestions]
ChatScreen == [open: BOOLEAN, input: ChatInputs, status: {"ready", "submitted", "streaming", "error"}]
ChatTold == [asked: 0..MaxChanges, cleared: BOOLEAN]
Question(q) == [role |-> "user", of |-> q]
Answer(q) == [role |-> "assistant", of |-> q]

\* Each answer is below its question, but for a first one whose question was cleared.
InOrder(s, cleared) ==
  \A i \in 1..Len(s) : s[i].role = "assistant" => (i = 1 /\ cleared) \/ (i > 1 /\ s[i - 1] = Question(s[i].of))

\* What is under way is about the last message; the answer has room below it.
UnderWay(q, s, status, history) ==
  /\ status \in {"submitted", "streaming"} /\ history.asked >= 1
  /\ IF Len(s) >= 1 THEN s[Len(s)].of = q ELSE history.cleared
  /\ (Len(s) >= 1 /\ s[Len(s)] = Answer(q)) \/ Len(s) + 1 <= 2 * history.asked

\* One answer at most is under way, and none is written over another.
ChatInv ==
  /\ db \in ChatInputs /\ seen \in Seq(ChatMessages) /\ ui \in ChatScreen
  /\ net \in [ChatQuestions -> {"none", "submitted", "streaming"}] /\ told \in ChatTold
  /\ Chat!InputKept
  /\ \A p, q \in ChatQuestions : net[p] # "none" /\ net[q] # "none" => p = q
  /\ \A q \in ChatQuestions : net[q] # "none" => UnderWay(q, seen, ui.status, told)
  /\ ui.status = "submitted" /\ Len(seen) >= 1 => seen[Len(seen)].role = "user"
  /\ InOrder(seen, told.cleared)
  /\ Len(seen) <= 2 * told.asked

\* What the chat promises follows.
LEMMA ChatMeaning == ASSUME ChatInv PROVE Chat!TypeOK /\ Chat!AnswerBelowQuestion /\ Chat!InputKept
<1>1. /\ MaxChanges \in Nat /\ Len(seen) \in Nat /\ told.asked \in 0..MaxChanges
      /\ DOMAIN seen = 1..Len(seen) /\ \A i \in 1..Len(seen) : seen[i] \in ChatMessages
  BY PagesAssumption DEF ChatInv, ChatTold
<1>2. Len(seen) <= 2 * MaxChanges
  BY <1>1 DEF ChatInv
<1>3. Chat!TypeOK
  BY <1>1, <1>2 DEF ChatInv, Chat!TypeOK, Chat!Inputs, Chat!Questions, ChatInputs, ChatQuestions, ChatMessages, ChatScreen, ChatTold
<1>4. Chat!AnswerBelowQuestion
  BY <1>1 DEF ChatInv, Chat!AnswerBelowQuestion, InOrder, Chat!Message, Question
<1> QED
  BY <1>3, <1>4 DEF ChatInv

\* At the start nothing is asked.
LEMMA InitChat == ASSUME Chat!Init PROVE ChatInv
<1>1. MaxChanges \in Nat
  BY PagesAssumption
<1>2. seen = <<>> /\ seen \in Seq(ChatMessages) /\ Len(seen) = 0
  BY DEF Chat!Init
<1>3. ui = [open |-> FALSE, input |-> None, status |-> "ready"] /\ db = None
  BY DEF Chat!Init
<1>4. net = [q \in ChatQuestions |-> "none"] /\ told = [asked |-> 0, cleared |-> FALSE]
  BY DEF Chat!Init, Chat!Questions, ChatQuestions
<1> QED
  BY <1>1, <1>2, <1>3, <1>4 DEF ChatInv, ChatInputs, ChatScreen, ChatTold, InOrder, Chat!InputKept

\* A message more, or the last one less.
LEMMA OneMore ==
  ASSUME NEW S, NEW s \in Seq(S), NEW m \in S
  PROVE  /\ Append(s, m) \in Seq(S) /\ Len(Append(s, m)) = Len(s) + 1 /\ Append(s, m)[Len(s) + 1] = m
         /\ \A i \in 1..Len(s) : Append(s, m)[i] = s[i]
OBVIOUS

\* The last message less.
LEMMA OneLess ==
  ASSUME NEW S, NEW s \in Seq(S), s # <<>>
  PROVE  LET f == SubSeq(s, 1, Len(s) - 1) IN
         /\ Len(s) \in Nat \ {0} /\ s[Len(s)] \in S
         /\ f \in Seq(S) /\ Len(f) = Len(s) - 1 /\ \A i \in 1..(Len(s) - 1) : f[i] = s[i]
<1>1. Len(s) \in Nat \ {0} /\ \A i \in 1..Len(s) : s[i] \in S
  OBVIOUS
<1> DEFINE n == Len(s) - 1
           f == SubSeq(s, 1, n)
<1>2. n \in Nat /\ n + 1 = Len(s) /\ n <= Len(s)
  BY <1>1
<1> HIDE DEF n
<1>3. \A i \in 1..n : i \in 1..Len(s) /\ s[i] \in S
  BY <1>1, <1>2
<1>4. f \in Seq(S)
  BY <1>2, <1>3
<1>5. Len(f) = n
  <2>1. Len(f) = IF 1 <= n THEN n - 1 + 1 ELSE 0
    BY <1>2, <1>3
  <2> QED
    BY <1>2, <2>1
<1>6. \A i \in 1..n : f[i] = s[i]
  <2>1. \A i \in 1..(n - 1 + 1) : f[i] = s[1 + i - 1]
    BY <1>2, <1>3
  <2>2. \A i \in 1..n : i \in 1..(n - 1 + 1) /\ 1 + i - 1 = i
    BY <1>2
  <2> QED
    BY <2>1, <2>2
<1>7. s[Len(s)] \in S
  BY <1>1
<1>8. SubSeq(s, 1, Len(s) - 1) = f
  BY DEF n
<1> HIDE DEF f
<1>9. Len(s) - 1 = n
  BY DEF n
<1> QED
  BY <1>1, <1>4, <1>5, <1>6, <1>7, <1>8, <1>9

\* A request: nothing is under way before it, and the question is the last message.
LEMMA ChatRequest ==
  ASSUME ChatInv, NEW q \in ChatQuestions, NEW messages \in Seq(ChatMessages), Chat!Request(q, messages),
         \A p \in ChatQuestions : net[p] = "none",
         IF Len(messages) >= 1 THEN messages[Len(messages)] = Question(q) ELSE told.cleared, InOrder(messages, told.cleared),
         ui' \in ChatScreen, ui'.status = "submitted", db' \in ChatInputs, Chat!InputKept',
         told' \in ChatTold, told'.asked >= 1, told'.cleared = told.cleared,
         Len(messages) + 1 <= 2 * told'.asked
  PROVE  ChatInv'
<1>1. seen' = messages /\ net' = [net EXCEPT ![q] = "submitted"] /\ Len(messages) \in Nat
  BY DEF Chat!Request
<1>2. /\ net' \in [ChatQuestions -> {"none", "submitted", "streaming"}]
      /\ \A p \in ChatQuestions : net'[p] # "none" => p = q
  BY <1>1 DEF ChatInv
<1>3. UnderWay(q, seen', ui'.status, told') /\ (Len(messages) >= 1 => messages[Len(messages)].role = "user")
  BY <1>1 DEF UnderWay, Question
<1>4. told'.asked \in Int
  BY PagesAssumption DEF ChatTold
<1>5. Len(seen') <= 2 * told'.asked
  BY <1>1, <1>4
<1>6. \A p \in ChatQuestions : net'[p] # "none" => UnderWay(p, seen', ui'.status, told')
  BY <1>2, <1>3
<1> QED
  BY <1>1, <1>2, <1>3, <1>5, <1>6 DEF ChatInv

\* A question is sent.
LEMMA ChatStart == ASSUME ChatInv, ~Chat!isLoading(ui.status), Chat!onStart PROVE ChatInv'
<1>1. /\ MaxChanges \in Nat /\ told.asked \in 0..MaxChanges /\ told \in ChatTold /\ ui \in ChatScreen
      /\ seen \in Seq(ChatMessages) /\ told.asked < MaxChanges
  BY PagesAssumption DEF ChatInv, ChatTold, Chat!onStart, Chat!sendMessage
<1>2. PICK q \in ChatQuestions : q = told.asked + 1
  BY <1>1 DEF ChatQuestions
<1>3. PICK messages \in Seq(ChatMessages) : messages = Append(seen, Question(q))
  BY <1>1, OneMore DEF Question, ChatMessages
<1>4. Chat!Request(q, messages) /\ told' = [told EXCEPT !.asked = q]
  BY <1>2, <1>3 DEF Chat!onStart, Chat!sendMessage, Chat!Message, Question
<1>5. \A p \in ChatQuestions : net[p] = "none"
  BY DEF ChatInv, UnderWay, Chat!isLoading
<1>6. Question(q) \in ChatMessages
  BY DEF Question, ChatMessages
<1>7. /\ Len(seen) \in Nat /\ Len(messages) = Len(seen) + 1 /\ messages[Len(messages)] = Question(q)
      /\ \A i \in 1..Len(seen) : messages[i] = seen[i]
  BY <1>1, <1>3, <1>6, OneMore
<1>8. told' \in ChatTold /\ told'.asked = q /\ told'.cleared = told.cleared /\ q \in 1..MaxChanges
  BY <1>1, <1>2, <1>4 DEF ChatTold, ChatQuestions
<1>9. Len(messages) + 1 <= 2 * told'.asked
  BY <1>1, <1>2, <1>7, <1>8 DEF ChatInv
<1>10. ui' = [ui EXCEPT !.input = None, !.status = "submitted"] /\ db' = None
  BY DEF Chat!onStart, Chat!cleared
<1>11. ui' \in ChatScreen /\ ui'.status = "submitted" /\ ui'.input = None /\ db' \in ChatInputs
  BY <1>1, <1>10 DEF ChatScreen, ChatInputs
<1>12. Chat!InputKept'
  BY <1>10, <1>11 DEF Chat!InputKept
<1>13. InOrder(messages, told.cleared)
  <2> SUFFICES ASSUME NEW i \in 1..Len(messages), messages[i].role = "assistant"
               PROVE  (i = 1 /\ told.cleared) \/ (i > 1 /\ messages[i - 1] = Question(messages[i].of))
    BY DEF InOrder
  <2>1. i # Len(messages)
    BY <1>7 DEF Question
  <2>2. i \in 1..Len(seen) /\ seen[i].role = "assistant" /\ seen[i].of = messages[i].of
    BY <1>7, <2>1
  <2>3. (i = 1 /\ told.cleared) \/ (i > 1 /\ seen[i - 1] = Question(seen[i].of))
    BY <2>2 DEF ChatInv, InOrder
  <2>4. i > 1 => i - 1 \in 1..Len(seen)
    BY <1>7, <2>2
  <2> QED
    BY <1>7, <2>2, <2>3, <2>4
<1>14. Len(messages) >= 1 /\ messages[Len(messages)] = Question(q)
  BY <1>7
<1>15. told'.asked >= 1
  BY <1>8
<1> QED
  BY <1>4, <1>5, <1>8, <1>9, <1>11, <1>12, <1>13, <1>14, <1>15, ChatRequest

\* The last answer goes, and its question is asked again.
LEMMA ChatRegenerate == ASSUME ChatInv, Chat!regenerate PROVE ChatInv'
<1>1. /\ seen \in Seq(ChatMessages) /\ seen # <<>> /\ ui \in ChatScreen /\ told \in ChatTold
      /\ MaxChanges \in Nat /\ told.asked \in 0..MaxChanges /\ told.asked \in Int
  BY PagesAssumption DEF ChatInv, Chat!regenerate, ChatTold
<1>2. PICK messages \in Seq(ChatMessages), n \in Nat \ {0} :
        /\ messages = SubSeq(seen, 1, Len(seen) - 1) /\ n = Len(seen) /\ Len(messages) = n - 1
        /\ seen[n] \in ChatMessages /\ \A i \in 1..(n - 1) : messages[i] = seen[i]
  BY <1>1, OneLess
<1>3. PICK q \in ChatQuestions : q = seen[n].of
  BY <1>2 DEF ChatMessages
<1>4. Chat!Request(q, messages) /\ seen[n].role = "assistant" /\ ui.status # "streaming"
  BY <1>2, <1>3 DEF Chat!regenerate
<1>5. ui.status # "submitted"
  BY <1>2, <1>4 DEF ChatInv
<1>6. \A p \in ChatQuestions : net[p] = "none"
  BY <1>4, <1>5 DEF ChatInv, UnderWay
<1>7. ui' = [ui EXCEPT !.status = "submitted"] /\ UNCHANGED <<db, told>>
  BY DEF Chat!regenerate
<1>8. ui' \in ChatScreen /\ ui'.status = "submitted" /\ Chat!InputKept'
  BY <1>1, <1>7 DEF ChatScreen, ChatInv, Chat!InputKept
<1>9. told.asked >= 1 /\ Len(messages) + 1 <= 2 * told.asked
  BY <1>1, <1>2 DEF ChatInv
<1>10. IF Len(messages) >= 1 THEN messages[Len(messages)] = Question(q) ELSE told.cleared
  <2>1. (n = 1 /\ told.cleared) \/ (n > 1 /\ seen[n - 1] = Question(q))
    BY <1>2, <1>3, <1>4 DEF ChatInv, InOrder
  <2>2. n > 1 => n - 1 \in 1..(n - 1)
    BY <1>2
  <2> QED
    BY <1>2, <2>1, <2>2
<1>11. InOrder(messages, told.cleared)
  <2> SUFFICES ASSUME NEW i \in 1..Len(messages), messages[i].role = "assistant"
               PROVE  (i = 1 /\ told.cleared) \/ (i > 1 /\ messages[i - 1] = Question(messages[i].of))
    BY DEF InOrder
  <2>1. i \in 1..n /\ i \in 1..(n - 1) /\ seen[i].role = "assistant"
    BY <1>2
  <2>2. (i = 1 /\ told.cleared) \/ (i > 1 /\ seen[i - 1] = Question(seen[i].of))
    BY <1>2, <2>1 DEF ChatInv, InOrder
  <2>3. i > 1 => i - 1 \in 1..(n - 1)
    BY <1>2, <2>1
  <2> QED
    BY <1>2, <2>1, <2>2, <2>3
<1> QED
  BY <1>1, <1>4, <1>6, <1>7, <1>8, <1>9, <1>10, <1>11, ChatRequest DEF ChatInv

\* A piece of the answer comes, or it breaks off.
LEMMA ChatAnswers == ASSUME ChatInv, NEW q \in ChatQuestions, Chat!POST(q) \/ Chat!Broken(q) PROVE ChatInv'
<1>1. /\ seen \in Seq(ChatMessages) /\ ui \in ChatScreen /\ told \in ChatTold /\ told.asked \in Int /\ Len(seen) \in Nat
      /\ net \in [ChatQuestions -> {"none", "submitted", "streaming"}]
  BY PagesAssumption DEF ChatInv, ChatTold
<1>2. /\ net[q] # "none" /\ UnderWay(q, seen, ui.status, told) /\ \A p \in ChatQuestions : p # q => net[p] = "none"
      /\ UNCHANGED <<db, told>>
  BY DEF ChatInv, Chat!POST, Chat!Broken
<1>3. CASE Chat!Broken(q)
  <2>1. ui' \in ChatScreen /\ ui'.status = "error" /\ Chat!InputKept' /\ seen' = seen
    BY <1>1, <1>2, <1>3 DEF Chat!Broken, ChatScreen, ChatInv, Chat!InputKept
  <2>2. net' \in [ChatQuestions -> {"none", "submitted", "streaming"}] /\ \A p \in ChatQuestions : net'[p] = "none"
    BY <1>1, <1>2, <1>3 DEF Chat!Broken
  <2> QED
    BY <1>2, <2>1, <2>2 DEF ChatInv
<1>4. CASE Chat!POST(q)
  <2>1. PICK ends \in BOOLEAN :
          /\ net' = [net EXCEPT ![q] = IF ends THEN "none" ELSE "streaming"]
          /\ ui' = [ui EXCEPT !.status = IF ends THEN "ready" ELSE "streaming"]
    BY <1>4 DEF Chat!POST
  <2>2. /\ ui' \in ChatScreen /\ ui'.status \in {"ready", "streaming"} /\ Chat!InputKept'
        /\ ~ends => ui'.status = "streaming"
    BY <1>1, <1>2, <2>1 DEF ChatScreen, ChatInv, Chat!InputKept
  <2>3. /\ net' \in [ChatQuestions -> {"none", "submitted", "streaming"}]
        /\ \A p \in ChatQuestions : net'[p] # "none" => p = q /\ ~ends
    BY <1>1, <1>2, <2>1
  <2>4. Answer(q) \in ChatMessages /\ Answer(q).role = "assistant" /\ Answer(q).of = q
    BY DEF Answer, ChatMessages
  <2>5. CASE Len(seen) >= 1 /\ seen[Len(seen)] = Answer(q)
    <3>1. seen' = seen
      <4>1. seen # <<>>
        BY <1>1, <2>5
      <4>2. seen[Len(seen)] = Answer(q)
        BY <2>5
      <4> QED
        BY <1>4, <4>1, <4>2 DEF Chat!POST, Chat!Written, Chat!Message, Answer
    <3>2. UnderWay(q, seen, "streaming", told)
      BY <1>2, <2>4, <2>5 DEF UnderWay
    <3> QED
      BY <1>2, <2>2, <2>3, <3>1, <3>2 DEF ChatInv
  <2>6. CASE ~(Len(seen) >= 1 /\ seen[Len(seen)] = Answer(q))
    <3>1. seen' = Append(seen, Answer(q))
      <4>1. CASE seen = <<>>
        BY <1>4, <4>1 DEF Chat!POST, Chat!Written, Chat!Message, Answer
      <4>2. CASE seen # <<>>
        <5>1. seen[Len(seen)] # Answer(q)
          BY <1>1, <2>6, <4>2
        <5> QED
          BY <1>4, <5>1 DEF Chat!POST, Chat!Written, Chat!Message, Answer
      <4> QED
        BY <4>1, <4>2
    <3>2. /\ seen' \in Seq(ChatMessages) /\ Len(seen') = Len(seen) + 1 /\ seen'[Len(seen')] = Answer(q)
          /\ \A i \in 1..Len(seen) : seen'[i] = seen[i]
      BY <1>1, <2>4, <3>1, OneMore
    <3>3. Len(seen') <= 2 * told.asked
      BY <1>2, <2>6, <3>2 DEF UnderWay
    <3>4. UnderWay(q, seen', "streaming", told)
      BY <1>1, <1>2, <2>4, <3>2 DEF UnderWay
    <3>5. IF Len(seen) >= 1 THEN seen[Len(seen)] = Question(q) ELSE told.cleared
      <4>1. ASSUME Len(seen) >= 1  PROVE seen[Len(seen)] = Question(q)
        <5>1. seen[Len(seen)] \in ChatMessages /\ seen[Len(seen)].of = q
          BY <1>1, <1>2, <4>1 DEF UnderWay
        <5>2. seen[Len(seen)] \in {Question(q), Answer(q)}
          BY <5>1 DEF ChatMessages, Question, Answer
        <5> QED
          BY <2>6, <4>1, <5>2
      <4> QED
        BY <1>2, <4>1 DEF UnderWay
    <3>6. InOrder(seen', told.cleared)
      <4> SUFFICES ASSUME NEW i \in 1..Len(seen'), seen'[i].role = "assistant"
                   PROVE  (i = 1 /\ told.cleared) \/ (i > 1 /\ seen'[i - 1] = Question(seen'[i].of))
        BY DEF InOrder
      <4>1. CASE i = Len(seen')
        <5>1. i - 1 = Len(seen) /\ seen'[i].of = q
          BY <1>1, <2>4, <3>2, <4>1
        <5> QED
          BY <1>1, <3>2, <3>5, <4>1, <5>1
      <4>2. CASE i # Len(seen')
        <5>1. i \in 1..Len(seen) /\ seen'[i] = seen[i] /\ (i > 1 => i - 1 \in 1..Len(seen))
          BY <1>1, <3>2, <4>2
        <5>2. (i = 1 /\ told.cleared) \/ (i > 1 /\ seen[i - 1] = Question(seen[i].of))
          BY <5>1 DEF ChatInv, InOrder
        <5> QED
          BY <3>2, <5>1, <5>2
      <4> QED
        BY <4>1, <4>2
    <3> QED
      BY <1>2, <2>2, <2>3, <3>2, <3>3, <3>4, <3>6 DEF ChatInv
  <2> QED
    BY <2>5, <2>6
<1> QED
  BY <1>3, <1>4

\* The answer under way is stopped: there is one at most.
LEMMA ChatStop == ASSUME ChatInv, Chat!stop PROVE ChatInv'
<1>1. /\ MaxChanges \in Nat /\ ui \in ChatScreen
      /\ net \in [ChatQuestions -> {"none", "submitted", "streaming"}]
  BY PagesAssumption DEF ChatInv
<1>2. PICK q \in ChatQuestions : net[q] # "none" /\ \A p \in ChatQuestions : p # q => net[p] = "none"
  BY DEF ChatInv, Chat!stop, Chat!InFlight, Chat!Questions, ChatQuestions
<1>3. Chat!InFlight = {q}
  BY <1>2 DEF Chat!InFlight, Chat!Questions, ChatQuestions
<1>4. q <= q
  BY <1>1 DEF ChatQuestions
<1>5. (CHOOSE x \in Chat!InFlight : \A p \in Chat!InFlight : p <= x) = q
  BY <1>3, <1>4
<1>6. net' = [net EXCEPT ![q] = "none"]
  BY <1>5 DEF Chat!stop
<1>7. net' \in [ChatQuestions -> {"none", "submitted", "streaming"}] /\ \A p \in ChatQuestions : net'[p] = "none"
  BY <1>1, <1>2, <1>6
<1>8. ui' \in ChatScreen /\ ui'.status = "ready" /\ Chat!InputKept' /\ UNCHANGED <<db, seen, told>>
  BY <1>1 DEF Chat!stop, ChatScreen, ChatInv, Chat!InputKept
<1> QED
  BY <1>7, <1>8 DEF ChatInv

\* The panel opens and closes, its input is typed in, and its chat cleared.
LEMMA ChatPanel ==
  ASSUME ChatInv, (\E open \in BOOLEAN : Chat!setOpen(open)) \/ Chat!Typed \/ Chat!clearChat
  PROVE  ChatInv'
<1>1. ui \in ChatScreen /\ db \in ChatInputs /\ told \in ChatTold /\ MaxChanges \in Nat /\ told.asked \in 0..MaxChanges
  BY PagesAssumption DEF ChatInv, ChatTold
<1>2. ASSUME NEW open \in BOOLEAN, Chat!setOpen(open)  PROVE ChatInv'
  <2>1. PICK input \in ChatInputs : ui' = [ui EXCEPT !.open = open, !.input = input] /\ (open => input = db)
    BY <1>1, <1>2 DEF Chat!setOpen, ChatInputs
  <2>2. ui' \in ChatScreen /\ ui'.status = ui.status /\ (ui'.open => ui'.input = db)
    BY <1>1, <2>1 DEF ChatScreen
  <2>3. UNCHANGED <<db, seen, net, told>>
    BY <1>2 DEF Chat!setOpen
  <2> QED
    BY <2>2, <2>3 DEF ChatInv, Chat!InputKept
<1>3. CASE Chat!Typed
  <2>1. PICK text \in ChatInputs : ui' = [ui EXCEPT !.input = text] /\ db' = text
    BY <1>3 DEF Chat!Typed, Chat!Inputs, ChatInputs
  <2>2. ui' \in ChatScreen /\ ui'.status = ui.status /\ ui'.input = db'
    BY <1>1, <2>1 DEF ChatScreen
  <2> QED
    BY <1>3, <2>1, <2>2 DEF Chat!Typed, ChatInv, Chat!InputKept
<1>4. CASE Chat!clearChat
  <2>1. PICK cleared \in BOOLEAN :
          told' = [told EXCEPT !.cleared = cleared] /\ cleared = (told.cleared \/ Chat!InFlight # {})
    BY <1>1, <1>4 DEF Chat!clearChat, ChatTold
  <2>2. told' \in ChatTold /\ told'.asked = told.asked /\ told'.cleared = cleared
    BY <1>1, <2>1 DEF ChatTold
  <2>3. seen' = <<>> /\ seen' \in Seq(ChatMessages) /\ Len(seen') = 0 /\ UNCHANGED <<db, ui, net>>
    BY <1>4 DEF Chat!clearChat
  <2>4. ASSUME NEW q \in ChatQuestions, net[q] # "none"  PROVE UnderWay(q, seen', ui.status, told')
    <3>1. Chat!InFlight # {}
      BY <2>4 DEF Chat!InFlight, Chat!Questions, ChatQuestions
    <3>2. told'.cleared
      BY <2>1, <2>2, <3>1
    <3>3. UnderWay(q, seen, ui.status, told)
      BY <2>4 DEF ChatInv
    <3> QED
      BY <1>1, <2>2, <2>3, <3>2, <3>3 DEF UnderWay
  <2>5. InOrder(seen', told'.cleared) /\ Len(seen') <= 2 * told'.asked
    BY <1>1, <2>2, <2>3 DEF InOrder
  <2> QED
    BY <2>2, <2>3, <2>4, <2>5 DEF ChatInv, Chat!InputKept
<1> QED
  BY <1>2, <1>3, <1>4

\* A step of the chat.
LEMMA NextChat == ASSUME ChatInv, Chat!Next PROVE ChatInv'
<1>1. CASE Chat!AISearchInput
  BY <1>1, ChatStop, ChatStart DEF Chat!AISearchInput
<1>2. CASE Chat!AISearchInputActions
  BY <1>2, ChatRegenerate, ChatPanel DEF Chat!AISearchInputActions
<1>3. CASE Chat!AISearchPanelHeader \/ Chat!useHotKey \/ Chat!AISearchTrigger \/ Chat!Typed
  <2>1. ui.open \in BOOLEAN
    BY DEF ChatInv, ChatScreen
  <2> QED
    BY <1>3, <2>1, ChatPanel DEF Chat!AISearchPanelHeader, Chat!useHotKey, Chat!AISearchTrigger
<1>4. ASSUME NEW q \in Chat!Questions, Chat!POST(q) \/ Chat!Broken(q)  PROVE ChatInv'
  BY <1>4, ChatAnswers DEF Chat!Questions, ChatQuestions
<1> QED
  BY <1>1, <1>2, <1>3, <1>4 DEF Chat!Next, Chat!AISearchPanel

----------------------------------------------------------------------------
(* The landing page: the header, the steps and the word *)

HeaderState == [y: Landing!Top, isScrolled: BOOLEAN, active: Landing!navItems, listener: Landing!navItems, isOpen: BOOLEAN]
WordState == [inView: BOOLEAN, interval: BOOLEAN, timeout: BOOLEAN, show: BOOLEAN, currentWord: 0..1]

\* There is one time-out, of the step that is shown, and the bar is as far as the time.
LandingInv ==
  /\ db \in HeaderState /\ seen \in WordState
  /\ ui \in [activeStep: Landing!Steps, progress: 0..stepDuration]
  /\ told \in [shown: 0..stepDuration, late: BOOLEAN]
  /\ net = {stepDuration - told.shown} /\ ui.progress = told.shown
  /\ Landing!SectionMarked /\ Landing!WordComesBack

\* What the page promises follows.
LEMMA LandingMeaning ==
  ASSUME LandingInv
  PROVE  Landing!TypeOK /\ Landing!SectionMarked /\ Landing!StepHasItsTime /\ Landing!WordComesBack
<1>1. stepDuration \in Nat
  BY PagesAssumption
<1>2. PICK n \in 0..stepDuration : told.shown = n
  BY DEF LandingInv
<1>3. Landing!TypeOK
  BY <1>1, <1>2 DEF LandingInv, HeaderState, WordState, Landing!TypeOK
<1>4. Landing!StepHasItsTime
  BY <1>1, <1>2 DEF LandingInv, Landing!StepHasItsTime
<1> QED
  BY <1>3, <1>4 DEF LandingInv

\* At the start the page is at its top and the first step is shown.
LEMMA InitLanding == ASSUME Landing!Init PROVE LandingInv
<1>1. stepDuration \in Nat
  BY PagesAssumption
<1>2. db \in HeaderState /\ db.y = 0
  BY DEF Landing!Init, HeaderState, Landing!Top, Landing!navItems
<1>3. seen \in WordState /\ seen.show
  BY DEF Landing!Init, WordState
<1>4. ui \in [activeStep: Landing!Steps, progress: 0..stepDuration] /\ ui.progress = 0
  BY <1>1 DEF Landing!Init, Landing!Steps
<1>5. told \in [shown: 0..stepDuration, late: BOOLEAN] /\ told.shown = 0 /\ net = {stepDuration}
  BY <1>1 DEF Landing!Init
<1> QED
  BY <1>1, <1>2, <1>3, <1>4, <1>5 DEF LandingInv, Landing!SectionMarked, Landing!WordComesBack

\* At a position there is one section at most, and home is none.
LEMMA OneSection ==
  ASSUME NEW y \in Landing!Top
  PROVE  /\ Landing!sectionsAt(y) \subseteq Landing!navItems
         /\ \A s, r \in Landing!sectionsAt(y) : s = r
         /\ \A s \in DOMAIN Landing!offsetTop :
              y + 4 - Landing!offsetTop[s] \in 0..Landing!offsetHeight - 1 => s \in Landing!sectionsAt(y)
<1>1. DOMAIN Landing!offsetTop = {"features", "faq", "contact"}
  BY DEF Landing!offsetTop
<1>2. Landing!offsetTop["features"] = 6 /\ Landing!offsetTop["faq"] = 10 /\ Landing!offsetTop["contact"] = 12
  BY DEF Landing!offsetTop
<1>3. y \in 0..9 /\ Landing!offsetHeight = 2
  BY DEF Landing!Top, Landing!offsetHeight
<1> QED
  BY <1>1, <1>2, <1>3 DEF Landing!sectionsAt, Landing!navItems

\* A scroll that a listener of the present render hears marks the section.
LEMMA LandingScroll == ASSUME LandingInv, Landing!handleScroll PROVE LandingInv'
<1>1. PICK y \in Landing!Top :
        /\ db' = [db EXCEPT !.y = y, !.isScrolled = y > 1,
                            !.active = IF Landing!Section(y) = {} THEN @ ELSE CHOOSE s \in Landing!Section(y) : TRUE]
        /\ told' = [told EXCEPT !.late = db.listener # db.active]
  BY DEF Landing!handleScroll
<1>2. PICK a : a = IF Landing!Section(y) = {} THEN db.active ELSE CHOOSE s \in Landing!Section(y) : TRUE
  OBVIOUS
<1>3. Landing!Section(y) \subseteq Landing!navItems /\ (Landing!Section(y) # {} => a \in Landing!Section(y))
  BY <1>2, OneSection DEF Landing!Section, Landing!navItems
<1>4. a \in Landing!navItems
  BY <1>2, <1>3 DEF LandingInv, HeaderState
<1>5. PICK scrolled \in BOOLEAN : db' = [y |-> y, isScrolled |-> scrolled, active |-> a, listener |-> db.listener,
                                         isOpen |-> db.isOpen]
  <2>1. db = [y |-> db.y, isScrolled |-> db.isScrolled, active |-> db.active, listener |-> db.listener, isOpen |-> db.isOpen]
    BY DEF LandingInv, HeaderState
  <2>2. DOMAIN db = {"y", "isScrolled", "active", "listener", "isOpen"}
    BY <2>1
  <2>3. (y > 1) \in BOOLEAN
    OBVIOUS
  <2> QED
    BY <1>1, <1>2, <2>1, <2>2, <2>3
<1>6. db' \in HeaderState /\ db'.y = y /\ db'.active = a
  BY <1>4, <1>5 DEF LandingInv, HeaderState
<1>7. told' = [shown |-> told.shown, late |-> db.listener # db.active]
  BY <1>1 DEF LandingInv
<1>8. Landing!SectionMarked'
  <2> SUFFICES ASSUME db.listener = db.active, y >= 1, NEW s \in DOMAIN Landing!offsetTop,
                      y + 4 - Landing!offsetTop[s] \in 0..Landing!offsetHeight - 1
               PROVE  a = s
    BY <1>6, <1>7 DEF Landing!SectionMarked
  <2>1. s \in Landing!sectionsAt(y) /\ y \in 0..9
    BY OneSection DEF Landing!Top
  <2>2. Landing!Section(y) = {x \in Landing!sectionsAt(y) : x # db.active}
    BY <2>1 DEF Landing!Section
  <2>3. CASE db.active = s
    BY <1>2, <2>1, <2>2, <2>3, OneSection
  <2>4. CASE db.active # s
    <3>1. s \in Landing!Section(y)
      BY <2>1, <2>2, <2>4
    <3> QED
      BY <1>3, <2>1, <2>2, <3>1, OneSection
  <2> QED
    BY <2>3, <2>4
<1>9. UNCHANGED <<seen, ui, net>>
  BY DEF Landing!handleScroll
<1> QED
  BY <1>6, <1>7, <1>8, <1>9 DEF LandingInv, Landing!WordComesBack

\* What changes neither the position nor the section marked.
LEMMA LandingHeader == ASSUME LandingInv, Landing!Effect \/ Landing!Header PROVE LandingInv'
<1>1. UNCHANGED <<seen, ui, net, told>>
  BY DEF Landing!Effect, Landing!Header
<1>2. db' \in HeaderState /\ db'.y = db.y /\ db'.active = db.active
  BY DEF LandingInv, HeaderState, Landing!Effect, Landing!Header, Landing!handleNavClick
<1> QED
  BY <1>1, <1>2 DEF LandingInv, Landing!SectionMarked, Landing!WordComesBack

\* Another step has its whole time before it.
LEMMA LandingShows ==
  ASSUME LandingInv, NEW step \in Landing!Steps, NEW timers, Landing!Shows(step, timers),
         told' = [told EXCEPT !.shown = 0], UNCHANGED <<db, seen>>
  PROVE  LandingInv'
<1>1. stepDuration \in Nat
  BY PagesAssumption
<1>2. told' = [shown |-> 0, late |-> told.late] /\ told.late \in BOOLEAN
  BY DEF LandingInv
<1>3. ui' = [activeStep |-> step, progress |-> 0] /\ net' = {stepDuration}
  BY DEF Landing!Shows
<1> QED
  BY <1>1, <1>2, <1>3 DEF LandingInv, Landing!SectionMarked, Landing!WordComesBack

\* Time passes, for the time-out and the bar alike.
LEMMA LandingInterval == ASSUME LandingInv, Landing!progressInterval PROVE LandingInv'
<1>1. PICK n \in 0..stepDuration : told.shown = n /\ ui.progress = n /\ net = {stepDuration - n}
  BY DEF LandingInv
<1>2. stepDuration \in Nat /\ n < stepDuration
  BY <1>1, PagesAssumption DEF Landing!progressInterval
<1>3. told' = [shown |-> n + 1, late |-> told.late] /\ told.late \in BOOLEAN
  BY <1>1 DEF LandingInv, Landing!progressInterval
<1>4. ui' = [activeStep |-> ui.activeStep, progress |-> n + 1] /\ ui.activeStep \in Landing!Steps
  BY <1>1, <1>2 DEF LandingInv, Landing!progressInterval
<1>5. net' = {stepDuration - (n + 1)}
  BY <1>1, <1>2 DEF Landing!progressInterval
<1>6. UNCHANGED <<db, seen>> /\ n + 1 \in 0..stepDuration
  BY <1>2 DEF Landing!progressInterval
<1> QED
  BY <1>3, <1>4, <1>5, <1>6 DEF LandingInv, Landing!SectionMarked, Landing!WordComesBack

\* The word is hidden by what starts the time-out that shows it.
LEMMA LandingWord == ASSUME LandingInv, Landing!WordRotate PROVE LandingInv'
<1>1. UNCHANGED <<db, ui, net, told>>
  BY DEF Landing!WordRotate, Landing!shouldStart, Landing!Interval, Landing!Timeout
<1>2. seen' \in WordState /\ (~seen'.show => seen'.timeout)
  <2>1. seen \in WordState /\ (~seen.show => seen.timeout)
    BY DEF LandingInv, Landing!WordComesBack
  <2>2. CASE Landing!shouldStart
    BY <2>1, <2>2 DEF WordState, Landing!shouldStart, Landing!Cleared
  <2>3. CASE Landing!Interval
    BY <2>1, <2>3 DEF WordState, Landing!Interval
  <2>4. CASE Landing!Timeout
    <3>1. (seen.currentWord + 1) % 2 \in 0..1
      BY <2>1 DEF WordState
    <3> QED
      BY <2>1, <2>4, <3>1 DEF WordState, Landing!Timeout, Landing!words
  <2> QED
    BY <2>2, <2>3, <2>4 DEF Landing!WordRotate
<1> QED
  BY <1>1, <1>2 DEF LandingInv, Landing!SectionMarked, Landing!WordComesBack

\* A step of the page.
LEMMA NextLanding == ASSUME LandingInv, Landing!Next PROVE LandingInv'
<1>1. ASSUME NEW index \in Landing!Steps, Landing!handleStepClick(index)  PROVE LandingInv'
  <2>1. CASE index = ui.activeStep
    BY <1>1, <2>1 DEF Landing!handleStepClick, LandingInv, Landing!SectionMarked, Landing!WordComesBack
  <2>2. CASE index # ui.activeStep
    BY <1>1, <2>2, LandingShows DEF Landing!handleStepClick
  <2> QED
    BY <2>1, <2>2
<1>2. CASE Landing!stepTimeout
  <2>1. (ui.activeStep + 1) % 4 \in Landing!Steps
    BY DEF LandingInv, Landing!Steps
  <2> QED
    BY <1>2, <2>1, LandingShows DEF Landing!stepTimeout
<1> QED
  BY <1>1, <1>2, LandingScroll, LandingHeader, LandingInterval, LandingWord DEF Landing!Next, Landing!HowItWorks

----------------------------------------------------------------------------
(* The form behind a captcha *)

CaptchaIds == 0..MaxWidgets
CaptchaForm ==
  [email: BOOLEAN, isProcessing: BOOLEAN, success: BOOLEAN, box: [there: BOOLEAN, widget: CaptchaIds]]
CaptchaHook == [widgetId: CaptchaIds, isRendered: BOOLEAN, isInitializing: BOOLEAN]
CaptchaCalls ==
  [timer: BOOLEAN, script: {"none", "loading", "loaded"}, request: Reset!Widgets \cup {None}]

\* What is asked for a response is the widget in the container, once that is initialized;
\* until then the container is empty.
BoxOK(box, hook, timer, disturbed) ==
  box.there /\ ~disturbed =>
    IF timer \/ hook.isInitializing THEN box.widget = 0
    ELSE box.widget # 0 /\ hook.widgetId = box.widget

\* The hook's references agree, and a response that was sent is none of a widget yet to
\* come or of the one in the container.
ResetInv ==
  /\ db \in [solved: SUBSET Reset!Widgets, rendered: CaptchaIds] /\ seen \in CaptchaHook
  /\ ui \in CaptchaForm /\ net \in CaptchaCalls /\ told \in [sent: SUBSET Reset!Widgets, disturbed: BOOLEAN]
  /\ seen.isRendered <=> seen.widgetId # 0
  /\ seen.isInitializing => seen.widgetId = 0
  /\ BoxOK(ui.box, seen, net.timer, told.disturbed)
  /\ seen.widgetId <= db.rendered /\ \A w \in told.sent : w <= db.rendered
  /\ ui.box.there => seen.widgetId \notin told.sent

\* What the form promises follows, and what a step that sends a response may not do.
LEMMA ResetMeaning == ASSUME ResetInv PROVE Reset!TypeOK /\ Reset!WidgetShown
<1>1. Reset!TypeOK
  BY DEF ResetInv, Reset!TypeOK, CaptchaIds, CaptchaForm, CaptchaHook, CaptchaCalls
<1>2. Reset!WidgetShown
  BY DEF ResetInv, BoxOK, Reset!WidgetShown, Reset!showRecaptcha
<1> QED
  BY <1>1, <1>2

\* At the start the popover is closed.
LEMMA InitReset == ASSUME Reset!Init PROVE ResetInv
<1>1. 0 \in CaptchaIds
  BY PagesAssumption DEF CaptchaIds
<1>2. db = [solved |-> {}, rendered |-> 0] /\ told = [sent |-> {}, disturbed |-> FALSE]
  BY DEF Reset!Init
<1>3. seen = [widgetId |-> 0, isRendered |-> FALSE, isInitializing |-> FALSE] /\ seen \in CaptchaHook
  BY <1>1 DEF Reset!Init, CaptchaHook
<1>4. ui \in CaptchaForm /\ ~ui.box.there
  BY <1>1 DEF Reset!Init, CaptchaForm, Reset!NoBox
<1>5. net \in CaptchaCalls
  BY DEF Reset!Init, CaptchaCalls
<1> QED
  BY <1>1, <1>2, <1>3, <1>4, <1>5 DEF ResetInv, BoxOK

\* The popover is closed, or nothing of the widgets changes.
LEMMA ResetFrame ==
  ASSUME ResetInv, ui' \in CaptchaForm, net' \in CaptchaCalls, net'.timer = net.timer, seen' = seen,
         db'.rendered = db.rendered, db' \in [solved: SUBSET Reset!Widgets, rendered: CaptchaIds],
         told' \in [sent: SUBSET Reset!Widgets, disturbed: BOOLEAN],
         \/ ~ui'.box.there /\ \A w \in told'.sent : w \in told.sent \/ w = seen.widgetId
         \/ told' = told /\ ui'.box = ui.box
  PROVE  ResetInv'
<1>1. CASE ~ui'.box.there /\ \A w \in told'.sent : w \in told.sent \/ w = seen.widgetId
  BY <1>1 DEF ResetInv, BoxOK
<1>2. CASE told' = told /\ ui'.box = ui.box
  BY <1>2 DEF ResetInv, BoxOK
<1> QED
  BY <1>1, <1>2

\* The answers of Google and of the server, and what the user does to the form and the
\* popover but submitting.
LEMMA ResetAround ==
  ASSUME ResetInv,
         \/ Reset!EmailField \/ Reset!CloseAlert \/ Reset!Dismiss \/ Reset!handleVerify
         \/ Reset!ScriptLoads \/ Reset!Solve \/ Reset!Answered
  PROVE  ResetInv'
<1>1. PICK box : box = ui.box
  OBVIOUS
<1>2. ui = [email |-> ui.email, isProcessing |-> ui.isProcessing, success |-> ui.success, box |-> box]
  BY <1>1 DEF ResetInv, CaptchaForm
<1>3. box \in [there: BOOLEAN, widget: CaptchaIds] /\ ui.email \in BOOLEAN /\ ui.isProcessing \in BOOLEAN /\ ui.success \in BOOLEAN
  BY <1>1 DEF ResetInv, CaptchaForm
<1>4. Reset!NoBox \in [there: BOOLEAN, widget: CaptchaIds] /\ ~Reset!NoBox.there
  BY PagesAssumption DEF Reset!NoBox, CaptchaIds
<1>5. net = [timer |-> net.timer, script |-> net.script, request |-> net.request]
  BY DEF ResetInv, CaptchaCalls
<1>6. told = [sent |-> told.sent, disturbed |-> told.disturbed] /\ told.sent \in SUBSET Reset!Widgets
  BY DEF ResetInv
<1>7. CASE Reset!EmailField \/ Reset!Dismiss
  <2>1. ui' \in CaptchaForm /\ ui'.box = Reset!NoBox
    BY <1>2, <1>3, <1>4, <1>7 DEF Reset!EmailField, Reset!Dismiss, CaptchaForm
  <2>2. told' = [sent |-> told.sent, disturbed |-> FALSE] /\ UNCHANGED <<db, seen, net>>
    BY <1>6, <1>7 DEF Reset!EmailField, Reset!Dismiss
  <2> QED
    BY <1>4, <1>6, <2>1, <2>2, ResetFrame DEF ResetInv
<1>8. CASE Reset!handleVerify
  <2>1. PICK token \in Reset!Widgets : token = seen.widgetId /\ Reset!handleVerifiedSubmit(token)
    BY <1>8 DEF Reset!handleVerify, Reset!getToken, ResetInv
  <2>2. ui' \in CaptchaForm /\ ui'.box = Reset!NoBox
    BY <1>2, <1>3, <1>4, <2>1 DEF Reset!handleVerifiedSubmit, CaptchaForm
  <2>3. net' = [timer |-> net.timer, script |-> net.script, request |-> token]
    BY <1>5, <2>1 DEF Reset!handleVerifiedSubmit
  <2>4. net' \in CaptchaCalls /\ net'.timer = net.timer
    BY <2>1, <2>3 DEF ResetInv, CaptchaCalls
  <2>5. told' = [sent |-> told.sent \cup {token}, disturbed |-> FALSE] /\ UNCHANGED <<db, seen>>
    BY <2>1 DEF Reset!handleVerifiedSubmit
  <2> QED
    BY <1>4, <1>6, <2>1, <2>2, <2>4, <2>5, ResetFrame DEF ResetInv
<1>9. CASE Reset!CloseAlert \/ Reset!ScriptLoads \/ Reset!Solve \/ Reset!Answered
  <2>1. ui' \in CaptchaForm /\ ui'.box = ui.box
    <3>1. \/ ui' = ui
          \/ ui' = [ui EXCEPT !.success = FALSE]
          \/ ui' = [ui EXCEPT !.success = TRUE, !.email = FALSE, !.isProcessing = FALSE]
          \/ ui' = [ui EXCEPT !.isProcessing = FALSE]
      BY <1>9 DEF Reset!CloseAlert, Reset!ScriptLoads, Reset!Solve, Reset!Answered
    <3>2. PICK e, p, d \in BOOLEAN : ui' = [email |-> e, isProcessing |-> p, success |-> d, box |-> box]
      BY <1>1, <1>2, <1>3, <3>1
    <3> QED
      BY <1>1, <1>3, <3>2 DEF CaptchaForm
  <2>2. net' \in CaptchaCalls /\ net'.timer = net.timer
    BY <1>5, <1>9 DEF ResetInv, Reset!CloseAlert, Reset!ScriptLoads, Reset!Solve, Reset!Answered, CaptchaCalls
  <2>3. box.widget # 0 => box.widget \in Reset!Widgets
    BY <1>3, PagesAssumption DEF CaptchaIds, Reset!Widgets
  <2>4. db' \in [solved: SUBSET Reset!Widgets, rendered: CaptchaIds] /\ db'.rendered = db.rendered
    <3>1. CASE Reset!Solve
      BY <1>1, <2>3, <3>1 DEF Reset!Solve, ResetInv
    <3> QED
      BY <1>9, <3>1 DEF Reset!CloseAlert, Reset!ScriptLoads, Reset!Answered, ResetInv
  <2>5. UNCHANGED <<seen, told>>
    BY <1>9 DEF Reset!CloseAlert, Reset!ScriptLoads, Reset!Solve, Reset!Answered
  <2> QED
    BY <2>1, <2>2, <2>4, <2>5, ResetFrame DEF ResetInv
<1> QED
  BY <1>7, <1>8, <1>9

\* A widget that is forgotten has no response.
LEMMA ResetForgets ==
  ASSUME ResetInv,
         \/ Reset!Reset(seen.widgetId)
         \/ UNCHANGED <<db, told>>
  PROVE  /\ db' \in [solved: SUBSET Reset!Widgets, rendered: CaptchaIds] /\ db'.rendered = db.rendered
         /\ told' \in [sent: SUBSET Reset!Widgets, disturbed: BOOLEAN]
         /\ told'.sent \subseteq told.sent /\ told'.disturbed = told.disturbed
BY DEF ResetInv, Reset!Reset

\* The popover opens, closes, or is another one.
LEMMA ResetSubmit == ASSUME ResetInv, Reset!handleSubmit PROVE ResetInv'
<1>1. 0 \in CaptchaIds
  BY PagesAssumption DEF CaptchaIds
<1>2. PICK box \in {Reset!EmptyBox, Reset!NoBox} :
        ui' = [ui EXCEPT !.box = box] /\ (box.there <=> ui.email) /\ box.widget = 0
  <2>1. PICK b : b = (IF ui.email THEN Reset!EmptyBox ELSE Reset!NoBox)
    OBVIOUS
  <2>2. b \in {Reset!EmptyBox, Reset!NoBox} /\ (b.there <=> ui.email) /\ b.widget = 0
    BY <2>1 DEF Reset!EmptyBox, Reset!NoBox, ResetInv, CaptchaForm
  <2>3. ui' = [ui EXCEPT !.box = b]
    BY <2>1 DEF Reset!handleSubmit
  <2> QED
    BY <2>2, <2>3
<1>3. box \in [there: BOOLEAN, widget: CaptchaIds]
  <2>1. Reset!EmptyBox \in [there: BOOLEAN, widget: CaptchaIds] /\ Reset!NoBox \in [there: BOOLEAN, widget: CaptchaIds]
    BY <1>1 DEF Reset!EmptyBox, Reset!NoBox
  <2> QED
    BY <1>2, <2>1
<1>4. ui' \in CaptchaForm /\ ui'.box = box
  <2>1. PICK e, p, d \in BOOLEAN : ui = [email |-> e, isProcessing |-> p, success |-> d, box |-> ui.box]
    BY DEF ResetInv, CaptchaForm
  <2>2. ui' = [email |-> e, isProcessing |-> p, success |-> d, box |-> box]
    BY <1>2, <2>1
  <2> QED
    BY <1>3, <2>2 DEF CaptchaForm
<1>5. CASE Reset!showRecaptcha /\ ui.email
  <2>1. told' = [sent |-> told.sent, disturbed |-> TRUE] /\ UNCHANGED <<db, seen, net>> /\ ui.box.there
    BY <1>5 DEF Reset!handleSubmit, Reset!showRecaptcha, ResetInv
  <2> QED
    BY <1>4, <2>1 DEF ResetInv, BoxOK
<1>6. CASE Reset!showRecaptcha /\ ~ui.email
  <2>1. UNCHANGED <<db, seen, told, net>>
    BY <1>6 DEF Reset!handleSubmit, Reset!handleOpenChange
  <2> QED
    BY <1>2, <1>4, <1>6, <2>1 DEF ResetInv, BoxOK
<1>7. CASE ~Reset!showRecaptcha
  <2>1. Reset!resetCaptcha /\ net' = [net EXCEPT !.timer = TRUE]
    BY <1>7 DEF Reset!handleSubmit, Reset!handleOpenChange
  <2>2. net' \in CaptchaCalls /\ net'.timer
    BY <2>1 DEF ResetInv, CaptchaCalls
  <2>3. seen' = [widgetId |-> 0, isRendered |-> FALSE, isInitializing |-> seen.isInitializing]
    BY <2>1 DEF Reset!resetCaptcha, Reset!Forgotten, ResetInv, CaptchaHook
  <2>4. seen' \in CaptchaHook
    BY <1>1, <2>3 DEF ResetInv, CaptchaHook
  <2>5. /\ db' \in [solved: SUBSET Reset!Widgets, rendered: CaptchaIds] /\ db'.rendered = db.rendered
        /\ told' \in [sent: SUBSET Reset!Widgets, disturbed: BOOLEAN]
        /\ told'.sent \subseteq told.sent /\ told'.disturbed = told.disturbed
    BY <2>1, ResetForgets DEF Reset!resetCaptcha
  <2>6. 0 \notin told'.sent /\ db.rendered >= 0
    BY <2>5, PagesAssumption DEF Reset!Widgets, CaptchaIds, ResetInv
  <2> QED
    BY <1>2, <1>4, <2>2, <2>3, <2>4, <2>5, <2>6 DEF ResetInv, BoxOK
<1> QED
  BY <1>5, <1>6, <1>7

\* The timer of the popover: the widget before is forgotten, if there is a container.
LEMMA ResetTimer == ASSUME ResetInv, Reset!Timer PROVE ResetInv'
<1>1. 0 \in CaptchaIds /\ ui' = ui
  BY PagesAssumption DEF CaptchaIds, Reset!Timer
<1>2. net' \in CaptchaCalls /\ ~net'.timer
  BY DEF ResetInv, CaptchaCalls, Reset!Timer, Reset!initializeRecaptcha, Reset!loadRecaptchaScript
<1>3. CASE seen.isInitializing \/ ~ui.box.there
  BY <1>1, <1>2, <1>3 DEF ResetInv, BoxOK, Reset!Timer, Reset!initializeRecaptcha
<1>4. CASE ~(seen.isInitializing \/ ~ui.box.there)
  <2>1. seen' = [widgetId |-> 0, isRendered |-> FALSE, isInitializing |-> TRUE]
    BY <1>4 DEF Reset!Timer, Reset!initializeRecaptcha, Reset!Forgotten, ResetInv, CaptchaHook
  <2>2. seen' \in CaptchaHook
    BY <1>1, <2>1 DEF CaptchaHook
  <2>3. /\ db' \in [solved: SUBSET Reset!Widgets, rendered: CaptchaIds] /\ db'.rendered = db.rendered
        /\ told' \in [sent: SUBSET Reset!Widgets, disturbed: BOOLEAN]
        /\ told'.sent \subseteq told.sent /\ told'.disturbed = told.disturbed
    BY <1>4, ResetForgets DEF Reset!Timer, Reset!initializeRecaptcha
  <2>4. 0 \notin told'.sent /\ db.rendered >= 0
    BY <2>3, PagesAssumption DEF Reset!Widgets, CaptchaIds, ResetInv
  <2>5. net.timer
    BY DEF Reset!Timer
  <2> QED
    BY <1>1, <1>2, <2>1, <2>2, <2>3, <2>4, <2>5 DEF ResetInv, BoxOK
<1> QED
  BY <1>3, <1>4

\* The script is there: the widget goes into an empty container.
LEMMA ResetRendered == ASSUME ResetInv, Reset!Rendered PROVE ResetInv'
<1>1. PICK n \in CaptchaIds : n = db.rendered
  BY DEF ResetInv
<1>2. MaxWidgets \in Nat /\ n + 1 \in Reset!Widgets /\ n + 1 \in CaptchaIds /\ n \in Nat
  BY <1>1, PagesAssumption DEF Reset!Rendered, Reset!Widgets, CaptchaIds
<1>3. seen.isInitializing /\ seen.widgetId = 0 /\ ~seen.isRendered /\ net' = net
  BY DEF ResetInv, Reset!Rendered
<1>4. CASE ui.box.there /\ ui.box.widget = 0
  <2>1. db' = [solved |-> db.solved, rendered |-> n + 1]
    BY <1>1, <1>3, <1>4 DEF Reset!Rendered, ResetInv
  <2>2. ui' = [ui EXCEPT !.box.widget = n + 1]
    BY <1>1, <1>3, <1>4 DEF Reset!Rendered
  <2>3. ui' \in CaptchaForm /\ ui'.box = [there |-> ui.box.there, widget |-> n + 1]
    BY <1>2, <2>2 DEF ResetInv, CaptchaForm
  <2>4. seen' = [widgetId |-> n + 1, isRendered |-> TRUE, isInitializing |-> FALSE]
    BY <1>1, <1>3, <1>4 DEF Reset!Rendered
  <2>5. told' = [sent |-> told.sent, disturbed |-> told.disturbed \/ net.timer]
    BY <1>3, <1>4 DEF Reset!Rendered, ResetInv, CaptchaCalls
  <2>6. told'.sent = told.sent /\ told'.disturbed \in BOOLEAN /\ (~told'.disturbed => ~net.timer)
    BY <2>5 DEF ResetInv, CaptchaCalls
  <2>7. \A w \in told.sent : w \in Nat /\ w <= n
    BY <1>1, <1>2 DEF ResetInv, Reset!Widgets
  <2>8. n + 1 \notin told.sent /\ n + 1 # 0 /\ n + 1 <= n + 1 /\ \A w \in told.sent : w <= n + 1
    BY <1>2, <2>7
  <2>9. told' \in [sent: SUBSET Reset!Widgets, disturbed: BOOLEAN]
    BY <2>5, <2>6 DEF ResetInv
  <2>10. db' \in [solved: SUBSET Reset!Widgets, rendered: CaptchaIds] /\ seen' \in CaptchaHook
    BY <1>2, <2>1, <2>4 DEF ResetInv, CaptchaHook
  <2>11. BoxOK(ui'.box, seen', net'.timer, told'.disturbed)
    BY <1>3, <2>3, <2>4, <2>6, <2>8 DEF BoxOK
  <2> QED
    BY <1>3, <2>1, <2>3, <2>4, <2>6, <2>8, <2>9, <2>10, <2>11 DEF ResetInv
<1>5. CASE ~(ui.box.there /\ ui.box.widget = 0)
  <2>1. UNCHANGED <<db, ui>> /\ seen' = [widgetId |-> 0, isRendered |-> FALSE, isInitializing |-> FALSE]
    BY <1>3, <1>5 DEF Reset!Rendered, ResetInv, CaptchaHook
  <2>2. told' = told
    BY <1>3, <1>5 DEF Reset!Rendered, ResetInv
  <2>3. seen' \in CaptchaHook /\ 0 \notin told.sent /\ seen'.widgetId <= db.rendered
    BY <1>1, <1>2, <2>1 DEF CaptchaHook, CaptchaIds, ResetInv, Reset!Widgets
  <2> QED
    BY <1>3, <1>5, <2>1, <2>2, <2>3 DEF ResetInv, BoxOK
<1> QED
  BY <1>4, <1>5

\* A step of the form.
LEMMA NextReset == ASSUME ResetInv, Reset!Next PROVE ResetInv'
BY ResetAround, ResetSubmit, ResetTimer, ResetRendered DEF Reset!Next, Reset!ResetPasswordPage, Reset!RecaptchaPopover

\* Only a token that was not sent is sent.
LEMMA ResetSends == ASSUME ResetInv, Reset!Next PROVE Reset!SendsAnother
<1>1. CASE Reset!handleVerify
  <2>1. net' = [net EXCEPT !.request = seen.widgetId] /\ ui.box.there
    BY <1>1 DEF Reset!handleVerify, Reset!getToken, Reset!handleVerifiedSubmit, Reset!showRecaptcha
  <2>2. net'.request = seen.widgetId
    BY <2>1 DEF ResetInv, CaptchaCalls
  <2> QED
    BY <2>1, <2>2 DEF ResetInv, Reset!SendsAnother
<1>2. CASE ~Reset!handleVerify
  <2>1. net'.request \in {None, net.request}
    BY <1>2 DEF ResetInv, CaptchaCalls, Reset!Next, Reset!ResetPasswordPage, Reset!RecaptchaPopover, Reset!EmailField,
      Reset!handleSubmit, Reset!CloseAlert, Reset!Dismiss, Reset!Timer, Reset!ScriptLoads, Reset!Rendered, Reset!Solve, Reset!Answered,
      Reset!handleOpenChange, Reset!initializeRecaptcha
  <2> QED
    BY <2>1 DEF Reset!SendsAnother
<1> QED
  BY <1>1, <1>2

----------------------------------------------------------------------------
(* The player of a video: the runs of its effect *)

PlayerSteps == {"import", "attach", "load", "tracks", "ready", "ended"}
PlayerRun ==
  [type: {"shaka", "vidstack"}, resumable: BOOLEAN, url: Videos, mount: Player!Run, step: PlayerSteps,
   over: BOOLEAN, late: BOOLEAN, from: {0, 1}]
PlayerElement == [ref: 0..MaxRuns, timer: 0..MaxRuns, shows: 0..MaxRuns, time: {0, 1}, menu: BOOLEAN]
PlayerScreen == [url: Videos, settings: Player!Settings, run: 0..MaxRuns]
PlayerAlive == [timers: SUBSET Player!Run, players: SUBSET Player!Run]

\* A component has one engine; all runs but the present one are over, and those that
\* were past the import and not ready then came late.
RunsOK(n, u) ==
  /\ n \in [Player!Run -> {Player!Unused} \cup PlayerRun] /\ u \in PlayerScreen
  /\ \A r \in Player!Run : n[r] # Player!Unused =>
       /\ n[n[r].mount] # Player!Unused /\ n[n[r].mount].type = n[r].type
       /\ IF r = u.run THEN ~n[r].over /\ ~n[r].late /\ n[r].type = u.settings.type ELSE n[r].over
       /\ n[r].over => n[r].late \/ n[r].step \in {"import", "ready", "ended"}
       /\ n[r].step \in {"attach", "load", "tracks"} => n[r].type = "shaka"
       /\ u.run # 0 => r <= u.run
  /\ u.run # 0 => n[u.run] # Player!Unused

DisturbedIn(n, r) ==
  \E x \in Player!Run : n[x] # Player!Unused /\ n[x].mount = n[r].mount /\ n[x].late /\ n[x].type = "shaka"

\* The references of an element are those of the run that set them.
RefsOK(row, e, r) ==
  /\ row.type = "shaka" /\ row.step \in {"load", "tracks", "ready"} => e.ref = r
  /\ row.step = "ready" /\ row.resumable => e.timer = r

\* What is alive is of the present run, or of a component where a run came late; the
\* references are of the present run, but there.
AliveOK(n, u, m, a) ==
  /\ a \in PlayerAlive
  /\ \A r \in a.players :
       /\ n[r] # Player!Unused /\ n[r].type = "shaka" /\ n[r].step \in {"attach", "load", "tracks", "ready"}
       /\ r = u.run \/ DisturbedIn(n, r)
  /\ \A r \in a.timers :
       /\ n[r] # Player!Unused /\ n[r].step = "ready" /\ n[r].resumable
       /\ r = u.run \/ DisturbedIn(n, r) \/ u.run = 0 \/ n[u.run].mount # n[r].mount
  /\ u.run # 0 => DisturbedIn(n, u.run) \/ RefsOK(n[u.run], m[n[u.run].mount], u.run)

\* A place that is to be taken up is stored.
PlaceOK(n, u, s) == u.run # 0 /\ n[u.run].from = 1 => n[u.run].resumable /\ s[n[u.run].url] = 1

PlayerInv ==
  /\ RunsOK(net, ui) /\ AliveOK(net, ui, seen, told) /\ PlaceOK(net, ui, db)
  /\ seen \in [Player!Run -> PlayerElement] /\ db \in [Videos -> {0, 1}]

\* A run that is used is one, and is of a component that was mounted.
LEMMA UsedRuns ==
  ASSUME RunsOK(net, ui), NEW r \in Player!Run, net[r] # Player!Unused
  PROVE  net[r] \in PlayerRun /\ net[r].mount \in Player!Run
BY DEF RunsOK, PlayerRun

LEMMA StepsAreUsed ==
  ASSUME NEW n \in [Player!Run -> {Player!Unused} \cup PlayerRun], NEW r \in Player!Run, n[r].step \in PlayerSteps
  PROVE  n[r] # Player!Unused
BY DEF Player!Unused, PlayerSteps

LEMMA UnusedIsNone == Player!Unused \notin PlayerRun
BY DEF Player!Unused, PlayerRun, PlayerSteps

\* What the player promises follows.
LEMMA PlayerMeaning == ASSUME PlayerInv PROVE Player!TypeOK /\ Player!NothingLeaks
<1>1. Player!TypeOK
  BY DEF PlayerInv, RunsOK, AliveOK, PlayerRun, PlayerElement, PlayerScreen, PlayerAlive, PlayerSteps, Player!TypeOK
<1>2. \A r \in Player!Run : DisturbedIn(net, r) => Player!Disturbed(r)
  BY DEF DisturbedIn, Player!Disturbed, Player!Used
<1>3. Player!NothingLeaks
  BY <1>2 DEF PlayerInv, AliveOK, PlayerAlive, Player!NothingLeaks
<1> QED
  BY <1>1, <1>3

\* At the start there is one run, of the default engine.
LEMMA InitPlayer == ASSUME Player!Init PROVE PlayerInv
<1>1. 1 \in Player!Run /\ MaxRuns \in Nat /\ 1 \in 0..MaxRuns /\ 0 \in 0..MaxRuns
  BY PagesAssumption DEF Player!Run
<1>2. PICK u \in Videos : ui = [url |-> u, settings |-> Player!NoSettings, run |-> 1]
  BY DEF Player!Init
<1>3. PICK first \in PlayerRun :
        first = [type |-> "shaka", resumable |-> FALSE, url |-> u, mount |-> 1,
                 step |-> "import", over |-> FALSE, late |-> FALSE, from |-> 0]
  BY <1>1, <1>2 DEF PlayerRun, PlayerSteps
<1>4. net = [r \in Player!Run |-> IF r = 1 THEN first ELSE Player!Unused]
  BY <1>2, <1>3 DEF Player!Init
<1>5. ui \in PlayerScreen /\ ui.run = 1 /\ ui.settings.type = "shaka"
  BY <1>1, <1>2 DEF PlayerScreen, Player!NoSettings, Player!Settings
<1>6. net[1] = first /\ \A r \in Player!Run : net[r] # Player!Unused => r = 1
  BY <1>1, <1>4
<1>7. RunsOK(net, ui)
  <2>1. net \in [Player!Run -> {Player!Unused} \cup PlayerRun]
    BY <1>3, <1>4
  <2>2. first # Player!Unused
    BY UnusedIsNone
  <2> QED
    BY <1>1, <1>3, <1>5, <1>6, <2>1, <2>2 DEF RunsOK
<1>8. seen \in [Player!Run -> PlayerElement] /\ db \in [Videos -> {0, 1}]
  BY <1>1 DEF Player!Init, Player!Element, PlayerElement
<1>9. AliveOK(net, ui, seen, told)
  BY <1>3, <1>5, <1>6 DEF Player!Init, AliveOK, PlayerAlive, RefsOK
<1>10. PlaceOK(net, ui, db)
  BY <1>3, <1>5, <1>6 DEF PlaceOK
<1> QED
  BY <1>7, <1>8, <1>9, <1>10 DEF PlayerInv

\* A run goes on: in another step, or with another place.
SameRun(p, q) ==
  /\ p.type = q.type /\ p.resumable = q.resumable /\ p.url = q.url /\ p.mount = q.mount
  /\ p.over = q.over /\ p.late = q.late

LEMMA RunMoves ==
  ASSUME RunsOK(net, ui), NEW r \in Player!Run, net[r] # Player!Unused, NEW q \in PlayerRun, SameRun(q, net[r]),
         net' = [net EXCEPT ![r] = q], ui' = ui,
         q.over => q.late \/ q.step \in {"import", "ready", "ended"},
         q.step \in {"attach", "load", "tracks"} => q.type = "shaka"
  PROVE  /\ RunsOK(net', ui')
         /\ \A x \in Player!Run : net'[x] = IF x = r THEN q ELSE net[x]
         /\ \A x \in Player!Run : net[x] # Player!Unused => net'[x] # Player!Unused /\ SameRun(net'[x], net[x])
         /\ \A x \in Player!Run : net[x] # Player!Unused => (DisturbedIn(net', x) <=> DisturbedIn(net, x))
<1>1. net \in [Player!Run -> {Player!Unused} \cup PlayerRun] /\ ui \in PlayerScreen
  BY DEF RunsOK
<1>2. \A x \in Player!Run : net'[x] = IF x = r THEN q ELSE net[x]
  BY <1>1
<1>3. q # Player!Unused
  BY UnusedIsNone
<1>4. \A x \in Player!Run : net'[x] # Player!Unused <=> net[x] # Player!Unused
  BY <1>2, <1>3
<1>5. \A x \in Player!Run : net[x] # Player!Unused => SameRun(net'[x], net[x])
  BY <1>2 DEF SameRun
<1>6. \A x \in Player!Run : net[x] # Player!Unused => (DisturbedIn(net', x) <=> DisturbedIn(net, x))
  BY <1>4, <1>5 DEF DisturbedIn, SameRun
<1>7. net' \in [Player!Run -> {Player!Unused} \cup PlayerRun]
  BY <1>1
<1>8. ASSUME NEW x \in Player!Run, net'[x] # Player!Unused
      PROVE  /\ net'[net'[x].mount] # Player!Unused /\ net'[net'[x].mount].type = net'[x].type
             /\ IF x = ui.run THEN ~net'[x].over /\ ~net'[x].late /\ net'[x].type = ui.settings.type ELSE net'[x].over
             /\ net'[x].over => net'[x].late \/ net'[x].step \in {"import", "ready", "ended"}
             /\ net'[x].step \in {"attach", "load", "tracks"} => net'[x].type = "shaka"
             /\ ui.run # 0 => x <= ui.run
  <2>1. net[x] # Player!Unused /\ SameRun(net'[x], net[x])
    BY <1>4, <1>5, <1>8
  <2>2. PICK m \in Player!Run : m = net[x].mount /\ net'[x].mount = m
    BY <2>1, UsedRuns DEF SameRun
  <2>3. net[m] # Player!Unused /\ net[m].type = net[x].type
    BY <2>1, <2>2 DEF RunsOK
  <2>4. net'[m] # Player!Unused /\ net'[m].type = net'[x].type
    BY <1>4, <1>5, <2>1, <2>3 DEF SameRun
  <2>5. IF x = ui.run THEN ~net'[x].over /\ ~net'[x].late /\ net'[x].type = ui.settings.type ELSE net'[x].over
    BY <2>1 DEF RunsOK, SameRun
  <2>6. /\ net'[x].over => net'[x].late \/ net'[x].step \in {"import", "ready", "ended"}
        /\ net'[x].step \in {"attach", "load", "tracks"} => net'[x].type = "shaka"
    BY <1>2, <2>1 DEF RunsOK
  <2>7. ui.run # 0 => x <= ui.run
    BY <2>1 DEF RunsOK
  <2> QED
    BY <2>2, <2>4, <2>5, <2>6, <2>7
<1>9. ui.run # 0 => net'[ui.run] # Player!Unused
  <2>1. ui.run # 0 => ui.run \in Player!Run
    BY <1>1, PagesAssumption DEF PlayerScreen, Player!Run
  <2> QED
    BY <1>4, <2>1 DEF RunsOK
<1>10. RunsOK(net', ui')
  BY <1>1, <1>7, <1>8, <1>9 DEF RunsOK
<1> QED
  BY <1>2, <1>4, <1>5, <1>6, <1>10

\* The present run is one.
LEMMA PresentRun == ASSUME RunsOK(net, ui), ui.run # 0 PROVE ui.run \in Player!Run /\ net[ui.run] # Player!Unused
BY PagesAssumption DEF RunsOK, PlayerScreen, Player!Run

\* What a run that goes on may do to what is alive and to the element of its component:
\* others may only if they came late.
GoesOn(r, q) ==
  /\ net' = [net EXCEPT ![r] = q] /\ ui' = ui /\ SameRun(q, net[r])
  /\ q.over => q.late \/ q.step \in {"import", "ready", "ended"}
  /\ q.step \in {"attach", "load", "tracks"} => q.type = "shaka"
  /\ told' \in PlayerAlive
  /\ told'.players \subseteq told.players \cup {r} /\ told'.timers \subseteq told.timers \cup {r}
  /\ r \in told'.players =>
       q.type = "shaka" /\ q.step \in {"attach", "load", "tracks", "ready"} /\ (r \in told.players \/ r = ui.run)
  /\ r \in told'.timers =>
       q.step = "ready" /\ q.resumable /\ (r \in told.timers \/ r = ui.run \/ (q.late /\ q.type = "shaka"))
  /\ \A m \in Player!Run \ {q.mount} : seen'[m] = seen[m]
  /\ IF r = ui.run THEN RefsOK(net[r], seen[q.mount], r) => RefsOK(q, seen'[q.mount], r)
     ELSE (q.late /\ q.type = "shaka") \/ seen' = seen

LEMMA AliveMoves ==
  ASSUME RunsOK(net, ui), AliveOK(net, ui, seen, told),
         NEW r \in Player!Run, net[r] # Player!Unused, NEW q \in PlayerRun, GoesOn(r, q)
  PROVE  AliveOK(net', ui', seen', told')
<1> USE DEF GoesOn
<1>1. /\ RunsOK(net', ui')
      /\ \A x \in Player!Run : net'[x] = IF x = r THEN q ELSE net[x]
      /\ \A x \in Player!Run : net[x] # Player!Unused => net'[x] # Player!Unused /\ SameRun(net'[x], net[x])
      /\ \A x \in Player!Run : net[x] # Player!Unused => (DisturbedIn(net', x) <=> DisturbedIn(net, x))
  BY RunMoves
<1>2. q.late /\ q.type = "shaka" => DisturbedIn(net', r)
  BY <1>1 DEF DisturbedIn
<1>3. ASSUME NEW x \in told'.players
      PROVE  /\ net'[x] # Player!Unused /\ net'[x].type = "shaka" /\ net'[x].step \in {"attach", "load", "tracks", "ready"}
             /\ x = ui.run \/ DisturbedIn(net', x)
  <2>1. x \in Player!Run
    BY DEF PlayerAlive
  <2>2. CASE x # r
    <3>1. x \in told.players /\ net'[x] = net[x]
      BY <1>1, <2>1, <2>2
    <3>2. /\ net[x] # Player!Unused /\ net[x].type = "shaka" /\ net[x].step \in {"attach", "load", "tracks", "ready"}
          /\ x = ui.run \/ DisturbedIn(net, x)
      BY <3>1 DEF AliveOK
    <3> QED
      BY <1>1, <2>1, <3>1, <3>2
  <2>3. CASE x = r
    <3>1. r = ui.run \/ DisturbedIn(net, r)
      BY <2>3 DEF AliveOK
    <3> QED
      BY <1>1, <2>1, <2>3, <3>1
  <2> QED
    BY <2>2, <2>3
<1>4. ASSUME NEW x \in told'.timers
      PROVE  /\ net'[x] # Player!Unused /\ net'[x].step = "ready" /\ net'[x].resumable
             /\ x = ui.run \/ DisturbedIn(net', x) \/ ui.run = 0 \/ net'[ui.run].mount # net'[x].mount
  <2>1. x \in Player!Run
    BY DEF PlayerAlive
  <2>2. ui.run # 0 => net'[ui.run].mount = net[ui.run].mount
    BY <1>1, PresentRun DEF SameRun
  <2>3. CASE x # r
    <3>1. x \in told.timers /\ net'[x] = net[x]
      BY <1>1, <2>1, <2>3
    <3>2. /\ net[x] # Player!Unused /\ net[x].step = "ready" /\ net[x].resumable
          /\ x = ui.run \/ DisturbedIn(net, x) \/ ui.run = 0 \/ net[ui.run].mount # net[x].mount
      BY <3>1 DEF AliveOK
    <3> QED
      BY <1>1, <2>1, <2>2, <3>1, <3>2
  <2>4. CASE x = r
    <3>1. net'[x] = q /\ q.mount = net[x].mount /\ net'[x] # Player!Unused
      BY <1>1, <2>1, <2>4 DEF SameRun
    <3>2. q.step = "ready" /\ q.resumable /\ (r \in told.timers \/ r = ui.run \/ (q.late /\ q.type = "shaka"))
      BY <2>4
    <3>3. CASE r \in told.timers
      <4>1. r = ui.run \/ DisturbedIn(net, r) \/ ui.run = 0 \/ net[ui.run].mount # net[r].mount
        BY <3>3 DEF AliveOK
      <4> QED
        BY <1>1, <2>1, <2>2, <2>4, <3>1, <3>2, <4>1
    <3> QED
      BY <1>2, <2>4, <3>1, <3>2, <3>3
  <2> QED
    BY <2>3, <2>4
<1>5. ASSUME ui.run # 0
      PROVE  DisturbedIn(net', ui.run) \/ RefsOK(net'[ui.run], seen'[net'[ui.run].mount], ui.run)
  <2>1. PICK c \in Player!Run : c = ui.run /\ net[c] # Player!Unused
    BY <1>5, PresentRun
  <2>2. PICK m \in Player!Run : m = net[c].mount /\ net'[c].mount = m
    BY <1>1, <2>1, UsedRuns DEF SameRun
  <2>3. DisturbedIn(net, c) \/ RefsOK(net[c], seen[m], c)
    BY <1>5, <2>1, <2>2 DEF AliveOK
  <2>4. CASE c = r
    <3>1. net'[c] = q /\ m = q.mount
      BY <1>1, <2>1, <2>2, <2>4
    <3>2. RefsOK(net[c], seen[m], c) => RefsOK(q, seen'[m], c)
      BY <2>1, <2>4, <3>1
    <3>3. DisturbedIn(net, c) => DisturbedIn(net', c)
      BY <1>1, <2>1
    <3> QED
      BY <2>1, <2>2, <2>3, <3>1, <3>2, <3>3
  <2>5. CASE c # r /\ m # q.mount
    <3>1. net'[c] = net[c] /\ seen'[m] = seen[m]
      BY <1>1, <2>1, <2>2, <2>5
    <3>2. DisturbedIn(net, c) => DisturbedIn(net', c)
      BY <1>1, <2>1
    <3> QED
      BY <2>1, <2>2, <2>3, <3>1, <3>2
  <2>6. CASE c # r /\ m = q.mount
    <3>1. CASE q.late /\ q.type = "shaka"
      <4>1. DisturbedIn(net', c)
        BY <1>1, <2>1, <2>2, <2>6, <3>1 DEF DisturbedIn
      <4> QED
        BY <2>1, <4>1
    <3>2. CASE seen' = seen
      BY <1>1, <2>1, <2>2, <2>3, <2>6, <3>2
    <3> QED
      BY <2>1, <2>6, <3>1, <3>2
  <2> QED
    BY <2>4, <2>5, <2>6
<1>6. PICK n, m, a : n = net' /\ m = seen' /\ a = told'
  OBVIOUS
<1>7. AliveOK(n, ui, m, a)
  <2>1. \A x \in a.players :
          /\ n[x] # Player!Unused /\ n[x].type = "shaka" /\ n[x].step \in {"attach", "load", "tracks", "ready"}
          /\ x = ui.run \/ DisturbedIn(n, x)
    BY <1>3, <1>6
  <2>2. \A x \in a.timers :
          /\ n[x] # Player!Unused /\ n[x].step = "ready" /\ n[x].resumable
          /\ x = ui.run \/ DisturbedIn(n, x) \/ ui.run = 0 \/ n[ui.run].mount # n[x].mount
    BY <1>4, <1>6
  <2>3. ui.run # 0 => DisturbedIn(n, ui.run) \/ RefsOK(n[ui.run], m[n[ui.run].mount], ui.run)
    BY <1>5, <1>6
  <2> QED
    BY <1>6, <2>1, <2>2, <2>3 DEF AliveOK
<1>8. AliveOK(net', ui, seen', told')
  BY <1>6, <1>7, Zenon
<1> QED
  BY <1>8, Zenon

LEMMA PlayerMoves ==
  ASSUME PlayerInv, NEW r \in Player!Run, net[r] # Player!Unused, NEW q \in PlayerRun, GoesOn(r, q),
         seen' \in [Player!Run -> PlayerElement], db' \in [Videos -> {0, 1}], q.from \in {0, net[r].from},
         (r = ui.run /\ q.from = 0) \/ \A u \in Videos : db[u] = 1 => db'[u] = 1
  PROVE  PlayerInv'
<1>1. RunsOK(net, ui) /\ AliveOK(net, ui, seen, told) /\ PlaceOK(net, ui, db)
  BY DEF PlayerInv
<1>2. ui' = ui /\ AliveOK(net', ui', seen', told')
  BY <1>1, AliveMoves DEF GoesOn
<1>3. /\ RunsOK(net', ui')
      /\ \A x \in Player!Run : net'[x] = IF x = r THEN q ELSE net[x]
      /\ \A x \in Player!Run : net[x] # Player!Unused => net'[x] # Player!Unused /\ SameRun(net'[x], net[x])
  BY <1>1, RunMoves DEF GoesOn
<1>4. PlaceOK(net', ui', db')
  <2> SUFFICES ASSUME ui.run # 0, net'[ui.run].from = 1
               PROVE  net'[ui.run].resumable /\ db'[net'[ui.run].url] = 1
    BY <1>2 DEF PlaceOK
  <2>1. PICK c \in Player!Run : c = ui.run /\ net[c] # Player!Unused
    BY <1>1, PresentRun
  <2>2. net[c].from = 1 /\ \A u \in Videos : db[u] = 1 => db'[u] = 1
    BY <1>3, <2>1
  <2>3. net[c].resumable /\ db[net[c].url] = 1 /\ net[c].url \in Videos
    BY <1>1, <2>1, <2>2, UsedRuns DEF PlaceOK, PlayerRun
  <2>4. net'[c].resumable = net[c].resumable /\ net'[c].url = net[c].url
    BY <1>3, <2>1 DEF SameRun
  <2> QED
    BY <2>1, <2>2, <2>3, <2>4
<1> QED
  BY <1>2, <1>3, <1>4 DEF PlayerInv

\* A step of a run.
LEMMA StepRow ==
  ASSUME RunsOK(net, ui), NEW r \in Player!Run, net[r] # Player!Unused, NEW s \in PlayerSteps
  PROVE  \E q \in PlayerRun : /\ q.step = s /\ SameRun(q, net[r]) /\ q.from = net[r].from
                              /\ [net EXCEPT ![r].step = s] = [net EXCEPT ![r] = q]
<1>1. PICK q : q = [net[r] EXCEPT !.step = s]
  OBVIOUS
<1>2. net[r] \in PlayerRun
  BY UsedRuns
<1>3. q \in PlayerRun /\ q.step = s /\ SameRun(q, net[r]) /\ q.from = net[r].from
  BY <1>1, <1>2 DEF PlayerRun, SameRun
<1>4. [net EXCEPT ![r].step = s] = [net EXCEPT ![r] = q]
  BY <1>1
<1> QED
  BY <1>3, <1>4

\* Shaka is there: the run goes on if it is not over.
LEMMA PlayerImports == ASSUME PlayerInv, NEW r \in Player!Run, Player!ShakaImported(r) PROVE PlayerInv'
<1>1. /\ net[r] # Player!Unused /\ net[r].type = "shaka" /\ net[r].step = "import"
      /\ UNCHANGED <<ui, seen, db>>
  BY DEF Player!ShakaImported
<1>2. RunsOK(net, ui) /\ AliveOK(net, ui, seen, told)
  BY DEF PlayerInv
<1>3. (~net[r].over => r = ui.run) /\ net[r] \in PlayerRun
  BY <1>1, <1>2, UsedRuns DEF RunsOK
<1>4. r \notin told.players /\ r \notin told.timers /\ told \in PlayerAlive
  BY <1>1, <1>2 DEF AliveOK
<1>5. CASE net' = [net EXCEPT ![r].step = "ended"] /\ told' = told
  <2>1. PICK q \in PlayerRun : /\ q.step = "ended" /\ SameRun(q, net[r]) /\ q.from = net[r].from
                               /\ net' = [net EXCEPT ![r] = q]
    BY <1>1, <1>2, <1>5, StepRow DEF PlayerSteps
  <2>2. GoesOn(r, q)
    BY <1>1, <1>3, <1>4, <1>5, <2>1 DEF GoesOn, SameRun, RefsOK
  <2> QED
    BY <1>1, <2>1, <2>2, PlayerMoves DEF PlayerInv
<1>6. CASE net' = [net EXCEPT ![r].step = "attach"] /\ told' = [told EXCEPT !.players = @ \cup {r}] /\ ~net[r].over
  <2>1. PICK q \in PlayerRun : /\ q.step = "attach" /\ SameRun(q, net[r]) /\ q.from = net[r].from
                               /\ net' = [net EXCEPT ![r] = q]
    BY <1>1, <1>2, <1>6, StepRow DEF PlayerSteps
  <2>2. told' = [timers |-> told.timers, players |-> told.players \cup {r}]
    BY <1>4, <1>6 DEF PlayerAlive
  <2>4. told' \in PlayerAlive /\ told'.players = told.players \cup {r} /\ told'.timers = told.timers
    BY <1>4, <2>2 DEF PlayerAlive
  <2>5. r = ui.run /\ ~q.over /\ q.type = "shaka"
    BY <1>1, <1>3, <1>6, <2>1 DEF SameRun
  <2>3. GoesOn(r, q)
    BY <1>1, <1>4, <2>1, <2>4, <2>5 DEF GoesOn, RefsOK
  <2> QED
    BY <1>1, <2>1, <2>3, PlayerMoves DEF PlayerInv
<1> QED
  BY <1>5, <1>6 DEF Player!ShakaImported

\* The player is attached: playerRef holds it.
LEMMA PlayerAttaches == ASSUME PlayerInv, NEW r \in Player!Run, Player!Attached(r) PROVE PlayerInv'
<1>1. RunsOK(net, ui) /\ AliveOK(net, ui, seen, told) /\ seen \in [Player!Run -> PlayerElement]
  BY DEF PlayerInv
<1>2. net[r].step = "attach" /\ net[r] # Player!Unused /\ UNCHANGED <<ui, told, db>>
  BY <1>1, StepsAreUsed DEF Player!Attached, RunsOK, PlayerSteps
<1>3. /\ net[r].over => net[r].late
      /\ r # ui.run => net[r].over
      /\ net[r].type = "shaka"
  BY <1>1, <1>2 DEF RunsOK
<1>4. PICK m \in Player!Run : m = net[r].mount
  BY <1>1, <1>2, UsedRuns
<1>5. PICK q \in PlayerRun : /\ q.step = "load" /\ SameRun(q, net[r]) /\ q.from = net[r].from
                             /\ net' = [net EXCEPT ![r] = q]
  BY <1>1, <1>2, StepRow DEF Player!Attached, PlayerSteps
<1>6. seen' = [seen EXCEPT ![m] = [@ EXCEPT !.ref = r, !.menu = FALSE]]
  BY <1>4 DEF Player!Attached, Player!cleanupCaptionMenu
<1>7. PICK e \in PlayerElement : e.ref = r /\ seen' = [seen EXCEPT ![m] = e]
  <2>1. PICK e : e = [seen[m] EXCEPT !.ref = r, !.menu = FALSE]
    OBVIOUS
  <2>2. seen[m] \in PlayerElement /\ r \in 0..MaxRuns
    BY <1>1, PagesAssumption DEF Player!Run
  <2>3. e \in PlayerElement /\ e.ref = r
    BY <2>1, <2>2 DEF PlayerElement
  <2> QED
    BY <1>6, <2>1, <2>3
<1>8. seen' \in [Player!Run -> PlayerElement] /\ seen'[m] = e /\ \A x \in Player!Run \ {m} : seen'[x] = seen[x]
  BY <1>1, <1>7
<1>9. told \in PlayerAlive /\ r \notin told.timers
  BY <1>1, <1>2 DEF AliveOK
<1>10. GoesOn(r, q)
  BY <1>2, <1>3, <1>4, <1>5, <1>7, <1>8, <1>9 DEF GoesOn, SameRun, RefsOK
<1> QED
  BY <1>2, <1>5, <1>8, <1>10, PlayerMoves DEF PlayerInv

\* The video plays.
LEMMA PlayerLoads == ASSUME PlayerInv, NEW r \in Player!Run, Player!Loaded(r) PROVE PlayerInv'
<1>1. RunsOK(net, ui) /\ AliveOK(net, ui, seen, told) /\ seen \in [Player!Run -> PlayerElement]
  BY DEF PlayerInv
<1>2. net[r].step = "load" /\ net[r] # Player!Unused /\ UNCHANGED <<ui, told, db>>
  BY <1>1, StepsAreUsed DEF Player!Loaded, RunsOK, PlayerSteps
<1>3. /\ net[r].over => net[r].late
      /\ r # ui.run => net[r].over
      /\ net[r].type = "shaka"
  BY <1>1, <1>2 DEF RunsOK
<1>4. PICK m \in Player!Run : m = net[r].mount
  BY <1>1, <1>2, UsedRuns
<1>5. PICK q \in PlayerRun : /\ q.step = "tracks" /\ SameRun(q, net[r]) /\ q.from = net[r].from
                             /\ net' = [net EXCEPT ![r] = q]
  BY <1>1, <1>2, StepRow DEF Player!Loaded, PlayerSteps
<1>6. seen' = [seen EXCEPT ![m] = [@ EXCEPT !.shows = r, !.time = 0]]
  BY <1>4 DEF Player!Loaded
<1>7. PICK e \in PlayerElement : e.ref = seen[m].ref /\ seen' = [seen EXCEPT ![m] = e]
  <2>1. PICK e : e = [seen[m] EXCEPT !.shows = r, !.time = 0]
    OBVIOUS
  <2>2. seen[m] \in PlayerElement /\ r \in 0..MaxRuns
    BY <1>1, PagesAssumption DEF Player!Run
  <2>3. e \in PlayerElement /\ e.ref = seen[m].ref
    BY <2>1, <2>2 DEF PlayerElement
  <2> QED
    BY <1>6, <2>1, <2>3
<1>8. seen' \in [Player!Run -> PlayerElement] /\ seen'[m] = e /\ \A x \in Player!Run \ {m} : seen'[x] = seen[x]
  BY <1>1, <1>7
<1>9. told \in PlayerAlive /\ r \notin told.timers
  BY <1>1, <1>2 DEF AliveOK
<1>10. GoesOn(r, q)
  BY <1>2, <1>3, <1>4, <1>5, <1>7, <1>8, <1>9 DEF GoesOn, SameRun, RefsOK
<1> QED
  BY <1>2, <1>5, <1>8, <1>10, PlayerMoves DEF PlayerInv

\* The element names the interval of the run that got ready last.
LEMMA PlayerReady ==
  ASSUME PlayerInv, NEW r \in Player!Run, NEW resumes \in BOOLEAN,
         net[r].step \in {"load", "tracks"}, Player!BecomesReady(r, resumes)
  PROVE  PlayerInv'
<1>1. RunsOK(net, ui) /\ AliveOK(net, ui, seen, told) /\ seen \in [Player!Run -> PlayerElement]
  BY DEF PlayerInv
<1>2. net[r] # Player!Unused /\ UNCHANGED <<ui, db>>
  BY <1>1, StepsAreUsed DEF Player!BecomesReady, RunsOK, PlayerSteps
<1>3. /\ net[r].over => net[r].late
      /\ r # ui.run => net[r].over
      /\ net[r].type = "shaka" /\ net[r].resumable \in BOOLEAN
  BY <1>1, <1>2, UsedRuns DEF RunsOK, PlayerRun
<1>4. PICK m \in Player!Run : m = net[r].mount
  BY <1>1, <1>2, UsedRuns
<1>5. PICK q \in PlayerRun : /\ q.step = "ready" /\ SameRun(q, net[r]) /\ q.from = net[r].from
                             /\ net' = [net EXCEPT ![r] = q]
  BY <1>1, <1>2, StepRow DEF Player!BecomesReady, PlayerSteps
<1>7. PICK e \in PlayerElement : e.ref = seen[m].ref /\ (net[r].resumable => e.timer = r) /\ seen' = [seen EXCEPT ![m] = e]
  <2>1. PICK time : time = IF resumes /\ net[r].resumable /\ Player!getPlaybackPosition(net[r].url) = 1
                            THEN 1 ELSE seen[net[r].mount].time
    OBVIOUS
  <2>2. PICK timer : timer = IF net[r].resumable THEN r ELSE seen[net[r].mount].timer
    OBVIOUS
  <2>3. PICK e : e = [seen[net[r].mount] EXCEPT !.time = time, !.timer = timer]
    OBVIOUS
  <2>4. seen' = [seen EXCEPT ![net[r].mount] = e]
    BY <2>1, <2>2, <2>3 DEF Player!BecomesReady, Player!Of
  <2>5. seen[m] \in PlayerElement /\ r \in 0..MaxRuns
    BY <1>1, PagesAssumption DEF Player!Run
  <2>6. time \in {0, 1} /\ timer \in 0..MaxRuns
    BY <1>4, <2>1, <2>2, <2>5 DEF PlayerElement
  <2>7. e \in PlayerElement /\ e.ref = seen[m].ref /\ e.timer = timer
    BY <1>4, <2>3, <2>5, <2>6 DEF PlayerElement
  <2> QED
    BY <1>4, <2>2, <2>4, <2>7
<1>8. seen' \in [Player!Run -> PlayerElement] /\ seen'[m] = e /\ \A x \in Player!Run \ {m} : seen'[x] = seen[x]
  BY <1>1, <1>7
<1>9. /\ told' \in PlayerAlive /\ told'.players = told.players
      /\ told'.timers = IF net[r].resumable THEN told.timers \cup {r} ELSE told.timers
  BY <1>1 DEF AliveOK, PlayerAlive, Player!BecomesReady
<1>11. r \notin told.timers
  BY <1>1 DEF AliveOK
<1>12. q.type = "shaka" /\ q.resumable = net[r].resumable /\ q.mount = m /\ (r # ui.run => q.late)
  BY <1>3, <1>4, <1>5 DEF SameRun
<1>13. RefsOK(net[r], seen[m], r) => RefsOK(q, seen'[m], r)
  BY <1>3, <1>5, <1>7, <1>8, <1>12 DEF RefsOK
<1>14. r \in told.players => r \in told'.players
  BY <1>9
<1>10. GoesOn(r, q)
  BY <1>2, <1>5, <1>8, <1>9, <1>11, <1>12, <1>13 DEF GoesOn
<1> QED
  BY <1>2, <1>5, <1>8, <1>10, PlayerMoves DEF PlayerInv

\* Vidstack is there: its elements are built unless the run is over.
LEMMA PlayerVidstack == ASSUME PlayerInv, NEW r \in Player!Run, Player!VidstackImported(r) PROVE PlayerInv'
<1>1. /\ net[r] # Player!Unused /\ net[r].type = "vidstack" /\ net[r].step = "import"
      /\ UNCHANGED <<ui, db>>
  BY DEF Player!VidstackImported
<1>2. RunsOK(net, ui) /\ AliveOK(net, ui, seen, told) /\ seen \in [Player!Run -> PlayerElement] /\ db \in [Videos -> {0, 1}]
  BY DEF PlayerInv
<1>3. (~net[r].over => r = ui.run) /\ net[r] \in PlayerRun
  BY <1>1, <1>2, UsedRuns DEF RunsOK
<1>4. r \notin told.players /\ r \notin told.timers /\ told \in PlayerAlive
  BY <1>1, <1>2 DEF AliveOK
<1>5. CASE net[r].over
  <2>1. net' = [net EXCEPT ![r].step = "ended"] /\ UNCHANGED <<seen, told>>
    BY <1>5 DEF Player!VidstackImported
  <2>2. PICK q \in PlayerRun : /\ q.step = "ended" /\ SameRun(q, net[r]) /\ q.from = net[r].from
                               /\ net' = [net EXCEPT ![r] = q]
    BY <1>1, <1>2, <2>1, StepRow DEF PlayerSteps
  <2>3. GoesOn(r, q)
    BY <1>1, <1>3, <1>4, <2>1, <2>2 DEF GoesOn, SameRun, RefsOK
  <2> QED
    BY <1>1, <2>1, <2>2, <2>3, PlayerMoves DEF PlayerInv
<1>6. CASE ~net[r].over
  <2>1. PICK there \in BOOLEAN :
          /\ net' = [net EXCEPT ![r].step = "ready"]
          /\ seen' = [seen EXCEPT ![net[r].mount] =
                [Player!Element EXCEPT !.timer = IF net[r].resumable THEN r ELSE 0, !.shows = r,
                   !.time = IF there /\ net[r].resumable THEN Player!getPlaybackPosition(net[r].url) ELSE 0]]
          /\ told' = IF net[r].resumable THEN [told EXCEPT !.timers = @ \cup {r}] ELSE told
    BY <1>6 DEF Player!VidstackImported
  <2>2. PICK q \in PlayerRun : /\ q.step = "ready" /\ SameRun(q, net[r]) /\ q.from = net[r].from
                               /\ net' = [net EXCEPT ![r] = q]
    BY <1>1, <1>2, <2>1, StepRow DEF PlayerSteps
  <2>3. PICK m \in Player!Run : m = net[r].mount
    BY <1>3 DEF PlayerRun
  <2>4. PICK e \in PlayerElement : (net[r].resumable => e.timer = r) /\ seen' = [seen EXCEPT ![m] = e]
    <3>1. PICK time \in {0, 1} : time = IF there /\ net[r].resumable THEN Player!getPlaybackPosition(net[r].url) ELSE 0
      BY <1>2, <1>3 DEF Player!getPlaybackPosition, PlayerRun
    <3>2. PICK timer \in 0..MaxRuns : timer = IF net[r].resumable THEN r ELSE 0
      BY PagesAssumption DEF Player!Run
    <3>3. PICK e : e = [Player!Element EXCEPT !.timer = timer, !.shows = r, !.time = time]
      OBVIOUS
    <3>4. e = [ref |-> 0, timer |-> timer, shows |-> r, time |-> time, menu |-> FALSE]
      BY <3>3 DEF Player!Element
    <3>5. 0 \in 0..MaxRuns /\ r \in 0..MaxRuns
      BY PagesAssumption DEF Player!Run
    <3>6. e \in PlayerElement /\ e.timer = timer
      BY <3>4, <3>5 DEF PlayerElement
    <3> QED
      BY <2>1, <2>3, <3>1, <3>2, <3>3, <3>6
  <2>5. seen' \in [Player!Run -> PlayerElement] /\ seen'[m] = e /\ \A x \in Player!Run \ {m} : seen'[x] = seen[x]
    BY <1>2, <2>4
  <2>6. /\ told' \in PlayerAlive /\ told'.players = told.players
        /\ told'.timers = IF net[r].resumable THEN told.timers \cup {r} ELSE told.timers
    BY <1>4, <2>1 DEF PlayerAlive
  <2>7. q.type = "vidstack" /\ q.resumable = net[r].resumable /\ q.mount = m /\ ~q.over /\ r = ui.run
    BY <1>1, <1>3, <1>6, <2>2, <2>3 DEF SameRun
  <2>8. GoesOn(r, q)
    BY <1>1, <1>4, <2>2, <2>4, <2>5, <2>6, <2>7 DEF GoesOn, RefsOK
  <2> QED
    BY <1>1, <2>2, <2>5, <2>8, PlayerMoves DEF PlayerInv
<1> QED
  BY <1>5, <1>6

\* What the user and the intervals do.
LEMMA PlayerPlays ==
  ASSUME PlayerInv, Player!Watch \/ Player!Paused \/ Player!Ended  PROVE PlayerInv'
<1>1. RunsOK(net, ui) /\ AliveOK(net, ui, seen, told) /\ seen \in [Player!Run -> PlayerElement] /\ db \in [Videos -> {0, 1}]
  BY DEF PlayerInv
<1>2. ui.run # 0 /\ UNCHANGED <<ui, told>> /\ net' = [net EXCEPT ![ui.run].from = 0]
  BY DEF Player!Watch, Player!Paused, Player!Ended
<1>3. PICK r \in Player!Run : r = ui.run /\ net[r] # Player!Unused
  BY <1>1, <1>2, PresentRun
<1>4. PICK q \in PlayerRun : /\ SameRun(q, net[r]) /\ q.from = 0 /\ q.step = net[r].step
                             /\ net' = [net EXCEPT ![r] = q]
  <2>1. net[r] \in PlayerRun
    BY <1>1, <1>3, UsedRuns
  <2>2. PICK q : q = [net[r] EXCEPT !.from = 0]
    OBVIOUS
  <2>3. q \in PlayerRun /\ SameRun(q, net[r]) /\ q.from = 0 /\ q.step = net[r].step
    BY <2>1, <2>2 DEF PlayerRun, SameRun
  <2> QED
    BY <1>2, <1>3, <2>2, <2>3
<1>5. PICK m \in Player!Run : m = net[r].mount
  BY <1>1, <1>3, UsedRuns
<1>6. \A time \in {0, 1}, x \in Player!Run : Player!Heard(x, time) \in [Videos -> {0, 1}]
  BY <1>1 DEF Player!Heard
<1>7. /\ seen' \in [Player!Run -> PlayerElement] /\ db' \in [Videos -> {0, 1}]
      /\ \A x \in Player!Run \ {m} : seen'[x] = seen[x]
      /\ seen'[m].ref = seen[m].ref /\ seen'[m].timer = seen[m].timer
  <2>1. CASE Player!Watch
    <3>1. seen' = [seen EXCEPT ![m].time = 1 - @] /\ db' = db
      BY <1>3, <1>5, <2>1 DEF Player!Watch
    <3>2. PICK e : e = [seen[m] EXCEPT !.time = 1 - @]
      OBVIOUS
    <3>3. seen[m] \in PlayerElement /\ 1 - seen[m].time \in {0, 1}
      BY <1>1 DEF PlayerElement
    <3>4. e \in PlayerElement /\ e.ref = seen[m].ref /\ e.timer = seen[m].timer
      BY <3>2, <3>3 DEF PlayerElement
    <3>5. seen' = [seen EXCEPT ![m] = e]
      BY <3>1, <3>2
    <3> QED
      BY <1>1, <3>1, <3>4, <3>5
  <2>2. CASE Player!Paused
    <3>1. seen[m].time \in {0, 1} /\ db' = Player!Heard(m, seen[m].time) /\ seen' = seen
      BY <1>1, <1>3, <1>5, <2>2 DEF Player!Paused, Player!Of, PlayerElement
    <3> QED
      BY <1>1, <1>6, <3>1
  <2>3. CASE Player!Ended
    <3>1. db' = Player!Heard(m, 0) /\ seen' = seen
      BY <1>3, <1>5, <2>3 DEF Player!Ended
    <3> QED
      BY <1>1, <1>6, <3>1
  <2> QED
    BY <2>1, <2>2, <2>3
<1>8. /\ q.type = net[r].type /\ q.resumable = net[r].resumable /\ q.mount = m /\ q.over = net[r].over /\ q.late = net[r].late
      /\ (net[r].over => net[r].late \/ net[r].step \in {"import", "ready", "ended"})
      /\ (net[r].step \in {"attach", "load", "tracks"} => net[r].type = "shaka")
  BY <1>1, <1>3, <1>4, <1>5 DEF SameRun, RunsOK
<1>9. /\ r \in told.players => net[r].type = "shaka" /\ net[r].step \in {"attach", "load", "tracks", "ready"}
      /\ r \in told.timers => net[r].step = "ready" /\ net[r].resumable
      /\ told \in PlayerAlive
  BY <1>1 DEF AliveOK
<1>10. GoesOn(r, q)
  BY <1>2, <1>3, <1>4, <1>7, <1>8, <1>9 DEF GoesOn, RefsOK
<1> QED
  BY <1>3, <1>4, <1>7, <1>10, PlayerMoves

LEMMA PlayerTicks == ASSUME PlayerInv, NEW r \in Player!Run, Player!Tick(r) PROVE PlayerInv'
<1>1. RunsOK(net, ui) /\ AliveOK(net, ui, seen, told) /\ PlaceOK(net, ui, db) /\ db \in [Videos -> {0, 1}]
  BY DEF PlayerInv
<1>2. UNCHANGED <<ui, net, seen, told>> /\ db' = [db EXCEPT ![net[r].url] = 1]
  BY DEF Player!Tick, Player!savePlaybackPosition
<1>3. db' \in [Videos -> {0, 1}] /\ \A u \in Videos : db[u] = 1 => db'[u] = 1
  BY <1>1, <1>2
<1>4. ui.run # 0 => net[ui.run].url \in Videos
  BY <1>1, PresentRun, UsedRuns DEF PlayerRun
<1>5. PlaceOK(net, ui, db')
  BY <1>1, <1>3, <1>4 DEF PlaceOK
<1> QED
  BY <1>1, <1>2, <1>3, <1>5 DEF PlayerInv

\* What the cleanups take away: the interval the element names, the player playerRef
\* holds, or both; and the place is saved.
LEMMA PlayerCleans ==
  ASSUME PlayerInv, NEW r \in Player!Run, net[r] # Player!Unused, NEW m \in Player!Run, m = net[r].mount,
         Player!CleanUp(r) \/ Player!VidstackCleanUp(r) \/ Player!UnmountCleanUp(r)
  PROVE  /\ seen' \in [Player!Run -> PlayerElement] /\ db' \in [Videos -> {0, 1}] /\ told' \in PlayerAlive
         /\ told'.players \subseteq told.players /\ told'.timers \subseteq told.timers
         /\ Player!CleanUp(r) \/ Player!UnmountCleanUp(r) => seen[m].ref \notin told'.players
         /\ Player!CleanUp(r) \/ Player!VidstackCleanUp(r) => seen[m].timer \notin told'.timers
         /\ Player!CleanUp(r) /\ net[r].resumable /\ seen[m].time = 1 => db'[net[r].url] = 1
<1>1. /\ seen \in [Player!Run -> PlayerElement] /\ seen[m] \in PlayerElement /\ Player!Of(r) = seen[m]
      /\ db \in [Videos -> {0, 1}] /\ told \in PlayerAlive /\ net[r] \in PlayerRun /\ 0 \in 0..MaxRuns
  BY UsedRuns, PagesAssumption DEF PlayerInv, AliveOK, Player!Of
<1>2. net[r].url \in Videos
  BY <1>1 DEF PlayerRun
<1>3. /\ Player!savePosition(r) \in [Videos -> {0, 1}]
      /\ net[r].resumable /\ seen[m].time = 1 => Player!savePosition(r)[net[r].url] = 1
  BY <1>1, <1>2 DEF Player!savePosition, Player!savePlaybackPosition
<1>4. CASE Player!CleanUp(r)
  <2>1. PICK shows \in 0..MaxRuns : shows = IF seen[m].shows = seen[m].ref THEN 0 ELSE seen[m].shows
    BY <1>1 DEF PlayerElement
  <2>2. PICK time \in {0, 1} : time = IF seen[m].shows = seen[m].ref THEN 0 ELSE seen[m].time
    BY <1>1 DEF PlayerElement
  <2>3. PICK e : e = [seen[m] EXCEPT !.ref = 0, !.shows = shows, !.time = time]
    OBVIOUS
  <2>4. e \in PlayerElement
    BY <1>1, <2>3 DEF PlayerElement
  <2>5. seen' = [seen EXCEPT ![m] = e]
    BY <1>1, <1>4, <2>1, <2>2, <2>3 DEF Player!CleanUp
  <2>6. told' = [timers |-> told.timers \ {seen[m].timer}, players |-> told.players \ {seen[m].ref}]
    BY <1>1, <1>4 DEF Player!CleanUp
  <2>7. db' = Player!savePosition(r)
    BY <1>4 DEF Player!CleanUp
  <2>8. /\ told' \in PlayerAlive /\ told'.players = told.players \ {seen[m].ref}
        /\ told'.timers = told.timers \ {seen[m].timer}
    BY <1>1, <2>6 DEF PlayerAlive
  <2> QED
    BY <1>1, <1>3, <2>4, <2>5, <2>7, <2>8
<1>5. CASE ~Player!CleanUp(r) /\ Player!VidstackCleanUp(r)
  <2>1. Player!Element \in PlayerElement
    BY <1>1 DEF Player!Element, PlayerElement
  <2>2. seen' = [seen EXCEPT ![m] = Player!Element] /\ db' = Player!savePosition(r)
    BY <1>5 DEF Player!VidstackCleanUp
  <2>3. told' = [timers |-> told.timers \ {seen[m].timer}, players |-> told.players]
    BY <1>1, <1>5 DEF Player!VidstackCleanUp, PlayerAlive
  <2>4. told' \in PlayerAlive /\ told'.players = told.players /\ told'.timers = told.timers \ {seen[m].timer}
    BY <1>1, <2>3 DEF PlayerAlive
  <2>5. Player!UnmountCleanUp(r) => told'.players = told.players \ {seen[m].ref}
    BY <1>1 DEF Player!UnmountCleanUp, PlayerAlive
  <2> QED
    BY <1>1, <1>3, <1>5, <2>1, <2>2, <2>4, <2>5
<1>6. CASE ~Player!CleanUp(r) /\ ~Player!VidstackCleanUp(r) /\ Player!UnmountCleanUp(r)
  <2>1. PICK e : e = [seen[m] EXCEPT !.ref = 0, !.shows = 0, !.time = 0]
    OBVIOUS
  <2>2. e \in PlayerElement
    BY <1>1, <2>1 DEF PlayerElement
  <2>3. seen' = [seen EXCEPT ![m] = e]
    BY <1>1, <1>6, <2>1 DEF Player!UnmountCleanUp
  <2>4. told' = [timers |-> told.timers, players |-> told.players \ {seen[m].ref}]
    BY <1>1, <1>6 DEF Player!UnmountCleanUp, PlayerAlive
  <2>5. told' \in PlayerAlive /\ told'.players = told.players \ {seen[m].ref} /\ told'.timers = told.timers
    BY <1>1, <2>4 DEF PlayerAlive
  <2>6. db' \in [Videos -> {0, 1}]
    <3>1. \A time \in {0, 1} : Player!Heard(m, time) \in [Videos -> {0, 1}]
      BY <1>1 DEF Player!Heard
    <3>2. seen[m].time \in {0, 1}
      BY <1>1 DEF PlayerElement
    <3>3. db' = db \/ \E time \in {0, seen[m].time} : db' = Player!Heard(m, time)
      BY <1>1, <1>6 DEF Player!UnmountCleanUp
    <3> QED
      BY <1>1, <3>1, <3>2, <3>3
  <2> QED
    BY <1>1, <1>6, <2>2, <2>3, <2>5, <2>6
<1> QED
  BY <1>4, <1>5, <1>6

\* The present run ends: what it leaves is in the references that are cleaned up, or it
\* came late.
LEMMA RunOver ==
  ASSUME PlayerInv, NEW r \in Player!Run, r = ui.run, NEW m \in Player!Run, m = net[r].mount,
         NEW n \in [Player!Run -> {Player!Unused} \cup PlayerRun], n[r] = Player!Over(r),
         \A x \in Player!Run : net[x] # Player!Unused /\ x # r => n[x] = net[x]
  PROVE  /\ \A x \in Player!Run : net[x] # Player!Unused =>
              /\ n[x] # Player!Unused /\ n[x].mount = net[x].mount /\ n[x].type = net[x].type
              /\ n[x].over /\ (n[x].late \/ n[x].step \in {"import", "ready", "ended"}) /\ n[x].step = net[x].step
              /\ n[x].resumable = net[x].resumable
         /\ \A x \in told.players :
              /\ n[x] # Player!Unused /\ n[x].type = "shaka" /\ n[x].step \in {"attach", "load", "tracks", "ready"}
              /\ DisturbedIn(n, x) \/ (x = seen[m].ref /\ net[r].type = "shaka")
         /\ \A x \in told.timers :
              /\ n[x] # Player!Unused /\ n[x].step = "ready" /\ n[x].resumable
              /\ DisturbedIn(n, x) \/ n[x].mount # m \/ x = seen[m].timer
<1>1. RunsOK(net, ui) /\ AliveOK(net, ui, seen, told) /\ told \in PlayerAlive
  BY DEF PlayerInv, AliveOK
<1>2. ui.run # 0 /\ net[r] # Player!Unused /\ net[r] \in PlayerRun
  BY <1>1, UsedRuns, PresentRun DEF Player!Run, RunsOK
<1>3. PICK q : q = n[r]
  OBVIOUS
<1>4. /\ q.over /\ (q.late <=> net[r].step \notin {"import", "ready", "ended"}) /\ q \in PlayerRun
      /\ q.type = net[r].type /\ q.mount = net[r].mount /\ q.step = net[r].step /\ q.resumable = net[r].resumable
  <2>1. PICK late \in BOOLEAN : late = (net[r].step \notin {"import", "ready", "ended"})
    OBVIOUS
  <2>2. q = [net[r] EXCEPT !.over = TRUE, !.late = late]
    BY <1>3, <2>1 DEF Player!Over
  <2> QED
    BY <1>2, <2>1, <2>2 DEF PlayerRun
<1>5. q # Player!Unused
  BY <1>4, UnusedIsNone
<1>6. ASSUME NEW x \in Player!Run, net[x] # Player!Unused
      PROVE  /\ n[x] # Player!Unused /\ n[x].mount = net[x].mount /\ n[x].type = net[x].type
             /\ n[x].over /\ (n[x].late \/ n[x].step \in {"import", "ready", "ended"}) /\ n[x].step = net[x].step
             /\ n[x].resumable = net[x].resumable
  <2>1. CASE x = r
    BY <1>3, <1>4, <1>5, <2>1
  <2>2. CASE x # r
    <3>1. n[x] = net[x]
      BY <1>6, <2>2
    <3> QED
      BY <1>1, <1>6, <2>2, <3>1 DEF RunsOK
  <2> QED
    BY <2>1, <2>2
<1>7. ASSUME NEW x \in Player!Run, net[x] # Player!Unused, DisturbedIn(net, x)  PROVE DisturbedIn(n, x)
  <2>1. PICK y \in Player!Run : net[y] # Player!Unused /\ net[y].mount = net[x].mount /\ net[y].late /\ net[y].type = "shaka"
    BY <1>7 DEF DisturbedIn
  <2>2. y # r
    BY <1>1, <2>1 DEF RunsOK
  <2>3. n[y] = net[y] /\ n[x].mount = net[x].mount
    BY <1>6, <1>7, <2>1, <2>2
  <2> QED
    BY <2>1, <2>3 DEF DisturbedIn
<1>8. q.late /\ q.type = "shaka" => DisturbedIn(n, r)
  BY <1>3, <1>5 DEF DisturbedIn
<1>9. DisturbedIn(net, r) \/ RefsOK(net[r], seen[m], r)
  BY <1>1, <1>2 DEF AliveOK
<1>10. ASSUME NEW x \in told.players
       PROVE  /\ n[x] # Player!Unused /\ n[x].type = "shaka" /\ n[x].step \in {"attach", "load", "tracks", "ready"}
              /\ DisturbedIn(n, x) \/ (x = seen[m].ref /\ net[r].type = "shaka")
  <2>1. /\ x \in Player!Run /\ net[x] # Player!Unused /\ net[x].type = "shaka"
        /\ net[x].step \in {"attach", "load", "tracks", "ready"} /\ (x = r \/ DisturbedIn(net, x))
    BY <1>1 DEF AliveOK, PlayerAlive
  <2>2. CASE x # r
    BY <1>6, <1>7, <2>1, <2>2
  <2>3. CASE x = r
    <3>1. DisturbedIn(n, r) \/ seen[m].ref = r
      BY <1>2, <1>4, <1>7, <1>8, <1>9, <2>1, <2>3 DEF RefsOK
    <3> QED
      BY <1>6, <2>1, <2>3, <3>1
  <2> QED
    BY <2>2, <2>3
<1>11. ASSUME NEW x \in told.timers
       PROVE  /\ n[x] # Player!Unused /\ n[x].step = "ready" /\ n[x].resumable
              /\ DisturbedIn(n, x) \/ n[x].mount # m \/ x = seen[m].timer
  <2>1. /\ x \in Player!Run /\ net[x] # Player!Unused /\ net[x].step = "ready" /\ net[x].resumable
        /\ x = r \/ DisturbedIn(net, x) \/ m # net[x].mount
    BY <1>1, <1>2 DEF AliveOK, PlayerAlive
  <2>2. CASE x = r
    <3>1. DisturbedIn(n, r) \/ seen[m].timer = r
      BY <1>2, <1>7, <1>9, <2>1, <2>2 DEF RefsOK
    <3> QED
      BY <1>6, <2>1, <2>2, <3>1
  <2>3. CASE x # r
    BY <1>6, <1>7, <2>1, <2>3
  <2> QED
    BY <2>2, <2>3
<1> QED
  BY <1>6, <1>10, <1>11

\* The component is unmounted.
LEMMA PlayerUnmounts == ASSUME PlayerInv, Player!Unmount PROVE PlayerInv'
<1>1. /\ RunsOK(net, ui) /\ ui.run # 0 /\ Player!UnmountCleanUp(ui.run)
      /\ net' = [net EXCEPT ![ui.run] = Player!Over(ui.run)] /\ ui' = [ui EXCEPT !.run = 0]
  BY DEF PlayerInv, Player!Unmount
<1>2. PICK r \in Player!Run : r = ui.run /\ net[r] # Player!Unused
  BY <1>1, PresentRun
<1>3. PICK m \in Player!Run : m = net[r].mount
  BY <1>1, <1>2, UsedRuns
<1>4. net \in [Player!Run -> {Player!Unused} \cup PlayerRun] /\ net[r] \in PlayerRun
  BY <1>1, <1>2, UsedRuns DEF RunsOK
<1>5. Player!Over(r) \in PlayerRun
  BY <1>4 DEF Player!Over, PlayerRun
<1>6. PICK n : n = net'
  OBVIOUS
<1>7. /\ n \in [Player!Run -> {Player!Unused} \cup PlayerRun] /\ n[r] = Player!Over(r)
      /\ \A x \in Player!Run : x # r => n[x] = net[x]
  BY <1>1, <1>2, <1>4, <1>5, <1>6
<1>8. /\ \A x \in Player!Run : net[x] # Player!Unused =>
           /\ n[x] # Player!Unused /\ n[x].mount = net[x].mount /\ n[x].type = net[x].type
           /\ n[x].over /\ (n[x].late \/ n[x].step \in {"import", "ready", "ended"}) /\ n[x].step = net[x].step
      /\ \A x \in told.players :
           /\ n[x] # Player!Unused /\ n[x].type = "shaka" /\ n[x].step \in {"attach", "load", "tracks", "ready"}
           /\ DisturbedIn(n, x) \/ x = seen[m].ref
      /\ \A x \in told.timers : n[x] # Player!Unused /\ n[x].step = "ready" /\ n[x].resumable
  BY <1>2, <1>3, <1>7, RunOver
<1>9. /\ seen' \in [Player!Run -> PlayerElement] /\ db' \in [Videos -> {0, 1}] /\ told' \in PlayerAlive
      /\ told'.players \subseteq told.players /\ told'.timers \subseteq told.timers
      /\ seen[m].ref \notin told'.players
  BY <1>1, <1>2, <1>3, PlayerCleans
<1>10. ui' \in PlayerScreen /\ ui'.run = 0
  BY <1>1, PagesAssumption DEF RunsOK, PlayerScreen
<1>11. RunsOK(n, ui')
  <2>1. ASSUME NEW x \in Player!Run, n[x] # Player!Unused
        PROVE  /\ n[n[x].mount] # Player!Unused /\ n[n[x].mount].type = n[x].type /\ n[x].over
               /\ (n[x].late \/ n[x].step \in {"import", "ready", "ended"})
               /\ n[x].step \in {"attach", "load", "tracks"} => n[x].type = "shaka"
    <3>1. net[x] # Player!Unused
      BY <1>2, <1>7, <2>1
    <3>2. PICK y \in Player!Run : y = net[x].mount
      BY <1>1, <3>1, UsedRuns
    <3>3. net[y] # Player!Unused /\ net[y].type = net[x].type
      BY <1>1, <3>1, <3>2 DEF RunsOK
    <3>4. net[x].step \in {"attach", "load", "tracks"} => net[x].type = "shaka"
      BY <1>1, <3>1 DEF RunsOK
    <3> QED
      BY <1>8, <3>1, <3>2, <3>3, <3>4
  <2>2. \A x \in Player!Run : x # 0
    BY DEF Player!Run
  <2> QED
    BY <1>7, <1>10, <2>1, <2>2 DEF RunsOK
<1>12. AliveOK(n, ui', seen', told')
  BY <1>8, <1>9, <1>10 DEF AliveOK
<1>13. PlaceOK(n, ui', db')
  BY <1>10 DEF PlaceOK
<1> QED
  BY <1>6, <1>9, <1>11, <1>12, <1>13 DEF PlayerInv

\* The page renders: the next run is of the same component, or of a new one.
LEMMA PlayerRenders == ASSUME PlayerInv, Player!Render PROVE PlayerInv'
<1>1. RunsOK(net, ui) /\ ui.run # 0 /\ ui \in PlayerScreen
  BY DEF PlayerInv, Player!Render, RunsOK
<1>2. PICK r \in Player!Run : r = ui.run /\ net[r] # Player!Unused
  BY <1>1, PresentRun
<1>3. PICK m \in Player!Run : m = net[r].mount
  BY <1>1, <1>2, UsedRuns
<1>4. PICK k \in Player!Run : k = r + 1
  BY <1>2 DEF Player!Render
<1>5. PICK url \in Videos, settings \in Player!Settings :
        LET same == settings.type = ui.settings.type IN
        /\ ui' = [url |-> url, settings |-> settings, run |-> k]
        /\ IF ~same THEN Player!UnmountCleanUp(r)
           ELSE IF net[r].type = "shaka" THEN Player!CleanUp(r) ELSE Player!VidstackCleanUp(r)
        /\ net' = [net EXCEPT ![r] = Player!Over(r),
                              ![k] = Player!NewRun(IF same THEN net[r].mount ELSE k,
                                       IF same /\ settings.resumable THEN Player!LeftAt(r, url) ELSE 0)]
  <2>1. ui.settings \in Player!Settings
    BY <1>1 DEF PlayerScreen
  <2>2. PICK url \in Videos,
             settings \in (IF ui.settings = Player!NoSettings THEN Player!Settings ELSE {ui.settings}) :
          /\ ui' = [url |-> url, settings |-> settings, run |-> ui.run + 1]
          /\ IF ~(settings.type = ui.settings.type) THEN Player!UnmountCleanUp(ui.run)
             ELSE IF net[ui.run].type = "shaka" THEN Player!CleanUp(ui.run) ELSE Player!VidstackCleanUp(ui.run)
          /\ net' = [net EXCEPT ![ui.run] = Player!Over(ui.run),
               ![ui.run + 1] = Player!NewRun(
                  IF settings.type = ui.settings.type THEN net[ui.run].mount ELSE ui.run + 1,
                  IF settings.type = ui.settings.type /\ settings.resumable
                  THEN Player!LeftAt(ui.run, url) ELSE 0)]
    BY DEF Player!Render
  <2>3. settings \in Player!Settings
    BY <2>1, <2>2
  <2>4. ui.run = r /\ ui.run + 1 = k
    BY <1>2, <1>4
  <2> QED
    BY <2>2, <2>3, <2>4
<1>6. PICK same \in BOOLEAN : same = (settings.type = ui.settings.type)
  OBVIOUS
<1>7. net \in [Player!Run -> {Player!Unused} \cup PlayerRun] /\ net[r] \in PlayerRun /\ seen[m] \in PlayerElement
  BY <1>1, <1>2, UsedRuns DEF RunsOK, PlayerInv
<1>8. Player!Over(r) \in PlayerRun
  BY <1>7 DEF Player!Over, PlayerRun
<1>9. net[k] = Player!Unused /\ k # r /\ k # 0 /\ m # k
  <2>1. r \in Nat /\ ~(k <= r) /\ k # 0
    BY <1>2, <1>4, PagesAssumption DEF Player!Run
  <2>2. net[m] # Player!Unused
    BY <1>1, <1>2, <1>3 DEF RunsOK
  <2> QED
    BY <1>1, <1>2, <2>1, <2>2 DEF RunsOK
<1>10. PICK mount \in Player!Run : mount = IF same THEN m ELSE k
  OBVIOUS
<1>11. PICK from \in {0, 1} : from = IF same /\ settings.resumable THEN Player!LeftAt(r, url) ELSE 0
  <2>1. Player!LeftAt(r, url) \in {0, 1}
    BY <1>3, <1>7 DEF Player!LeftAt, Player!Of, PlayerElement
  <2> QED
    BY <2>1
<1>12. PICK row : row = [type |-> settings.type, resumable |-> settings.resumable, url |-> url,
                         mount |-> mount, step |-> "import", over |-> FALSE, late |-> FALSE, from |-> from]
  OBVIOUS
<1>13. row \in PlayerRun
  BY <1>12 DEF PlayerRun, PlayerSteps, Player!Settings
<1>14. net' = [net EXCEPT ![r] = Player!Over(r), ![k] = row]
  BY <1>3, <1>5, <1>6, <1>10, <1>11, <1>12 DEF Player!NewRun
<1>15. PICK n : n = net'
  OBVIOUS
<1>16. /\ n \in [Player!Run -> {Player!Unused} \cup PlayerRun] /\ n[r] = Player!Over(r) /\ n[k] = row
       /\ \A x \in Player!Run : x # r /\ x # k => n[x] = net[x]
  BY <1>7, <1>8, <1>9, <1>13, <1>14, <1>15
<1>17. /\ \A x \in Player!Run : net[x] # Player!Unused =>
            /\ n[x] # Player!Unused /\ n[x].mount = net[x].mount /\ n[x].type = net[x].type
            /\ n[x].over /\ (n[x].late \/ n[x].step \in {"import", "ready", "ended"}) /\ n[x].step = net[x].step
       /\ \A x \in told.players :
            /\ n[x] # Player!Unused /\ n[x].type = "shaka" /\ n[x].step \in {"attach", "load", "tracks", "ready"}
            /\ DisturbedIn(n, x) \/ (x = seen[m].ref /\ net[r].type = "shaka")
       /\ \A x \in told.timers :
            /\ n[x] # Player!Unused /\ n[x].step = "ready" /\ n[x].resumable
            /\ DisturbedIn(n, x) \/ n[x].mount # m \/ x = seen[m].timer
  BY <1>2, <1>3, <1>9, <1>16, RunOver
<1>18. /\ ~same => Player!UnmountCleanUp(r)
       /\ same /\ net[r].type = "shaka" => Player!CleanUp(r)
       /\ same /\ net[r].type # "shaka" => Player!VidstackCleanUp(r)
  BY <1>5, <1>6
<1>19. /\ seen' \in [Player!Run -> PlayerElement] /\ db' \in [Videos -> {0, 1}] /\ told' \in PlayerAlive
       /\ told'.players \subseteq told.players /\ told'.timers \subseteq told.timers
       /\ Player!CleanUp(r) \/ Player!UnmountCleanUp(r) => seen[m].ref \notin told'.players
       /\ Player!CleanUp(r) \/ Player!VidstackCleanUp(r) => seen[m].timer \notin told'.timers
       /\ Player!CleanUp(r) /\ net[r].resumable /\ seen[m].time = 1 => db'[net[r].url] = 1
  BY <1>2, <1>3, <1>18, PlayerCleans
<1>20. PICK u \in PlayerScreen : u = ui' /\ u.run = k /\ u.settings = settings
  <2>1. k \in 0..MaxRuns
    BY PagesAssumption DEF Player!Run
  <2> QED
    BY <1>5, <2>1 DEF PlayerScreen
<1>21. row # Player!Unused
  BY <1>13, UnusedIsNone
<1>22. RunsOK(n, u)
  <2>1. n[k].mount = mount /\ n[k].type = settings.type /\ ~n[k].over /\ ~n[k].late /\ n[k].step = "import" /\ n[k] # Player!Unused
    BY <1>12, <1>16, <1>21
  <2>2. n[mount] # Player!Unused /\ n[mount].type = settings.type
    <3>1. CASE same
      <4>1. net[m] # Player!Unused /\ net[m].type = net[r].type /\ net[r].type = ui.settings.type
        BY <1>1, <1>2, <1>3 DEF RunsOK
      <4> QED
        BY <1>6, <1>10, <1>17, <3>1, <4>1
    <3>2. CASE ~same
      BY <1>10, <2>1, <3>2
    <3> QED
      BY <3>1, <3>2
  <2>3. ASSUME NEW x \in Player!Run, n[x] # Player!Unused
        PROVE  /\ n[n[x].mount] # Player!Unused /\ n[n[x].mount].type = n[x].type
               /\ IF x = k THEN ~n[x].over /\ ~n[x].late /\ n[x].type = settings.type ELSE n[x].over
               /\ n[x].over => n[x].late \/ n[x].step \in {"import", "ready", "ended"}
               /\ n[x].step \in {"attach", "load", "tracks"} => n[x].type = "shaka"
               /\ x <= k
    <3>1. CASE x = k
      <4>1. k <= k
        BY PagesAssumption DEF Player!Run
      <4> QED
        BY <2>1, <2>2, <3>1, <4>1
    <3>2. CASE x # k
      <4>1. net[x] # Player!Unused
        BY <1>2, <1>16, <2>3, <3>2
      <4>2. PICK y \in Player!Run : y = net[x].mount
        BY <1>1, <4>1, UsedRuns
      <4>3. net[y] # Player!Unused /\ net[y].type = net[x].type
        BY <1>1, <4>1, <4>2 DEF RunsOK
      <4>4. net[x].step \in {"attach", "load", "tracks"} => net[x].type = "shaka"
        BY <1>1, <4>1 DEF RunsOK
      <4>5. x <= r
        BY <1>1, <1>2, <4>1 DEF RunsOK
      <4>6. x <= k
        BY <1>4, <4>5, PagesAssumption DEF Player!Run
      <4> QED
        BY <1>17, <3>2, <4>1, <4>2, <4>3, <4>4, <4>6
    <3> QED
      BY <3>1, <3>2
  <2> QED
    BY <1>16, <1>20, <2>1, <2>3 DEF RunsOK
<1>23. AliveOK(n, u, seen', told')
  <2>1. ASSUME NEW x \in told'.players
        PROVE  /\ n[x] # Player!Unused /\ n[x].type = "shaka" /\ n[x].step \in {"attach", "load", "tracks", "ready"}
               /\ DisturbedIn(n, x)
    BY <1>17, <1>18, <1>19, <2>1
  <2>2. ASSUME NEW x \in told'.timers
        PROVE  /\ n[x] # Player!Unused /\ n[x].step = "ready" /\ n[x].resumable
               /\ DisturbedIn(n, x) \/ n[k].mount # n[x].mount
    <3>1. x \in told.timers /\ x \in Player!Run
      BY <1>19 DEF PlayerAlive
    <3>2. n[k].mount = mount
      BY <1>12, <1>16
    <3>3. CASE same
      BY <1>10, <1>17, <1>18, <1>19, <3>1, <3>2, <3>3
    <3>4. CASE ~same
      <4>1. net[x] # Player!Unused
        BY <3>1 DEF PlayerInv, AliveOK
      <4>2. net[net[x].mount] # Player!Unused
        BY <1>1, <3>1, <4>1 DEF RunsOK
      <4>3. n[x].mount # k
        BY <1>9, <1>17, <3>1, <4>1, <4>2
      <4> QED
        BY <1>10, <1>17, <3>1, <3>2, <3>4, <4>3
    <3> QED
      BY <3>3, <3>4
  <2>3. \A e : RefsOK(n[k], e, k)
    BY <1>12, <1>16 DEF RefsOK
  <2> QED
    BY <1>19, <1>20, <2>1, <2>2, <2>3 DEF AliveOK
<1>24. PlaceOK(n, u, db')
  <2> SUFFICES ASSUME n[k].from = 1 PROVE n[k].resumable /\ db'[n[k].url] = 1
    BY <1>20 DEF PlaceOK
  <2>1. from = 1 /\ n[k].resumable = settings.resumable /\ n[k].url = url
    BY <1>12, <1>16
  <2>2. same /\ settings.resumable /\ Player!LeftAt(r, url) = 1
    BY <1>11, <2>1
  <2>3. net[r].type = "shaka" /\ net[r].resumable /\ net[r].url = url /\ seen[m].time = 1
    BY <1>3, <2>2 DEF Player!LeftAt, Player!Of
  <2> QED
    BY <1>18, <1>19, <2>1, <2>2, <2>3
<1> QED
  BY <1>15, <1>19, <1>20, <1>22, <1>23, <1>24 DEF PlayerInv

\* A step of the player.
LEMMA NextPlayer == ASSUME PlayerInv, Player!Next PROVE PlayerInv'
<1>1. ASSUME NEW r \in Player!Run, Player!TracksAdded(r) \/ Player!LoadFails(r)  PROVE PlayerInv'
  BY <1>1, PlayerReady DEF Player!TracksAdded, Player!LoadFails
<1>2. Player!Used \subseteq Player!Run
  BY DEF Player!Used
<1> QED
  BY <1>1, <1>2, PlayerRenders, PlayerUnmounts, PlayerPlays, PlayerImports, PlayerAttaches, PlayerLoads, PlayerVidstack, PlayerTicks
    DEF Player!Next

\* A run that gets ready takes up the place that is stored.
LEMMA PlayerTakesUp == ASSUME PlayerInv, Player!Next PROVE Player!TakesUpThePlace
<1> SUFFICES ASSUME NEW r \in Player!Run, net[r].step = "tracks", net'[r].step = "ready", ~net[r].over, net[r].from = 1
             PROVE  seen'[net[r].mount].time = 1
  BY DEF Player!TakesUpThePlace
<1>1. RunsOK(net, ui) /\ seen \in [Player!Run -> PlayerElement]
  BY DEF PlayerInv
<1>2. net[r] # Player!Unused /\ net[r] \in PlayerRun /\ net \in [Player!Run -> {Player!Unused} \cup PlayerRun]
  BY <1>1, StepsAreUsed, UsedRuns DEF RunsOK, PlayerSteps
<1>3. r = ui.run /\ ui.run # 0
  BY <1>1, <1>2 DEF RunsOK, Player!Run
<1>4. net[r].resumable /\ db[net[r].url] = 1
  BY <1>3 DEF PlayerInv, PlaceOK
<1>5. CASE Player!TracksAdded(r)
  <2>1. PICK m \in Player!Run : m = net[r].mount
    BY <1>2 DEF PlayerRun
  <2>2. PICK timer : timer = IF net[r].resumable THEN r ELSE seen[m].timer
    OBVIOUS
  <2>3. PICK time : time = IF net[r].resumable /\ db[net[r].url] = 1 THEN 1 ELSE seen[m].time
    OBVIOUS
  <2>4. seen' = [seen EXCEPT ![m] = [@ EXCEPT !.time = time, !.timer = timer]]
    BY <1>5, <2>1, <2>2, <2>3 DEF Player!TracksAdded, Player!BecomesReady, Player!Of, Player!getPlaybackPosition
  <2>5. PICK e : e = [seen[m] EXCEPT !.time = time, !.timer = timer]
    OBVIOUS
  <2>6. e.time = time
    BY <1>1, <2>5 DEF PlayerElement
  <2>7. seen'[m] = e
    BY <1>1, <2>4, <2>5
  <2> QED
    BY <1>4, <2>1, <2>3, <2>6, <2>7
<1>6. CASE ~Player!TracksAdded(r)
  <2>1. ASSUME NEW x \in Player!Run, NEW s, net' = [net EXCEPT ![x].step = s], x # r  PROVE FALSE
    <3>1. net'[r] = net[r]
      BY <1>2, <2>1
    <3> QED
      BY <3>1
  <2>2. ASSUME NEW x \in Player!Run,
               Player!ShakaImported(x) \/ Player!Attached(x) \/ Player!Loaded(x) \/ Player!TracksAdded(x) \/ Player!LoadFails(x)
               \/ Player!VidstackImported(x)
        PROVE  FALSE
    <3>1. x # r
      BY <1>6, <2>2 DEF Player!ShakaImported, Player!Attached, Player!Loaded, Player!TracksAdded, Player!LoadFails, Player!VidstackImported
    <3>2. \E s \in PlayerSteps : net' = [net EXCEPT ![x].step = s]
      BY <2>2 DEF Player!ShakaImported, Player!Attached, Player!Loaded, Player!TracksAdded, Player!LoadFails, Player!VidstackImported,
        Player!BecomesReady, PlayerSteps
    <3> QED
      BY <2>1, <3>1, <3>2
  <2>3. ASSUME NEW x \in Player!Run, Player!Tick(x)  PROVE FALSE
    BY <2>3 DEF Player!Tick
  <2>4. CASE Player!Watch \/ Player!Paused \/ Player!Ended
    <3>1. net' = [net EXCEPT ![r].from = 0]
      BY <1>3, <2>4 DEF Player!Watch, Player!Paused, Player!Ended
    <3>2. net'[r].step = net[r].step
      BY <1>2, <3>1 DEF PlayerRun
    <3> QED
      BY <3>2
  <2>5. Player!Over(r).step = net[r].step
    BY <1>2 DEF Player!Over, PlayerRun
  <2>6. CASE Player!Unmount
    <3>1. net'[r] = Player!Over(r)
      BY <1>2, <1>3, <2>6 DEF Player!Unmount
    <3> QED
      BY <2>5, <3>1
  <2>7. CASE Player!Render
    <3>0. PICK row : net' = [net EXCEPT ![ui.run] = Player!Over(ui.run), ![ui.run + 1] = row]
      BY <2>7 DEF Player!Render
    <3>1. PICK k : k = r + 1 /\ net' = [net EXCEPT ![r] = Player!Over(r), ![k] = row]
      BY <1>3, <3>0
    <3>2. k # r
      BY <3>1, PagesAssumption DEF Player!Run
    <3>3. net'[r] = Player!Over(r)
      BY <1>2, <3>1, <3>2
    <3> QED
      BY <2>5, <3>3
  <2>8. Player!Used \subseteq Player!Run
    BY DEF Player!Used
  <2> QED
    BY <2>2, <2>3, <2>4, <2>6, <2>7, <2>8 DEF Player!Next
<1> QED
  BY <1>5, <1>6

----------------------------------------------------------------------------
(* The player's settings and the two players *)

PlaySwitches == Play!Keys \ {"player_speed_options"}

\* A key that was seen saved is stored as the form has it.
PlayInv ==
  /\ db \in [Play!Keys -> Play!OnOff \cup Play!Speeds] /\ \A k \in PlaySwitches : db[k] \in Play!OnOff
  /\ db["player_speed_options"] \in Play!Speeds /\ seen = db /\ net = None /\ told \subseteq Play!Keys
  /\ ui \in [Play!Keys -> {None, "true", "false", "minimal", "medium", "full"}]
  /\ \A k \in PlaySwitches : ui[k] \in {None, "true", "false"}
  /\ ui["player_speed_options"] \in {None, "minimal", "medium", "full"}
  /\ \A k \in told : ui[k] # None /\ db[k].is = ui[k]

\* A stored switch says true, false or nothing, and nothing only if it is absent.
LEMMA PlayStored ==
  ASSUME NEW v \in Play!OnOff
  PROVE  v.is \in {None, "true", "false"} /\ (v = Play!Absent <=> v.is = None)
BY PagesAssumption DEF Play!OnOff, Play!Boolean, Play!Text, Play!Absent

\* What the page promises follows.
LEMMA PlayMeaning == ASSUME PlayInv PROVE Play!PlayersAgree /\ Play!SwitchesHold
<1>1. Play!Controls \subseteq PlaySwitches /\ Play!Both \subseteq Play!Controls /\ "player_autoplay" \in PlaySwitches
  BY DEF PlaySwitches, Play!Keys, Play!Controls, Play!Both, Play!ClientOnly
<1>2. ASSUME NEW k \in PlaySwitches
      PROVE  /\ Play!getBoolSetting(k, TRUE) <=> db[k].is # "false"
             /\ (db[k] = Play!Absent \/ db[k].is # "false") <=> db[k].is # "false"
             /\ db[k] = Play!Absent <=> db[k].is = None
             /\ db[k].is \in {None, "true", "false"}
  <2>1. db[k] \in Play!OnOff
    BY DEF PlayInv
  <2>2. db[k].is \in {None, "true", "false"} /\ (db[k] = Play!Absent <=> db[k].is = None)
    BY <2>1, PlayStored
  <2> QED
    BY <2>2, PagesAssumption DEF Play!getBoolSetting
<1>3. Play!controlPanelElements = {k \in Play!Controls : db[k].is # "false"}
  BY <1>1, <1>2 DEF Play!controlPanelElements
<1>4. Play!getPlayerSettings.controls = {k \in Play!Both : db[k].is # "false"}
  BY <1>1, <1>2 DEF Play!getPlayerSettings
<1>5. Play!ShakaPlayerComponent.controls = Play!controlPanelElements
  BY DEF Play!ShakaPlayerComponent
<1>6. Play!ShakaPlayerComponent.controls \cap Play!Both = Play!getPlayerSettings.controls
  BY <1>1, <1>3, <1>4, <1>5
<1>7. ASSUME NEW k \in told, k \in PlaySwitches
      PROVE  db[k].is = ui[k] /\ ui[k] \in {"true", "false"} /\ db[k] # Play!Absent
  BY <1>2, <1>7 DEF PlayInv
<1>8. ASSUME "player_autoplay" \in told
      PROVE  /\ Play!ShakaPlayerComponent.autoplay = (db["player_autoplay"].is = "true")
             /\ Play!getPlayerSettings.autoplay = (db["player_autoplay"].is = "true")
             /\ Play!getBool("player_autoplay") = (db["player_autoplay"].is = "true")
  BY <1>1, <1>7, <1>8 DEF Play!ShakaPlayerComponent, Play!getBoolSetting, Play!getPlayerSettings, Play!getBool
<1>9. \A k \in told \cap Play!Controls : Play!getBool(k) <=> k \in Play!ShakaPlayerComponent.controls
  BY <1>1, <1>3, <1>5, <1>7 DEF Play!getBool
<1> QED
  BY <1>6, <1>8, <1>9 DEF Play!PlayersAgree, Play!SwitchesHold

\* At the start the form shows what is stored.
LEMMA InitPlay == ASSUME Play!Init PROVE PlayInv
<1>1. PICK default \in {Play!Absent, Play!Text("false")}, key \in PlaySwitches, value \in Play!OnOff :
        db = [k \in Play!Keys |-> CASE k = "player_speed_options" -> Play!Absent
                                    [] k = key -> value
                                    [] OTHER -> default]
  BY DEF Play!Init, PlaySwitches
<1>2. "player_speed_options" \in Play!Keys /\ PlaySwitches \subseteq Play!Keys
  BY DEF Play!Keys, PlaySwitches
<1>3. Play!Absent \in Play!OnOff /\ Play!Absent \in Play!Speeds /\ default \in Play!OnOff
  BY <1>1 DEF Play!OnOff, Play!Speeds
<1>4. \A k \in PlaySwitches : db[k] \in Play!OnOff
  BY <1>1, <1>2, <1>3 DEF PlaySwitches
<1>5. db["player_speed_options"] = Play!Absent
  BY <1>1, <1>2 DEF PlaySwitches
<1>6. \A k \in Play!Keys : db[k] \in Play!OnOff \cup Play!Speeds
  BY <1>3, <1>4, <1>5 DEF PlaySwitches
<1>7. ui = [k \in Play!Keys |-> db[k].is] /\ seen = db /\ net = None /\ told = {}
  BY DEF Play!Init, Play!Form
<1>8. \A k \in PlaySwitches : ui[k] \in {None, "true", "false"}
  BY <1>2, <1>4, <1>7, PlayStored
<1>9. ui["player_speed_options"] = None
  BY <1>2, <1>5, <1>7 DEF Play!Absent
<1>10. ui \in [Play!Keys -> {None, "true", "false", "minimal", "medium", "full"}]
  BY <1>7, <1>8, <1>9 DEF PlaySwitches
<1>11. db \in [Play!Keys -> Play!OnOff \cup Play!Speeds]
  BY <1>1, <1>6
<1> QED
  BY <1>3, <1>4, <1>5, <1>7, <1>8, <1>9, <1>10, <1>11 DEF PlayInv

\* A switch, or a choice, is told no longer.
LEMMA PlaySwitch ==
  ASSUME PlayInv, NEW K \in SUBSET Play!Keys, NEW new \in [K -> {"true", "false", "minimal", "medium", "full"}],
         \A k \in K \cap PlaySwitches : new[k] \in {"true", "false"},
         "player_speed_options" \in K => new["player_speed_options"] \in {"minimal", "medium", "full"},
         ui' = [k \in Play!Keys |-> IF k \in K THEN new[k] ELSE ui[k]],
         told' = told \ K, UNCHANGED <<db, seen, net>>
  PROVE  PlayInv'
<1>1. "player_speed_options" \in Play!Keys /\ PlaySwitches \subseteq Play!Keys
  BY DEF Play!Keys, PlaySwitches
<1>2. ui' \in [Play!Keys -> {None, "true", "false", "minimal", "medium", "full"}]
  BY DEF PlayInv
<1>3. \A k \in PlaySwitches : ui'[k] \in {None, "true", "false"}
  BY <1>1 DEF PlayInv
<1>4. ui'["player_speed_options"] \in {None, "minimal", "medium", "full"}
  BY <1>1 DEF PlayInv
<1>5. \A k \in told' : ui'[k] # None /\ db'[k].is = ui'[k]
  BY DEF PlayInv
<1> QED
  BY <1>2, <1>3, <1>4, <1>5 DEF PlayInv

\* What the form has is stored.
LEMMA PlaySave == ASSUME PlayInv, Play!handleSave PROVE PlayInv'
<1>1. "player_speed_options" \in Play!Keys /\ PlaySwitches \subseteq Play!Keys
  BY DEF Play!Keys, PlaySwitches
<1>2. db' = [k \in Play!Keys |-> CASE ui[k] = None -> db[k]
                                   [] ui[k] \in {"true", "false"} -> Play!Boolean(ui[k])
                                   [] OTHER -> Play!Text(ui[k])]
  BY DEF Play!handleSave
<1>3. ASSUME NEW k \in PlaySwitches
      PROVE  db'[k] \in Play!OnOff /\ (ui[k] # None => db'[k].is = ui[k])
  <2>1. ui[k] \in {None, "true", "false"} /\ db[k] \in Play!OnOff /\ k \in Play!Keys
    BY <1>1 DEF PlayInv
  <2>2. CASE ui[k] = None
    BY <1>2, <2>1, <2>2, PagesAssumption
  <2>3. CASE ui[k] # None
    <3>1. db'[k] = Play!Boolean(ui[k]) /\ ui[k] \in {"true", "false"}
      BY <1>2, <2>1, <2>3
    <3> QED
      BY <3>1 DEF Play!OnOff, Play!Boolean
  <2> QED
    BY <2>2, <2>3
<1>4. /\ db'["player_speed_options"] \in Play!Speeds
      /\ ui["player_speed_options"] # None => db'["player_speed_options"].is = ui["player_speed_options"]
  <2>1. ui["player_speed_options"] \in {None, "minimal", "medium", "full"} /\ db["player_speed_options"] \in Play!Speeds
    BY DEF PlayInv
  <2>2. CASE ui["player_speed_options"] = None
    BY <1>1, <1>2, <2>1, <2>2, PagesAssumption
  <2>3. CASE ui["player_speed_options"] # None
    <3>1. ui["player_speed_options"] \in {"minimal", "medium", "full"}
      BY <2>1, <2>3
    <3>2. ui["player_speed_options"] \notin {None, "true", "false"}
      BY <3>1, <2>3
    <3>3. db'["player_speed_options"] = Play!Text(ui["player_speed_options"])
      BY <1>1, <1>2, <3>2
    <3> QED
      BY <3>1, <3>3 DEF Play!Speeds, Play!Text
  <2> QED
    BY <2>2, <2>3
<1>5. \A k \in Play!Keys : db'[k] \in Play!OnOff \cup Play!Speeds /\ (ui[k] # None => db'[k].is = ui[k])
  BY <1>3, <1>4 DEF PlaySwitches
<1>6. db' \in [Play!Keys -> Play!OnOff \cup Play!Speeds]
  BY <1>2, <1>5
<1>7. seen' = db' /\ told' = {k \in Play!Keys : ui[k] # None} /\ ui' = ui /\ net' = net
  BY DEF Play!handleSave
<1> QED
  BY <1>3, <1>4, <1>5, <1>6, <1>7 DEF PlayInv

\* Each step keeps the invariant.
LEMMA NextPlay == ASSUME PlayInv, Play!Next PROVE PlayInv'
<1>1. ui \in [Play!Keys -> {None, "true", "false", "minimal", "medium", "full"}] /\ PlaySwitches \subseteq Play!Keys
  BY DEF PlayInv, PlaySwitches
<1>2. ASSUME NEW key \in PlaySwitches, Play!Switch(key)  PROVE PlayInv'
  <2>1. PICK v \in {"true", "false"} : ui' = [ui EXCEPT ![key] = v]
    BY <1>2 DEF Play!Switch
  <2>2. ui' = [k \in Play!Keys |-> IF k \in {key} THEN [x \in {key} |-> v][k] ELSE ui[k]]
    BY <1>1, <2>1
  <2>3. [x \in {key} |-> v] \in [{key} -> {"true", "false", "minimal", "medium", "full"}]
    OBVIOUS
  <2>4. told' = told \ {key} /\ UNCHANGED <<db, seen, net>>
    BY <1>2 DEF Play!Switch
  <2>5. {key} \in SUBSET Play!Keys /\ "player_speed_options" \notin {key}
    BY <1>1 DEF PlaySwitches
  <2> QED
    BY <2>2, <2>3, <2>4, <2>5, PlaySwitch
<1>3. CASE Play!AllControls
  <2>1. PICK on \in {"true", "false"} : ui' = [k \in Play!Keys |-> IF k \in Play!Controls THEN on ELSE ui[k]]
    BY <1>3 DEF Play!AllControls
  <2>2. ui' = [k \in Play!Keys |-> IF k \in Play!Controls THEN [x \in Play!Controls |-> on][k] ELSE ui[k]]
    BY <2>1
  <2>3. [x \in Play!Controls |-> on] \in [Play!Controls -> {"true", "false", "minimal", "medium", "full"}]
    OBVIOUS
  <2>4. told' = told \ Play!Controls /\ UNCHANGED <<db, seen, net>>
    BY <1>3 DEF Play!AllControls
  <2>5. Play!Controls \in SUBSET Play!Keys /\ "player_speed_options" \notin Play!Controls
    BY DEF Play!Keys, Play!Controls, Play!Both, Play!ClientOnly
  <2> QED
    BY <2>2, <2>3, <2>4, <2>5, PlaySwitch
<1>4. CASE Play!SpeedOptions
  <2> DEFINE key == "player_speed_options"
  <2>1. PICK v \in {"minimal", "medium", "full"} : ui' = [ui EXCEPT ![key] = v]
    BY <1>4 DEF Play!SpeedOptions
  <2>2. ui' = [k \in Play!Keys |-> IF k \in {key} THEN [x \in {key} |-> v][k] ELSE ui[k]]
    BY <1>1, <2>1
  <2>3. [x \in {key} |-> v] \in [{key} -> {"true", "false", "minimal", "medium", "full"}]
    OBVIOUS
  <2>4. told' = told \ {key} /\ UNCHANGED <<db, seen, net>>
    BY <1>4 DEF Play!SpeedOptions
  <2>5. {key} \in SUBSET Play!Keys /\ {key} \cap PlaySwitches = {}
    BY DEF Play!Keys, PlaySwitches
  <2> QED
    BY <2>2, <2>3, <2>4, <2>5, PlaySwitch
<1> QED
  BY <1>2, <1>3, <1>4, PlaySave DEF Play!Next, PlaySwitches

----------------------------------------------------------------------------
(* A video and its jobs as the user sees them *)

VideoStatus == {"uploaded", "processing", "ready"}
JobColumns ==
  [status: Shown!JobStatus, progress: 0..(100 * Renditions), attempts: 0..MaxAttempts, error: BOOLEAN, ended: BOOLEAN]
JobRows ==
  [status: Shown!JobStatus, progress: 0..(100 * Renditions), attempts: 0..MaxAttempts, error: BOOLEAN, ended: BOOLEAN,
   at: 0..Renditions]
VideoRows ==
  [status: VideoStatus, playlist: BOOLEAN, request: BOOLEAN, finish: {"no", "status", "playlist"}, jobs: [JobIds -> JobRows]]
VideoScreen == [where: {"sheet", "page", "watch"}, tab: {"overview", "caption", "chapters"}, error: BOOLEAN]

\* A worker has only a job in progress, an end is of a job that is over, and a job that
\* waits has an attempt left.
JobOK(row) ==
  /\ row.at # 0 => row.status = "processing"
  /\ row.ended => row.status \in {"completed", "failed"}
  /\ row.status \in {"absent", "pending"} => row.attempts < MaxAttempts

\* What was read of a job that is over still holds.
StillOver(columns, jobs) ==
  \A j \in JobIds : /\ columns[j].status = "failed" => jobs[j].status = "failed"
                    /\ columns[j].ended => jobs[j].status \in {"completed", "failed"}

\* What was read is a video, whose playlist is still there; what is to be shown of the
\* jobs, and not on the watch page, was read.
ReadOK(answer) ==
  answer = Shown!Nothing \/
    /\ "jobs" \in DOMAIN answer /\ answer.read = TRUE /\ answer.status \in VideoStatus /\ answer.playlist \in BOOLEAN
    /\ answer.playlist => db.playlist
JobsOK(jobs) == jobs \in [JobIds -> JobColumns] /\ StillOver(jobs, db.jobs)

\* A job was done before the video was ready, and stays done.
ShownInv ==
  /\ db \in VideoRows /\ ui \in VideoScreen /\ told \in [JobIds -> 0..Renditions]
  /\ \A j \in JobIds : JobOK(db.jobs[j])
  /\ ReadOK(seen) /\ ReadOK(net)
  /\ seen # Shown!Nothing /\ ui.where # "watch" => JobsOK(seen.jobs)
  /\ net # Shown!Nothing /\ net.jobs # Shown!Nothing => JobsOK(net.jobs)
  /\ \/ db.status = "ready" \/ db.finish # "no"
     \/ ui.where = "watch" /\ (seen # Shown!Nothing \/ net # Shown!Nothing)
     => \E j \in JobIds : db.jobs[j].status = "completed"

\* What the screens promise follows.
LEMMA ShownMeaning == ASSUME ShownInv PROVE Shown!TypeOK /\ Shown!FinalIsFinal /\ Shown!PreviewIsPlayable
<1>1. Shown!TypeOK
  BY DEF ShownInv, VideoRows, VideoScreen, VideoStatus, JobRows, Shown!TypeOK
<1>2. ASSUME seen # Shown!Nothing, ui.where # "watch", NEW entry \in Shown!TranscodeJobs
      PROVE  /\ entry.error => Shown!Job(entry.job).status = "failed"
             /\ entry.job \in JobIds
  <2>1. PICK j \in JobIds : entry = [job |-> j, badge |-> Shown!JOB_BADGE[seen.jobs[j].status],
          error |-> seen.jobs[j].status = "failed" /\ seen.jobs[j].error,
          bar |-> IF seen.jobs[j].status \in Shown!Active THEN seen.jobs[j].progress ELSE -1]
    BY DEF Shown!TranscodeJobs
  <2>2. entry.job = j /\ (entry.error => seen.jobs[j].status = "failed")
    BY <2>1
  <2>3. seen.jobs[j].status = "failed" => db.jobs[j].status = "failed"
    BY <1>2 DEF ShownInv, JobsOK, StillOver
  <2> QED
    BY <2>2, <2>3 DEF Shown!Job
<1>3. ASSUME ui.where = "sheet", NEW entry \in IF Shown!Sheet.is = "sheet" THEN Shown!Sheet.jobs ELSE {}
      PROVE  entry.error => Shown!Job(entry.job).status = "failed"
  <2>1. CASE seen = Shown!Nothing
    <3>1. Shown!Sheet.is = "loading"
      BY <2>1 DEF Shown!Sheet
    <3> QED
      BY <1>3, <3>1
  <2>2. CASE seen # Shown!Nothing
    <3>1. Shown!Sheet.jobs = IF ui.tab = "overview" THEN Shown!TranscodeJobs ELSE {}
      BY <2>2 DEF Shown!Sheet
    <3>2. entry \in Shown!TranscodeJobs
      BY <1>3, <3>1
    <3> QED
      BY <1>2, <1>3, <2>2, <3>2
  <2> QED
    BY <2>1, <2>2
<1>4. ASSUME ui.where = "page", NEW entry \in IF Shown!Page.is = "page" THEN Shown!Page.jobs ELSE {}
      PROVE  /\ entry.shown.error => Shown!Job(entry.shown.job).status = "failed"
             /\ entry.completedAt => Shown!Job(entry.shown.job).status \in {"completed", "failed"}
  <2>1. CASE seen = Shown!Nothing
    <3>1. Shown!Page.is # "page"
      BY <2>1 DEF Shown!Page
    <3> QED
      BY <1>4, <3>1
  <2>2. CASE seen # Shown!Nothing
    <3>1. Shown!Page.jobs = Shown!PageJobs
      BY <2>2 DEF Shown!Page
    <3>2. PICK row \in Shown!TranscodeJobs : entry = [shown |-> row, completedAt |-> seen.jobs[row.job].ended]
      BY <1>4, <3>1 DEF Shown!PageJobs
    <3>3. /\ row.error => Shown!Job(row.job).status = "failed"
          /\ row.job \in JobIds
      BY <1>2, <1>4, <2>2
    <3>4. seen.jobs[row.job].ended => db.jobs[row.job].status \in {"completed", "failed"}
      BY <1>4, <2>2, <3>3 DEF ShownInv, JobsOK, StillOver
    <3>5. entry.shown = row /\ entry.completedAt = seen.jobs[row.job].ended
      BY <3>2
    <3> QED
      BY <3>3, <3>4, <3>5 DEF Shown!Job
  <2> QED
    BY <2>1, <2>2
<1>5. Shown!FinalIsFinal
  BY <1>3, <1>4 DEF Shown!FinalIsFinal
<1>6. ASSUME ui.where = "sheet", Shown!Sheet.is = "sheet", Shown!Sheet.player  PROVE db.playlist
  <2>1. CASE seen = Shown!Nothing
    <3>1. Shown!Sheet.is = "loading"
      BY <2>1 DEF Shown!Sheet
    <3> QED
      BY <1>6, <3>1
  <2>2. CASE seen # Shown!Nothing
    <3>1. Shown!PlayerPreview
      BY <1>6, <2>2 DEF Shown!Sheet
    <3> QED
      BY <2>2, <3>1 DEF ShownInv, ReadOK, Shown!PlayerPreview
  <2> QED
    BY <2>1, <2>2
<1>7. ASSUME ui.where = "watch", Shown!WatchPage.is = "watch"  PROVE \E j \in JobIds : Shown!Job(j).status = "completed"
  <2>1. seen # Shown!Nothing
    BY <1>7 DEF Shown!WatchPage
  <2> QED
    BY <1>7, <2>1 DEF ShownInv, Shown!Job
<1> QED
  BY <1>1, <1>5, <1>6, <1>7 DEF Shown!PreviewIsPlayable

\* At the start the video is uploaded and nothing is read.
LEMMA InitShown == ASSUME Shown!Init PROVE ShownInv
<1>1. Renditions \in Nat \ {0} /\ MaxAttempts \in Nat \ {0}
  BY PagesAssumption
<1>2. Shown!NewJob \in JobRows /\ JobOK(Shown!NewJob)
  BY <1>1 DEF Shown!NewJob, JobRows, JobOK, Shown!JobStatus
<1>3. db = [status |-> "uploaded", playlist |-> FALSE, request |-> FALSE, finish |-> "no",
            jobs |-> [j \in JobIds |-> Shown!NewJob]]
  BY DEF Shown!Init
<1>4. db \in VideoRows /\ (\A j \in JobIds : JobOK(db.jobs[j])) /\ db.status # "ready" /\ db.finish = "no"
  BY <1>2, <1>3 DEF VideoRows, VideoStatus
<1>5. ui \in VideoScreen /\ told \in [JobIds -> 0..Renditions]
  BY <1>1 DEF Shown!Init, VideoScreen
<1>6. seen = Shown!Nothing /\ net = Shown!Nothing
  BY DEF Shown!Init
<1> QED
  BY <1>4, <1>5, <1>6 DEF ShownInv, ReadOK

\* A job's row is written: a job that is over stays so.
LEMMA ShownJob ==
  ASSUME ShownInv, NEW j \in JobIds, NEW row \in JobRows, JobOK(row),
         db.jobs[j].status \in {"completed", "failed"} => row.status = db.jobs[j].status,
         db' \in VideoRows, db'.jobs = [db.jobs EXCEPT ![j] = row], db'.playlist = db.playlist, db'.status = db.status,
         db'.finish = db.finish \/ row.status = "completed",
         UNCHANGED <<seen, ui, net>>, told' \in [JobIds -> 0..Renditions]
  PROVE  ShownInv'
<1>1. db.jobs \in [JobIds -> JobRows]
  BY DEF ShownInv, VideoRows
<1>2. db'.jobs[j] = row /\ \A i \in JobIds \ {j} : db'.jobs[i] = db.jobs[i]
  BY <1>1
<1>3. \A i \in JobIds : JobOK(db'.jobs[i])
  BY <1>2 DEF ShownInv
<1>4. \A i \in JobIds : db.jobs[i].status \in {"completed", "failed"} => db'.jobs[i].status = db.jobs[i].status
  BY <1>2
<1>5. ASSUME NEW columns, StillOver(columns, db.jobs)  PROVE StillOver(columns, db'.jobs)
  BY <1>4, <1>5 DEF StillOver
<1>6. ReadOK(seen)' /\ ReadOK(net)'
  BY DEF ShownInv, ReadOK
<1>7. seen' # Shown!Nothing /\ ui'.where # "watch" => JobsOK(seen.jobs)'
  BY <1>5 DEF ShownInv, JobsOK
<1>8. net' # Shown!Nothing /\ net'.jobs # Shown!Nothing => JobsOK(net.jobs)'
  BY <1>5 DEF ShownInv, JobsOK
<1>9. \/ db'.status = "ready" \/ db'.finish # "no"
      \/ ui'.where = "watch" /\ (seen' # Shown!Nothing \/ net' # Shown!Nothing)
      => \E i \in JobIds : db'.jobs[i].status = "completed"
  <2>1. (\E i \in JobIds : db.jobs[i].status = "completed") => \E i \in JobIds : db'.jobs[i].status = "completed"
    BY <1>4
  <2>2. row.status = "completed" => \E i \in JobIds : db'.jobs[i].status = "completed"
    BY <1>2
  <2> QED
    BY <2>1, <2>2 DEF ShownInv
<1> QED
  BY <1>3, <1>6, <1>7, <1>8, <1>9 DEF ShownInv

\* The rows of the jobs are written by requests and workers.
LEMMA ShownWorks ==
  ASSUME ShownInv, NEW j \in JobIds,
         \/ Shown!Create(j) \/ Shown!ClaimPending(j) \/ Shown!NextResolution(j) \/ Shown!Complete(j) \/ Shown!Fail(j)
         \/ Shown!WorkerGone(j) \/ \E percent \in Percents : Shown!progressCb(j, percent)
  PROVE  ShownInv'
<1>1. Renditions \in Nat \ {0} /\ MaxAttempts \in Nat \ {0} /\ Percents \subseteq 0..100
  BY PagesAssumption
<1>2. db \in VideoRows /\ db.jobs \in [JobIds -> JobRows] /\ told \in [JobIds -> 0..Renditions] /\ JobOK(db.jobs[j])
  BY DEF ShownInv, VideoRows
<1>3. PICK job \in JobRows : job = db.jobs[j] /\ JobOK(job)
  BY <1>2
<1>4. Shown!Job(j) = job
  BY <1>3 DEF Shown!Job
<1>5. ASSUME NEW row \in JobRows, db' = [db EXCEPT !.jobs[j] = row]
      PROVE  /\ db' \in VideoRows /\ db'.jobs = [db.jobs EXCEPT ![j] = row] /\ db'.playlist = db.playlist
             /\ db'.status = db.status /\ db'.finish = db.finish
  BY <1>2, <1>5 DEF VideoRows
<1>6. CASE Shown!Create(j)
  <2>1. job.status = "absent" /\ UNCHANGED <<seen, ui, net, told>>
    BY <1>4, <1>6 DEF Shown!Create
  <2>2. PICK row : row = [job EXCEPT !.status = "pending"]
    OBVIOUS
  <2>3. row \in JobRows /\ JobOK(row)
    BY <1>3, <2>1, <2>2 DEF JobRows, JobOK, Shown!JobStatus
  <2>4. db' = [db EXCEPT !.jobs = [db.jobs EXCEPT ![j] = row], !.request = TRUE]
    BY <1>2, <1>3, <1>6, <2>2 DEF Shown!Create, VideoRows, JobRows
  <2>5. /\ db' \in VideoRows /\ db'.jobs = [db.jobs EXCEPT ![j] = row] /\ db'.playlist = db.playlist
        /\ db'.status = db.status /\ db'.finish = db.finish
    BY <1>2, <2>3, <2>4 DEF VideoRows
  <2> QED
    BY <1>2, <1>3, <2>1, <2>3, <2>5, ShownJob
<1>7. CASE Shown!ClaimPending(j)
  <2>1. PICK row : row = [job EXCEPT !.status = "processing", !.attempts = job.attempts + 1, !.at = 1]
    OBVIOUS
  <2>2. job.status = "pending" /\ db' = [db EXCEPT !.jobs[j] = row] /\ UNCHANGED <<seen, ui, net>>
        /\ told' = [told EXCEPT ![j] = 0]
    BY <1>4, <1>7, <2>1 DEF Shown!ClaimPending, Shown!SetJob
  <2>3. row \in JobRows /\ JobOK(row)
    <3>1. job.attempts + 1 \in 0..MaxAttempts /\ 1 \in 0..Renditions /\ ~job.ended
      BY <1>1, <1>3, <2>2 DEF JobRows, JobOK
    <3>2. row \in JobRows
      BY <1>3, <2>1, <3>1 DEF JobRows, Shown!JobStatus
    <3>3. row.status = "processing" /\ row.ended = job.ended
      BY <1>3, <2>1 DEF JobRows
    <3> QED
      BY <3>1, <3>2, <3>3 DEF JobOK
  <2>4. told' \in [JobIds -> 0..Renditions]
    BY <1>1, <1>2, <2>2
  <2> QED
    BY <1>3, <1>5, <2>2, <2>3, <2>4, ShownJob
<1>8. CASE \E percent \in Percents : Shown!progressCb(j, percent)
  <2>1. PICK percent \in 0..100 : Shown!progressCb(j, percent)
    BY <1>1, <1>8
  <2>2. PICK row : row = [job EXCEPT !.progress = job.at - 1 + percent]
    OBVIOUS
  <2>3. job.at \in 1..Renditions /\ db' = [db EXCEPT !.jobs[j] = row] /\ UNCHANGED <<seen, ui, net>>
        /\ told' = [told EXCEPT ![j] = job.at - 1]
    BY <1>4, <2>1, <2>2 DEF Shown!progressCb, Shown!SetJob, Shown!reported
  <2>4. job.at - 1 + percent \in 0..(100 * Renditions) /\ job.at - 1 \in 0..Renditions
    BY <1>1, <2>3
  <2>5. row \in JobRows /\ JobOK(row) /\ row.status = job.status
    BY <1>3, <2>2, <2>4 DEF JobRows, JobOK
  <2>6. told' \in [JobIds -> 0..Renditions]
    BY <1>2, <2>3, <2>4
  <2> QED
    BY <1>3, <1>5, <2>3, <2>5, <2>6, ShownJob
<1>9. CASE Shown!NextResolution(j)
  <2>1. PICK row : row = [job EXCEPT !.at = job.at + 1]
    OBVIOUS
  <2>2. job.at \in 1..(Renditions - 1) /\ db' = [db EXCEPT !.jobs[j] = row] /\ UNCHANGED <<seen, ui, net, told>>
    BY <1>4, <1>9, <2>1 DEF Shown!NextResolution, Shown!SetJob
  <2>3. job.at # 0 /\ job.at + 1 \in 0..Renditions
    BY <1>1, <2>2
  <2>4. row \in JobRows /\ JobOK(row) /\ row.status = job.status
    BY <1>3, <2>1, <2>3 DEF JobRows, JobOK
  <2> QED
    BY <1>2, <1>3, <1>5, <2>2, <2>4, ShownJob
<1>10. CASE Shown!Complete(j)
  <2>1. PICK row : row = [job EXCEPT !.status = "completed", !.progress = 100 * Renditions, !.ended = TRUE, !.at = 0]
    OBVIOUS
  <2>2. PICK finish \in {db.finish, "status"} :
          db' = [db EXCEPT !.jobs = [db.jobs EXCEPT ![j] = row], !.finish = finish]
    BY <1>3, <1>10, <2>1 DEF Shown!Complete
  <2>3. job.at = Renditions /\ UNCHANGED <<seen, ui, net, told>>
    BY <1>4, <1>10 DEF Shown!Complete
  <2>4. job.status = "processing"
    BY <1>1, <1>3, <2>3 DEF JobOK
  <2>5. 100 * Renditions \in 0..(100 * Renditions)
    BY <1>1
  <2>6. row \in JobRows /\ JobOK(row) /\ row.status = "completed"
    <3>1. PICK progress \in 0..(100 * Renditions) : progress = 100 * Renditions
      BY <2>5
    <3>2. row = [job EXCEPT !.status = "completed", !.progress = progress, !.ended = TRUE, !.at = 0]
      BY <2>1, <3>1
    <3>3. 0 \in 0..Renditions
      BY <1>1
    <3>4. row \in JobRows
      BY <1>3, <3>2, <3>3 DEF JobRows, Shown!JobStatus
    <3>5. row.status = "completed" /\ row.at = 0
      BY <1>3, <3>2 DEF JobRows
    <3> QED
      BY <3>4, <3>5 DEF JobOK
  <2>7. /\ db' \in VideoRows /\ db'.jobs = [db.jobs EXCEPT ![j] = row] /\ db'.playlist = db.playlist
        /\ db'.status = db.status
    BY <1>2, <2>2, <2>6 DEF VideoRows
  <2> QED
    BY <1>2, <1>3, <2>3, <2>4, <2>6, <2>7, ShownJob
<1>11. CASE Shown!Fail(j)
  <2>1. PICK status \in {"pending", "failed"}, ended \in BOOLEAN :
          /\ status = IF job.attempts < MaxAttempts THEN "pending" ELSE "failed"
          /\ ended = ~(job.attempts < MaxAttempts)
    <3>1. CASE job.attempts < MaxAttempts
      BY <3>1
    <3>2. CASE ~(job.attempts < MaxAttempts)
      BY <3>2
    <3> QED
      BY <3>1, <3>2
  <2>2. PICK row : row = [job EXCEPT !.status = status, !.error = TRUE, !.ended = ended, !.at = 0]
    OBVIOUS
  <2>3. job.at # 0 /\ db' = [db EXCEPT !.jobs[j] = row] /\ UNCHANGED <<seen, ui, net, told>>
    BY <1>4, <1>11, <2>1, <2>2 DEF Shown!Fail, Shown!SetJob
  <2>4. job.status = "processing"
    BY <1>3, <2>3 DEF JobOK
  <2>5. row \in JobRows /\ JobOK(row)
    <3>1. 0 \in 0..Renditions
      BY <1>1
    <3>2. row \in JobRows
      BY <1>3, <2>2, <3>1 DEF JobRows, Shown!JobStatus
    <3>3. row.status = status /\ row.ended = ended /\ row.at = 0 /\ row.attempts = job.attempts
      BY <1>3, <2>2 DEF JobRows
    <3> QED
      BY <2>1, <3>2, <3>3 DEF JobOK
  <2> QED
    BY <1>2, <1>3, <1>5, <2>3, <2>4, <2>5, ShownJob
<1>12. CASE Shown!WorkerGone(j)
  <2>1. PICK row : row = [job EXCEPT !.at = 0]
    OBVIOUS
  <2>2. db' = [db EXCEPT !.jobs[j] = row] /\ UNCHANGED <<seen, ui, net, told>>
    BY <1>4, <1>12, <2>1 DEF Shown!WorkerGone, Shown!SetJob
  <2>3. row \in JobRows /\ JobOK(row) /\ row.status = job.status
    BY <1>1, <1>3, <2>1 DEF JobRows, JobOK
  <2> QED
    BY <1>2, <1>3, <1>5, <2>2, <2>3, ShownJob
<1> QED
  BY <1>6, <1>7, <1>8, <1>9, <1>10, <1>11, <1>12

\* The status is written by a request, and by the worker that finishes.
LEMMA ShownFinish == ASSUME ShownInv, Shown!SetProcessing \/ Shown!FinishVideo PROVE ShownInv'
<1>1. db \in VideoRows
  BY DEF ShownInv
<1>2. PICK status \in VideoStatus, playlist \in {TRUE, db.playlist}, request \in {FALSE, db.request},
           finish \in {"no", "status", "playlist"} :
        /\ db' = [db EXCEPT !.status = status, !.playlist = playlist, !.request = request, !.finish = finish]
        /\ status = "ready" \/ finish # "no" => db.status = "ready" \/ db.finish # "no"
  <2>1. CASE Shown!SetProcessing
    <3>1. db' = [db EXCEPT !.status = "processing", !.playlist = db.playlist, !.request = FALSE, !.finish = db.finish]
      BY <1>1, <2>1 DEF Shown!SetProcessing, VideoRows
    <3> QED
      BY <1>1, <3>1 DEF VideoRows, VideoStatus
  <2>2. CASE db.finish = "status" /\ db' = [db EXCEPT !.status = "ready", !.finish = "playlist"]
    <3>1. db' = [db EXCEPT !.status = "ready", !.playlist = db.playlist, !.request = db.request, !.finish = "playlist"]
      BY <1>1, <2>2 DEF VideoRows
    <3> QED
      BY <2>2, <3>1 DEF VideoStatus
  <2>3. CASE db.finish = "playlist" /\ \E stored \in BOOLEAN :
               db' = [db EXCEPT !.playlist = db.playlist \/ stored, !.finish = "no"]
    <3>1. PICK stored \in BOOLEAN : db' = [db EXCEPT !.playlist = db.playlist \/ stored, !.finish = "no"]
      BY <2>3
    <3>2. PICK playlist \in {TRUE, db.playlist} : playlist = (db.playlist \/ stored)
      BY <1>1 DEF VideoRows
    <3>3. db' = [db EXCEPT !.status = db.status, !.playlist = playlist, !.request = db.request, !.finish = "no"]
      BY <1>1, <3>1, <3>2 DEF VideoRows
    <3>4. db.status \in VideoStatus
      BY <1>1 DEF VideoRows
    <3> QED
      BY <2>3, <3>3, <3>4
  <2> QED
    BY <2>1, <2>2, <2>3 DEF Shown!FinishVideo
<1>3. /\ db' \in VideoRows /\ db'.jobs = db.jobs /\ (db.playlist => db'.playlist)
      /\ db'.status = status /\ db'.finish = finish
  BY <1>1, <1>2 DEF VideoRows
<1>4. UNCHANGED <<seen, ui, net, told>>
  BY DEF Shown!SetProcessing, Shown!FinishVideo
<1>5. ReadOK(seen)' /\ ReadOK(net)'
  BY <1>3, <1>4 DEF ShownInv, ReadOK
<1>6. ASSUME NEW jobs, JobsOK(jobs)  PROVE jobs \in [JobIds -> JobColumns] /\ StillOver(jobs, db'.jobs)
  BY <1>3, <1>6 DEF JobsOK
<1>7. seen' # Shown!Nothing /\ ui'.where # "watch" => JobsOK(seen.jobs)'
  BY <1>4, <1>6 DEF ShownInv, JobsOK
<1>8. net' # Shown!Nothing /\ net'.jobs # Shown!Nothing => JobsOK(net.jobs)'
  BY <1>4, <1>6 DEF ShownInv, JobsOK
<1> QED
  BY <1>2, <1>3, <1>4, <1>5, <1>7, <1>8 DEF ShownInv

\* A read sees the rows as they are; the page of a video that is ready has a job done.
LEMMA ShownReads ==
  ASSUME ShownInv, Shown!GetVideo \/ Shown!GetJobs \/ Shown!GetPublic \/ Shown!Arrives \/ Shown!ReadFails \/ Shown!Tabs
  PROVE  ShownInv'
<1>1. db \in VideoRows /\ db.jobs \in [JobIds -> JobRows] /\ ui \in VideoScreen
  BY DEF ShownInv, VideoRows
<1>2. db' = db /\ told' = told
  BY DEF Shown!GetVideo, Shown!GetJobs, Shown!GetPublic, Shown!Arrives, Shown!ReadFails, Shown!Tabs
<1>3. ui' \in VideoScreen /\ ui'.where = ui.where
  <2>1. ui' = ui \/ (\E e \in BOOLEAN : ui' = [ui EXCEPT !.error = e])
          \/ \E tab \in {"overview", "caption", "chapters"} : ui' = [ui EXCEPT !.tab = tab]
    BY <1>1 DEF Shown!GetVideo, Shown!GetJobs, Shown!GetPublic, Shown!Arrives, Shown!ReadFails, Shown!Tabs, Shown!Tried, VideoScreen
  <2> QED
    BY <1>1, <2>1 DEF VideoScreen
<1>4. ReadOK(seen') /\ ReadOK(net')
  <2>1. ReadOK(Shown!AsVideo)
    BY <1>1 DEF ReadOK, Shown!AsVideo, VideoRows
  <2>2. CASE Shown!GetJobs
    <3>1. net # Shown!Nothing /\ net' = [net EXCEPT !.jobs = [j \in JobIds |-> Shown!Columns(j)]] /\ seen' = seen
      BY <2>2 DEF Shown!GetJobs
    <3>2. net'.read = net.read /\ net'.status = net.status /\ net'.playlist = net.playlist
      BY <3>1
    <3> QED
      BY <3>1, <3>2 DEF ShownInv, ReadOK
  <2>3. CASE ~Shown!GetJobs
    <3>1. {seen', net'} \subseteq {seen, net, Shown!Nothing, Shown!AsVideo}
      BY <2>3 DEF Shown!GetVideo, Shown!GetPublic, Shown!Arrives, Shown!ReadFails, Shown!Tabs
    <3>2. ReadOK(Shown!Nothing)
      BY DEF ReadOK
    <3> QED
      BY <2>1, <3>1, <3>2 DEF ShownInv
  <2> QED
    BY <2>2, <2>3
<1>5. JobsOK([j \in JobIds |-> Shown!Columns(j)])
  <2>1. ASSUME NEW j \in JobIds
        PROVE  /\ Shown!Columns(j) \in JobColumns
               /\ Shown!Columns(j).status = db.jobs[j].status /\ Shown!Columns(j).ended = db.jobs[j].ended
    <3>1. db.jobs[j] \in JobRows
      BY <1>1
    <3> QED
      BY <3>1 DEF Shown!Columns, Shown!Job, JobColumns, JobRows
  <2>2. \A j \in JobIds : JobOK(db.jobs[j])
    BY DEF ShownInv
  <2>3. \A j \in JobIds : db.jobs[j].ended => db.jobs[j].status \in {"completed", "failed"}
    BY <2>2 DEF JobOK
  <2> QED
    BY <2>1, <2>3 DEF JobsOK, StillOver
<1>6. seen' # Shown!Nothing /\ ui.where # "watch" => JobsOK(seen'.jobs)
  <2>1. CASE Shown!Arrives
    <3>1. seen' = net /\ net # Shown!Nothing /\ (net.jobs = Shown!Nothing => ui.where = "watch")
      BY <2>1 DEF Shown!Arrives
    <3> QED
      BY <3>1 DEF ShownInv
  <2>2. CASE ~Shown!Arrives
    <3>1. seen' = seen
      BY <2>2 DEF Shown!GetVideo, Shown!GetJobs, Shown!GetPublic, Shown!ReadFails, Shown!Tabs
    <3> QED
      BY <3>1 DEF ShownInv
  <2> QED
    BY <2>1, <2>2
<1>7. net' # Shown!Nothing /\ net'.jobs # Shown!Nothing => JobsOK(net'.jobs)
  <2>1. CASE Shown!GetJobs
    <3>1. PICK columns : columns = [j \in JobIds |-> Shown!Columns(j)]
      OBVIOUS
    <3>2. CASE net'.jobs = columns
      BY <1>5, <3>1, <3>2
    <3>3. CASE net'.jobs # columns
      <4>1. net' = [net EXCEPT !.jobs = columns]
        BY <2>1, <3>1 DEF Shown!GetJobs
      <4>2. "jobs" \in DOMAIN net
        BY <2>1 DEF Shown!GetJobs, ShownInv, ReadOK
      <4> QED
        BY <3>3, <4>1, <4>2
    <3> QED
      BY <3>2, <3>3
  <2>2. CASE ~Shown!GetJobs
    <3>1. net' \in {net, Shown!Nothing, Shown!AsVideo}
      BY <2>2 DEF Shown!GetVideo, Shown!GetPublic, Shown!Arrives, Shown!ReadFails, Shown!Tabs
    <3>2. Shown!AsVideo.jobs = Shown!Nothing
      BY DEF Shown!AsVideo
    <3> QED
      BY <3>1, <3>2 DEF ShownInv
  <2> QED
    BY <2>1, <2>2
<1>8. ui.where = "watch" /\ (seen' # Shown!Nothing \/ net' # Shown!Nothing)
        => db.status = "ready" \/ seen # Shown!Nothing \/ net # Shown!Nothing
  BY DEF Shown!GetVideo, Shown!GetJobs, Shown!GetPublic, Shown!Arrives, Shown!ReadFails, Shown!Tabs
<1>9. ReadOK(seen)' /\ ReadOK(net)'
  BY <1>2, <1>4 DEF ReadOK
<1>10. ASSUME NEW jobs, JobsOK(jobs)  PROVE jobs \in [JobIds -> JobColumns] /\ StillOver(jobs, db'.jobs)
  BY <1>2, <1>10 DEF JobsOK
<1>11. seen' # Shown!Nothing /\ ui'.where # "watch" => JobsOK(seen.jobs)'
  BY <1>3, <1>6, <1>10 DEF JobsOK
<1>12. net' # Shown!Nothing /\ net'.jobs # Shown!Nothing => JobsOK(net.jobs)'
  BY <1>7, <1>10 DEF JobsOK
<1>13. \/ db'.status = "ready" \/ db'.finish # "no"
       \/ ui'.where = "watch" /\ (seen' # Shown!Nothing \/ net' # Shown!Nothing)
       => \E j \in JobIds : db'.jobs[j].status = "completed"
  BY <1>2, <1>3, <1>8 DEF ShownInv
<1>14. \A j \in JobIds : JobOK(db.jobs[j])
  BY DEF ShownInv
<1>15. \A j \in JobIds : JobOK(db'.jobs[j])
  BY <1>2, <1>14
<1>16. told' \in [JobIds -> 0..Renditions] /\ db' \in VideoRows
  BY <1>1, <1>2 DEF ShownInv
<1> QED
  BY <1>3, <1>9, <1>11, <1>12, <1>13, <1>15, <1>16 DEF ShownInv

\* Each step keeps the invariant.
LEMMA NextShown == ASSUME ShownInv, Shown!Next PROVE ShownInv'
<1>1. CASE \E j \in JobIds :
             \/ Shown!Create(j) \/ Shown!ClaimPending(j) \/ Shown!NextResolution(j) \/ Shown!Complete(j) \/ Shown!Fail(j)
             \/ Shown!WorkerGone(j) \/ \E percent \in Percents : Shown!progressCb(j, percent)
  BY <1>1, ShownWorks
<1> QED
  BY <1>1, ShownFinish, ShownReads DEF Shown!Next

----------------------------------------------------------------------------
(* A preset, from its dialog to the encoder *)

EncodingKeys ==
  {"output_format", "codec", "preset_speed", "hls_segment_duration", "encryption", "key_rotation_interval", "hw_accel",
   "signed_url_enabled", "signed_url_expiry", "thumbnail_enabled", "thumbnail_interval", "banner_enabled",
   "banner_timestamp", "audio_codec", "crf", "movflags", "faststart", "two_pass", "is_default", "framerate",
   "extra_flags", "resolution", "resolutions"}

\* A preset, or the form of one, is as the preset was first but for what was changed in
\* forms and what a form leaves out or fills in.
EncodingOK(preset, first, fields) ==
  /\ DOMAIN preset = EncodingKeys
  /\ preset.hls_segment_duration \in {0, 4, 6}
  /\ preset.signed_url_enabled \in BOOLEAN /\ preset.signed_url_expiry \in {0, 3600}
  /\ preset.thumbnail_enabled \in BOOLEAN /\ preset.thumbnail_interval \in {0, 10}
  /\ preset.resolution = 1081 /\ preset.resolutions \in {<<>>, << 1081 >>}
  /\ \A k \in EncodingKeys \ {"extra_flags", "resolutions"} : k \in fields \/ preset[k] = first[k]
FormOK(form, first, fields) == form = None \/ (EncodingOK(form, first, fields) /\ form.resolutions = << 1081 >>)
Usable(preset) ==
  /\ preset.signed_url_enabled => preset.signed_url_expiry = 3600
  /\ preset.thumbnail_enabled => preset.thumbnail_interval = 10

EncodingInv ==
  /\ \A preset \in {db, seen, told.first} : EncodingOK(preset, told.first, told.fields)
  /\ \A form \in {ui, net} : FormOK(form, told.first, told.fields)
  /\ db.extra_flags = told.first.extra_flags
  /\ Usable(db) /\ (net # None => Usable(net))
  /\ told \in [first: {told.first}, fields: SUBSET EncodingKeys, changes: 0..MaxChanges]

\* Two presets that agree but for the list of resolutions, of which each means the same
\* one, have the same runs.
LEMMA EncodingRuns ==
  ASSUME NEW p, NEW q, \A k \in EncodingKeys \ {"resolutions"} : p[k] = q[k],
         p.resolution = 1081, p.resolutions \in {<<>>, << 1081 >>}, q.resolutions \in {<<>>, << 1081 >>}
  PROVE  /\ Encoding!Runs(p) = Encoding!Runs(q)
         /\ Encoding!Runs(p) = [i \in 1..1 |-> Encoding!buildFFmpegArgs(p, 1081)]
<1>1. /\ p.codec = q.codec /\ p.preset_speed = q.preset_speed /\ p.hls_segment_duration = q.hls_segment_duration
      /\ p.encryption = q.encryption /\ p.key_rotation_interval = q.key_rotation_interval /\ p.hw_accel = q.hw_accel
      /\ p.audio_codec = q.audio_codec /\ p.crf = q.crf /\ p.movflags = q.movflags /\ p.faststart = q.faststart
      /\ p.framerate = q.framerate /\ p.extra_flags = q.extra_flags /\ p.resolution = q.resolution
  BY DEF EncodingKeys
<1>2. Encoding!buildFFmpegArgs(p, 1081) = Encoding!buildFFmpegArgs(q, 1081)
  BY <1>1 DEF Encoding!buildFFmpegArgs, Encoding!hlsTime, Encoding!keyInfo
<1>3. ASSUME NEW x, x.resolution = 1081, x.resolutions \in {<<>>, << 1081 >>}
      PROVE  Encoding!Runs(x) = [i \in 1..1 |-> Encoding!buildFFmpegArgs(x, 1081)]
  <2>1. (IF x.resolutions = <<>> THEN <<x.resolution>> ELSE x.resolutions) = << 1081 >>
    BY <1>3
  <2>2. Encoding!Runs(x) = [i \in DOMAIN << 1081 >> |-> Encoding!buildFFmpegArgs(x, << 1081 >>[i])]
    BY <2>1 DEF Encoding!Runs
  <2>3. DOMAIN << 1081 >> = 1..1 /\ \A i \in 1..1 : << 1081 >>[i] = 1081
    OBVIOUS
  <2> QED
    BY <2>2, <2>3
<1>4. Encoding!Runs(p) = [i \in 1..1 |-> Encoding!buildFFmpegArgs(p, 1081)]
  BY <1>3
<1>5. Encoding!Runs(q) = [i \in 1..1 |-> Encoding!buildFFmpegArgs(q, 1081)]
  BY <1>1, <1>3
<1> QED
  BY <1>2, <1>4, <1>5

\* What the dialog and the encoder promise follows.
LEMMA EncodingMeaning ==
  ASSUME EncodingInv
  PROVE  Encoding!TypeOK /\ Encoding!OtherArgumentsStay /\ Encoding!EnabledIsUsable /\ Encoding!RunsAreLegal
<1>1. EncodingOK(db, told.first, told.fields) /\ EncodingOK(told.first, told.first, told.fields) /\ DOMAIN db = EncodingKeys
  BY DEF EncodingInv, EncodingOK
<1>2. PICK other : other = [k \in DOMAIN db |-> IF k \in told.fields THEN db[k] ELSE told.first[k]]
  OBVIOUS
<1>3. \A k \in EncodingKeys \ {"extra_flags", "resolutions"} : db[k] = other[k]
  BY <1>1, <1>2 DEF EncodingOK
<1>4. "extra_flags" \in EncodingKeys /\ "resolutions" \in EncodingKeys
  BY DEF EncodingKeys
<1>5. db.extra_flags = other.extra_flags
  BY <1>1, <1>2, <1>4 DEF EncodingInv
<1>6. other.resolutions \in {<<>>, << 1081 >>}
  BY <1>1, <1>2, <1>4 DEF EncodingOK
<1>7. \A k \in EncodingKeys \ {"resolutions"} : db[k] = other[k]
  BY <1>3, <1>5
<1>8. db.resolution = 1081 /\ db.resolutions \in {<<>>, << 1081 >>}
  BY <1>1 DEF EncodingOK
<1>9. /\ Encoding!Runs(db) = Encoding!Runs(other)
      /\ Encoding!Runs(db) = [i \in 1..1 |-> Encoding!buildFFmpegArgs(db, 1081)]
  BY <1>6, <1>7, <1>8, EncodingRuns
<1>10. Encoding!OtherArgumentsStay
  BY <1>2, <1>9 DEF Encoding!OtherArgumentsStay
<1>11. Encoding!buildFFmpegArgs(db, 1081).hls_time > 0 /\ Encoding!buildFFmpegArgs(db, 1081).scale % 2 = 0
  <2>1. Encoding!hlsTime(db) > 0
    BY <1>1 DEF EncodingOK, Encoding!hlsTime
  <2>2. Encoding!Even(1081) = 1080 /\ 1080 % 2 = 0
    BY DEF Encoding!Even
  <2>3. Encoding!buildFFmpegArgs(db, 1081).hls_time = Encoding!hlsTime(db)
    BY DEF Encoding!buildFFmpegArgs
  <2>4. Encoding!buildFFmpegArgs(db, 1081).scale = Encoding!Even(1081)
    BY DEF Encoding!buildFFmpegArgs
  <2> QED
    BY <2>1, <2>2, <2>3, <2>4
<1>12. Encoding!RunsAreLegal
  BY <1>9, <1>11 DEF Encoding!RunsAreLegal
<1>13. Encoding!EnabledIsUsable
  BY DEF EncodingInv, Usable, Encoding!EnabledIsUsable
<1>14. Encoding!TypeOK
  BY DEF EncodingInv, EncodingOK, FormOK, Encoding!TypeOK
<1> QED
  BY <1>10, <1>12, <1>13, <1>14

\* At the start the preset is as it was first.
LEMMA InitEncoding == ASSUME Encoding!Init PROVE EncodingInv
<1>1. PICK signed \in BOOLEAN, old \in BOOLEAN : db = Encoding!StoredPreset(signed, old)
  BY DEF Encoding!Init, Encoding!Presets
<1>2. DOMAIN db = EncodingKeys
  BY <1>1 DEF EncodingKeys, Encoding!StoredPreset
<1>3. /\ db.hls_segment_duration = 6 /\ db.resolution = 1081
      /\ db.thumbnail_enabled = FALSE /\ db.thumbnail_interval = 10
  BY <1>1 DEF Encoding!StoredPreset
<1>4. db.resolutions \in {<<>>, << 1081 >>}
  <2>1. db.resolutions = IF old THEN <<>> ELSE << 1081 >>
    BY <1>1 DEF Encoding!StoredPreset
  <2> QED
    BY <2>1
<1>5. /\ db.signed_url_enabled \in BOOLEAN /\ db.signed_url_expiry \in {0, 3600}
      /\ db.signed_url_enabled => db.signed_url_expiry = 3600
  <2>1. db.signed_url_enabled = signed /\ db.signed_url_expiry = IF signed THEN 3600 ELSE 0
    BY <1>1 DEF Encoding!StoredPreset
  <2> QED
    BY <2>1
<1>6. told = [first |-> db, fields |-> {}, changes |-> 0] /\ seen = db /\ ui = None /\ net = None
  BY DEF Encoding!Init
<1>7. told.first = db
  BY <1>6
<1>8. EncodingOK(db, told.first, told.fields)
  BY <1>2, <1>3, <1>4, <1>5, <1>7 DEF EncodingOK
<1>9. told \in [first: {told.first}, fields: SUBSET EncodingKeys, changes: 0..MaxChanges]
  BY <1>6, PagesAssumption
<1>10. Usable(db)
  BY <1>3, <1>5 DEF Usable
<1> QED
  BY <1>6, <1>7, <1>8, <1>9, <1>10 DEF EncodingInv, FormOK

\* A change is to a field of the dialog, and to a value of it.
LEMMA EncodingOffers ==
  ASSUME NEW form, NEW change \in Encoding!Offered(form)
  PROVE  /\ change[1] \in EncodingKeys \ {"extra_flags", "framerate", "resolution", "resolutions"}
         /\ change[1] = "hls_segment_duration" => change[2] \in {0, 4, 6}
         /\ change[1] \in {"signed_url_enabled", "thumbnail_enabled"} => change[2] \in BOOLEAN
         /\ change[1] = "signed_url_expiry" => change[2] \in {0, 3600}
         /\ change[1] = "thumbnail_interval" => change[2] \in {0, 10}
<1>1. \A key, values : \A c \in Encoding!setField(key, values) : c[1] = key /\ c[2] \in values
  BY DEF Encoding!setField
<1>2. \/ change[1] \in {"output_format", "codec", "preset_speed", "encryption", "key_rotation_interval", "hw_accel",
                         "banner_enabled", "banner_timestamp", "audio_codec", "crf", "movflags", "faststart", "two_pass",
                         "is_default"}
      \/ change[1] = "hls_segment_duration" /\ change[2] \in {0, 4}
      \/ change[1] \in {"signed_url_enabled", "thumbnail_enabled"} /\ change[2] \in BOOLEAN
      \/ change[1] = "signed_url_expiry" /\ change[2] \in {0, 3600}
      \/ change[1] = "thumbnail_interval" /\ change[2] \in {0, 10}
  <2>1. CASE change \in Encoding!OutputAndCodec \cup Encoding!Bitrate \cup Encoding!HlsSpecific(form)
    BY <1>1, <2>1 DEF Encoding!OutputAndCodec, Encoding!Bitrate, Encoding!HlsSpecific
  <2>2. CASE change \in Encoding!Encryption(form) \cup Encoding!HardwareAcceleration
    BY <1>1, <2>2 DEF Encoding!Encryption, Encoding!HardwareAcceleration
  <2>3. CASE change \in Encoding!SignedURL(form)
    BY <1>1, <2>3 DEF Encoding!SignedURL
  <2>4. CASE change \in Encoding!Thumbnail(form) \cup Encoding!Banner(form)
    BY <1>1, <2>4 DEF Encoding!Thumbnail, Encoding!Banner
  <2>5. CASE change \in Encoding!AudioSettings \cup Encoding!DefaultPreset
    BY <1>1, <2>5 DEF Encoding!AudioSettings, Encoding!DefaultPreset
  <2>6. CASE change \in Encoding!FFmpegFlags
    <3>1. \/ change \in Encoding!setField("crf", {0, 23}) \/ change \in Encoding!setField("movflags", {"", "+faststart"})
          \/ change \in Encoding!setField("faststart", BOOLEAN) \/ change \in Encoding!setField("two_pass", BOOLEAN)
      BY <2>6 DEF Encoding!FFmpegFlags
    <3>2. \A key, values : change \in Encoding!setField(key, values) => change[1] = key
      BY DEF Encoding!setField
    <3>3. change[1] \in {"crf", "movflags", "faststart", "two_pass"}
      BY <3>1, <3>2
    <3> QED
      BY <3>3
  <2> QED
    BY <2>1, <2>2, <2>3, <2>4, <2>5, <2>6 DEF Encoding!Offered
<1> QED
  BY <1>2 DEF EncodingKeys

\* The numbers below a switch that is on are shown, and so have their least values.
LEMMA EncodingSubmits ==
  ASSUME NEW form, EncodingOK(form, told.first, told.fields), Encoding!Submits(form)
  PROVE  Usable(form)
<1>1. ASSUME NEW key \in Encoding!Numbers, NEW value, <<key, value>> \in Encoding!Offered(form)
      PROVE  form[key] >= Encoding!Least(key)
  <2>1. PICK change \in Encoding!Offered(form) : change = <<key, value>>
    BY <1>1
  <2>2. change[1] = key
    BY <2>1
  <2>3. key \in Encoding!Shown(form)
    BY <2>2 DEF Encoding!Shown
  <2> QED
    BY <2>3 DEF Encoding!Submits
<1>2. ASSUME form.signed_url_enabled  PROVE form.signed_url_expiry = 3600
  <2>1. <<"signed_url_expiry", 0>> \in Encoding!SignedURL(form)
    BY <1>2 DEF Encoding!SignedURL, Encoding!setField
  <2>2. <<"signed_url_expiry", 0>> \in Encoding!Offered(form)
    BY <2>1 DEF Encoding!Offered
  <2>3. "signed_url_expiry" \in Encoding!Numbers /\ Encoding!Least("signed_url_expiry") = 60
    BY DEF Encoding!Numbers, Encoding!Least
  <2>4. form.signed_url_expiry >= 60
    BY <1>1, <2>2, <2>3
  <2> QED
    BY <2>4 DEF EncodingOK
<1>3. ASSUME form.thumbnail_enabled  PROVE form.thumbnail_interval = 10
  <2>1. <<"thumbnail_interval", 0>> \in Encoding!Thumbnail(form)
    BY <1>3 DEF Encoding!Thumbnail, Encoding!setField
  <2>2. <<"thumbnail_interval", 0>> \in Encoding!Offered(form)
    BY <2>1 DEF Encoding!Offered
  <2>3. "thumbnail_interval" \in Encoding!Numbers /\ Encoding!Least("thumbnail_interval") = 1
    BY DEF Encoding!Numbers, Encoding!Least
  <2>4. form.thumbnail_interval >= 1
    BY <1>1, <2>2, <2>3
  <2> QED
    BY <2>4 DEF EncodingOK
<1> QED
  BY <1>2, <1>3 DEF Usable

\* Each step keeps the invariant.
LEMMA NextEncoding == ASSUME EncodingInv, Encoding!Next PROVE EncodingInv'
<1> USE DEF EncodingInv
<1> DEFINE OK(preset) == EncodingOK(preset, told.first, told.fields)
<1>1. CASE Encoding!OpensForm
  <2>1. ui' = Encoding!openEdit(seen) /\ UNCHANGED <<db, seen, net, told>> /\ OK(seen)
    BY <1>1 DEF Encoding!OpensForm
  <2>2. DOMAIN seen = EncodingKeys /\ seen.resolutions \in {<<>>, << 1081 >>} /\ seen.resolution = 1081
    BY <2>1 DEF EncodingOK
  <2>3. PICK form : form = ui'
    OBVIOUS
  <2>4. form = [seen EXCEPT !.extra_flags = None, !.resolutions = << 1081 >>]
    <3>1. PICK bare : bare = [seen EXCEPT !.extra_flags = None]
      OBVIOUS
    <3>2. DOMAIN bare = EncodingKeys /\ "resolutions" \in EncodingKeys
      BY <2>2, <3>1 DEF EncodingKeys
    <3>3. bare.resolutions = seen.resolutions
      BY <2>2, <3>1, <3>2
    <3>4. form = [bare EXCEPT !.resolutions =
                    IF bare.resolutions = <<>> THEN <<seen.resolution>> ELSE bare.resolutions]
      BY <2>1, <2>3, <3>1 DEF Encoding!openEdit
    <3>5. (IF bare.resolutions = <<>> THEN <<seen.resolution>> ELSE bare.resolutions) = << 1081 >>
      BY <2>2, <3>3
    <3>6. form = [bare EXCEPT !.resolutions = << 1081 >>]
      BY <3>4, <3>5
    <3> QED
      BY <3>1, <3>6
  <2>5. DOMAIN form = EncodingKeys
    BY <2>2, <2>4
  <2>6. form.resolutions = << 1081 >> /\ \A k \in EncodingKeys \ {"extra_flags", "resolutions"} : form[k] = seen[k]
    <3>1. PICK bare : bare = [seen EXCEPT !.extra_flags = None]
      OBVIOUS
    <3>2. DOMAIN bare = EncodingKeys /\ \A k \in EncodingKeys \ {"extra_flags"} : bare[k] = seen[k]
      BY <2>2, <3>1
    <3>3. form = [bare EXCEPT !.resolutions = << 1081 >>] /\ "resolutions" \in EncodingKeys
      BY <2>4, <3>1 DEF EncodingKeys
    <3> QED
      BY <3>2, <3>3
  <2>7. /\ form.hls_segment_duration = seen.hls_segment_duration /\ form.resolution = seen.resolution
        /\ form.signed_url_enabled = seen.signed_url_enabled /\ form.signed_url_expiry = seen.signed_url_expiry
        /\ form.thumbnail_enabled = seen.thumbnail_enabled /\ form.thumbnail_interval = seen.thumbnail_interval
    BY <2>6 DEF EncodingKeys
  <2>8. OK(form)
    BY <2>1, <2>5, <2>6, <2>7 DEF EncodingOK
  <2>9. FormOK(form, told.first, told.fields)
    BY <2>6, <2>8 DEF FormOK
  <2> QED
    BY <2>1, <2>3, <2>9
<1>2. CASE Encoding!ChangesField
  <2>1. PICK change \in Encoding!Offered(ui) :
          /\ ui' = [ui EXCEPT ![change[1]] = change[2]]
          /\ told' = [told EXCEPT !.fields = told.fields \cup {change[1]}, !.changes = told.changes + 1]
    BY <1>2 DEF Encoding!ChangesField
  <2>2. ui # None /\ told.changes < MaxChanges /\ UNCHANGED <<db, seen, net>>
    BY <1>2 DEF Encoding!ChangesField
  <2>3. OK(ui) /\ ui.resolutions = << 1081 >>
    BY <2>2 DEF FormOK
  <2>4. PICK key, value : key = change[1] /\ value = change[2]
    OBVIOUS
  <2>5. /\ key \in EncodingKeys \ {"extra_flags", "framerate", "resolution", "resolutions"}
        /\ key = "hls_segment_duration" => value \in {0, 4, 6}
        /\ key \in {"signed_url_enabled", "thumbnail_enabled"} => value \in BOOLEAN
        /\ key = "signed_url_expiry" => value \in {0, 3600}
        /\ key = "thumbnail_interval" => value \in {0, 10}
    BY <2>4, EncodingOffers
  <2>6. PICK form : form = [ui EXCEPT ![key] = value] /\ form = ui'
    BY <2>1, <2>4
  <2>7. DOMAIN form = EncodingKeys /\ form[key] = value /\ \A k \in EncodingKeys \ {key} : form[k] = ui[k]
    BY <2>3, <2>5, <2>6 DEF EncodingOK
  <2>8. PICK first, fields :
          /\ first = told.first /\ fields = told.fields \cup {key} /\ fields \subseteq EncodingKeys
          /\ told'.first = first /\ told'.fields = fields
          /\ told' \in [first: {first}, fields: SUBSET EncodingKeys, changes: 0..MaxChanges]
    <3>1. PICK first, fields : first = told.first /\ fields = told.fields \cup {key}
      OBVIOUS
    <3>2. PICK changes \in 0..MaxChanges : changes = told.changes + 1
      BY <2>2, PagesAssumption
    <3>3. told' = [told EXCEPT !.fields = fields, !.changes = changes]
      BY <2>1, <2>4, <3>1, <3>2
    <3>4. fields \subseteq EncodingKeys
      BY <2>5, <3>1
    <3>5. told \in [first: {first}, fields: SUBSET EncodingKeys, changes: 0..MaxChanges]
      BY <3>1
    <3>6. told'.first = first /\ told'.fields = fields
      BY <3>3, <3>5
    <3>7. told' \in [first: {first}, fields: SUBSET EncodingKeys, changes: 0..MaxChanges]
      BY <3>3, <3>4, <3>5
    <3> QED
      BY <3>1, <3>4, <3>6, <3>7
  <2>9. EncodingOK(form, first, fields) /\ form.resolutions = << 1081 >>
    <3>1. {"hls_segment_duration", "signed_url_enabled", "signed_url_expiry", "thumbnail_enabled", "thumbnail_interval",
           "resolution", "resolutions"} \subseteq EncodingKeys
      BY DEF EncodingKeys
    <3>2. form.hls_segment_duration \in {0, 4, 6} /\ form.signed_url_expiry \in {0, 3600} /\ form.thumbnail_interval \in {0, 10}
      BY <2>3, <2>5, <2>7, <3>1 DEF EncodingOK
    <3>3. form.signed_url_enabled \in BOOLEAN /\ form.thumbnail_enabled \in BOOLEAN
      BY <2>3, <2>5, <2>7, <3>1 DEF EncodingOK
    <3>4. form.resolution = 1081 /\ form.resolutions = << 1081 >>
      BY <2>3, <2>5, <2>7, <3>1 DEF EncodingOK
    <3>5. \A k \in EncodingKeys \ {"extra_flags", "resolutions"} : k \in fields \/ form[k] = first[k]
      BY <2>3, <2>7, <2>8 DEF EncodingOK
    <3> QED
      BY <2>7, <3>2, <3>3, <3>4, <3>5 DEF EncodingOK
  <2>10. \A preset : OK(preset) => EncodingOK(preset, first, fields)
    BY <2>8 DEF EncodingOK
  <2>11. \A preset \in {db, seen, first} : EncodingOK(preset, first, fields)
    BY <2>8, <2>10
  <2>12. \A f \in {form, net} : FormOK(f, first, fields)
    BY <2>9, <2>10 DEF FormOK
  <2> QED
    BY <2>2, <2>6, <2>8, <2>11, <2>12
<1>3. CASE Encoding!Saves
  <2>1. ui # None /\ Encoding!Submits(ui) /\ net' = ui /\ UNCHANGED <<db, seen, ui, told>>
    BY <1>3 DEF Encoding!Saves
  <2>2. OK(ui)
    BY <2>1 DEF FormOK
  <2>3. Usable(ui)
    BY <2>1, <2>2, EncodingSubmits
  <2> QED
    BY <2>1, <2>3
<1>4. CASE Encoding!Closes \/ Encoding!ListRead
  <2>1. FormOK(None, told.first, told.fields)
    BY DEF FormOK
  <2> QED
    BY <1>4, <2>1 DEF Encoding!Closes, Encoding!ListRead
<1>5. CASE Encoding!Update
  <2>1. net # None /\ net' = None /\ UNCHANGED <<seen, told>>
    BY <1>5 DEF Encoding!Update
  <2>2. FormOK(None, told.first, told.fields)
    BY DEF FormOK
  <2>3. CASE db' = db /\ ui' = ui
    BY <2>1, <2>2, <2>3
  <2>4. CASE db' = Encoding!Merged(db, net) /\ ui' = None
    <3>1. OK(net) /\ net.resolutions = << 1081 >> /\ Usable(net)
      BY <2>1 DEF FormOK
    <3>2. PICK framerate, resolution :
            /\ framerate = IF net.framerate = None THEN db.framerate ELSE net.framerate
            /\ resolution = Head(net.resolutions)
      OBVIOUS
    <3>3. resolution = 1081
      BY <3>1, <3>2
    <3>4. "framerate" \in told.fields \/ framerate = told.first.framerate
      BY <3>1, <3>2 DEF EncodingOK, EncodingKeys
    <3>5. PICK preset : preset = [net EXCEPT !.framerate = framerate, !.extra_flags = db.extra_flags, !.resolution = resolution]
      OBVIOUS
    <3>6. db' = preset
      BY <2>4, <3>2, <3>5 DEF Encoding!Merged
    <3>7. DOMAIN preset = EncodingKeys /\ DOMAIN net = EncodingKeys
      BY <3>1, <3>5 DEF EncodingOK
    <3>8. /\ preset.framerate = framerate /\ preset.extra_flags = db.extra_flags /\ preset.resolution = 1081
          /\ \A k \in EncodingKeys \ {"framerate", "extra_flags", "resolution"} : preset[k] = net[k]
      <4>1. {"framerate", "extra_flags", "resolution"} \subseteq EncodingKeys
        BY DEF EncodingKeys
      <4> QED
        BY <3>3, <3>5, <3>7, <4>1
    <3>9. /\ preset.hls_segment_duration = net.hls_segment_duration /\ preset.resolutions = net.resolutions
          /\ preset.signed_url_enabled = net.signed_url_enabled /\ preset.signed_url_expiry = net.signed_url_expiry
          /\ preset.thumbnail_enabled = net.thumbnail_enabled /\ preset.thumbnail_interval = net.thumbnail_interval
      BY <3>8 DEF EncodingKeys
    <3>10. told.first.resolution = 1081
      BY DEF EncodingOK
    <3>11. \A k \in EncodingKeys \ {"extra_flags", "resolutions"} : k \in told.fields \/ preset[k] = told.first[k]
      BY <3>1, <3>4, <3>8, <3>10 DEF EncodingOK
    <3>12. OK(preset)
      BY <3>1, <3>7, <3>8, <3>9, <3>11 DEF EncodingOK
    <3>13. Usable(preset)
      BY <3>1, <3>9 DEF Usable
    <3> QED
      BY <2>1, <2>2, <2>4, <3>6, <3>8, <3>12, <3>13
  <2> QED
    BY <1>5, <2>3, <2>4 DEF Encoding!Update
<1> QED
  BY <1>1, <1>2, <1>3, <1>4, <1>5 DEF Encoding!Next

----------------------------------------------------------------------------
(* All pages *)

PagesInv ==
  /\ page = "users" => UsersInv
  /\ page = "presets" => PresetsInv
  /\ page = "webhooks" => WebhooksInv
  /\ page = "account" => AccountInv
  /\ page = "captions" => CaptionsInv
  /\ page = "settings" => SettingsInv /\ EditsInv
  /\ page = "rows" => Rows!ConfirmedIsDeleted
  /\ page = "password" => PasswordInv
  /\ page = "options" => OptionsInv
  /\ page = "chat" => ChatInv
  /\ page = "landing" => LandingInv
  /\ page = "reset" => ResetInv
  /\ page = "player" => PlayerInv
  /\ page = "encoding" => EncodingInv
  /\ page = "shown" => ShownInv
  /\ page = "play" => PlayInv

\* Whichever page is chosen, its invariant holds at the start.
LEMMA InitPages == ASSUME Init PROVE PagesInv
BY InitUsers, InitPresets, InitWebhooks, InitAccount, InitCaptions, InitSettings, InitEdits, InitRows, InitPassword,
   InitOptions, InitChat, InitLanding, InitReset, InitPlayer, InitEncoding, InitShown, InitPlay
  DEF Init, PagesInv

\* A step is one of the page that was chosen, which stays.
LEMMA PageSteps ==
  ASSUME Next
  PROVE  /\ page' = page
         /\ page = "users" => Users!Next
         /\ page = "presets" => Presets!Next
         /\ page = "webhooks" => Webhooks!Next
         /\ page = "account" => Account!Next
         /\ page = "captions" => Captions!Next
         /\ page = "settings" => Settings!Next
         /\ page = "rows" => Rows!Next
         /\ page = "password" => Password!Next
         /\ page = "options" => Options!Next
         /\ page = "chat" => Chat!Next
         /\ page = "landing" => Landing!Next
         /\ page = "reset" => Reset!Next
         /\ page = "player" => Player!Next
         /\ page = "encoding" => Encoding!Next
         /\ page = "shown" => Shown!Next
         /\ page = "play" => Play!Next
BY DEF Next

\* What does not look at the page does not notice that nothing happens.
LEMMA StutterPages == ASSUME PagesInv, UNCHANGED vars PROVE PagesInv'
<1> USE DEF vars
<1>1. CASE page = "users"
  BY <1>1 DEF PagesInv, UsersInv, UsersEditor, EditorInv, UsersUI
<1>2. CASE page = "presets"
  BY <1>2 DEF PagesInv, PresetsInv, PresetsEditor, EditorInv, PresetsUI
<1>3. CASE page = "webhooks"
  BY <1>3 DEF PagesInv, WebhooksInv, WebhooksEditor, EditorInv, WebhooksUI
<1>4. CASE page = "account"
  BY <1>4 DEF PagesInv, AccountInv, Account!TypeOK
<1>5. CASE page = "captions"
  BY <1>5 DEF PagesInv, CaptionsInv
<1>6. CASE page = "settings"
  BY <1>6 DEF PagesInv, SettingsInv, EditsInv, Settings!SavedIsShown, Settings!EditsKept
<1>7. CASE page = "rows"
  BY <1>7 DEF PagesInv, Rows!ConfirmedIsDeleted
<1>8. CASE page = "password"
  BY <1>8 DEF PagesInv, PasswordInv
<1>9. CASE page = "options"
  BY <1>9 DEF PagesInv, OptionsInv, Options!ChoicesKept
<1>10. CASE page = "chat"
  BY <1>10 DEF PagesInv, ChatInv, Chat!InputKept
<1>11. CASE page = "landing"
  BY <1>11 DEF PagesInv, LandingInv, Landing!SectionMarked, Landing!WordComesBack
<1>12. CASE page = "reset"
  BY <1>12 DEF PagesInv, ResetInv
<1>13. CASE page = "player"
  <2>1. PlayerInv
    BY <1>13 DEF PagesInv
  <2>2. PlayerInv'
    BY <2>1 DEF PlayerInv
  <2> QED
    BY <1>13, <2>2 DEF PagesInv
<1>14. CASE page = "encoding"
  <2>1. EncodingInv
    BY <1>14 DEF PagesInv
  <2>2. EncodingInv'
    BY <2>1 DEF EncodingInv
  <2> QED
    BY <1>14, <2>2 DEF PagesInv
<1>15. CASE page = "shown"
  <2>1. ShownInv
    BY <1>15 DEF PagesInv
  <2>2. ShownInv'
    BY <2>1 DEF ShownInv, ReadOK, JobsOK
  <2> QED
    BY <1>15, <2>2 DEF PagesInv
<1>16. CASE page = "play"
  <2>1. PlayInv
    BY <1>16 DEF PagesInv
  <2>2. PlayInv'
    BY <2>1 DEF PlayInv
  <2> QED
    BY <1>16, <2>2 DEF PagesInv
<1> QED
  BY <1>1, <1>2, <1>3, <1>4, <1>5, <1>6, <1>7, <1>8, <1>9, <1>10, <1>11, <1>12, <1>13, <1>14, <1>15, <1>16 DEF PagesInv

\* Each page keeps its invariant.
LEMMA NextPages == ASSUME PagesInv, [Next]_vars PROVE PagesInv'
<1>1. CASE Next
  BY <1>1, PageSteps, NextUsers, NextPresets, NextWebhooks, NextAccount, NextCaptions, NextSettings, NextEdits, NextRows, NextPassword,
      NextOptions, NextChat, NextLanding, NextReset, NextPlayer, NextEncoding, NextShown, NextPlay
    DEF PagesInv
<1>2. CASE UNCHANGED vars
  BY <1>2, StutterPages
<1> QED
  BY <1>1, <1>2

\* The invariants of the pages hold throughout.
THEOREM PagesStay == Spec => []PagesInv
<1>1. Init => PagesInv
  BY InitPages
<1>2. PagesInv /\ [Next]_vars => PagesInv'
  BY NextPages
<1> QED
  BY <1>1, <1>2, PTL DEF Spec

\* A form goes to the item it was filled from, a subtitle is removed from its video and
\* a video is deleted that was named when the user was asked, for any number of items
\* and calls.
THEOREM ActsOnShownItem == Spec => []ActsOnItsItem
<1>1. PagesInv => ActsOnItsItem
  <2> SUFFICES ASSUME PagesInv PROVE ActsOnItsItem
    OBVIOUS
  <2>1. CASE page = "users"
    <3>1. UsersEditor
      BY <2>1 DEF PagesInv, UsersInv
    <3> QED
      BY <2>1, <3>1, EditorMeaning DEF ActsOnItsItem, UsersEditor, Users!FormGoesToItsItem, Users!Open
  <2>2. CASE page = "presets"
    <3>1. PresetsEditor
      BY <2>2 DEF PagesInv, PresetsInv
    <3> QED
      BY <2>2, <3>1, EditorMeaning DEF ActsOnItsItem, PresetsEditor, Users!FormGoesToItsItem, Users!Open
  <2>3. CASE page = "webhooks"
    <3>1. WebhooksEditor
      BY <2>3 DEF PagesInv, WebhooksInv
    <3> QED
      BY <2>3, <3>1, EditorMeaning DEF ActsOnItsItem, WebhooksEditor, Users!FormGoesToItsItem, Users!Open
  <2>4. CASE page = "captions"
    BY <2>4 DEF PagesInv, CaptionsInv, ActsOnItsItem, Captions!RemovesItsOwn
  <2>5. CASE page = "rows"
    BY <2>5 DEF PagesInv, ActsOnItsItem
  <2>6. CASE page \notin {"users", "presets", "webhooks", "captions", "rows"}
    BY <2>6 DEF ActsOnItsItem
  <2> QED
    BY <2>1, <2>2, <2>3, <2>4, <2>5, <2>6
<1> QED
  BY <1>1, PagesStay, PTL

\* What the user was told is saved is what the server holds: on the editors, in the
\* profile, among the settings and for a link in a mail, for any number of items, texts
\* and requests, whatever answers are lost or come late.
THEOREM SavesAreStored == Spec => []SavedIsStored
<1>1. PagesInv => SavedIsStored
  <2> SUFFICES ASSUME PagesInv PROVE SavedIsStored
    OBVIOUS
  <2>1. CASE page = "users"
    <3>1. UsersEditor
      BY <2>1 DEF PagesInv, UsersInv
    <3>2. \A i \in Ids : told[i] = None \/ db[i] \in {told[i], Gone} \/ \E s \in Slots : net[s] # Idle /\ net[s].id = i
      BY <3>1, EditorMeaning DEF UsersEditor
    <3> QED
      BY <2>1, <3>2 DEF SavedIsStored, Users!SavedIsStored, Users!Idle, Idle
  <2>2. CASE page = "presets"
    <3>1. PresetsEditor
      BY <2>2 DEF PagesInv, PresetsInv
    <3>2. \A i \in OneId : told[i] = None \/ db[i] \in {told[i], Gone} \/ \E s \in Slots : net[s] # Idle /\ net[s].id = i
      BY <3>1, EditorMeaning DEF PresetsEditor
    <3> QED
      BY <2>2, <3>2 DEF SavedIsStored, Presets!SavedIsStored, Presets!Idle, Idle
  <2>3. CASE page = "webhooks"
    <3>1. WebhooksEditor
      BY <2>3 DEF PagesInv, WebhooksInv
    <3>2. \A i \in OneId : told[i] = None \/ db[i] \in {told[i], Gone} \/ \E s \in Slots : net[s] # Idle /\ net[s].id = i
      BY <3>1, EditorMeaning DEF WebhooksEditor
    <3> QED
      BY <2>3, <3>2 DEF SavedIsStored, Webhooks!SavedIsStored, Webhooks!Idle, Idle
  <2>4. CASE page = "account"
    <3>1. \A f \in Fields : told[f] = None \/ db[f] = told[f] \/ \E s \in Slots : net[s].kind = f
      BY <2>4 DEF PagesInv, AccountInv
    <3>2. Account!SavedIsStored
      BY <3>1 DEF Account!SavedIsStored, Account!Open, Account!Fields, Fields
    <3> QED
      BY <2>4, <3>2 DEF SavedIsStored
  <2>5. CASE page = "settings"
    BY <2>5 DEF PagesInv, SettingsInv, SavedIsStored
  <2>6. CASE page = "password"
    BY <2>6 DEF PagesInv, PasswordInv, SavedIsStored, Password!ToldOnce, Password!LeftWhenDone, Password!Here
  <2>7. CASE page \notin {"users", "presets", "webhooks", "account", "settings", "password"}
    BY <2>7 DEF SavedIsStored
  <2> QED
    BY <2>1, <2>2, <2>3, <2>4, <2>5, <2>6, <2>7
<1> QED
  BY <1>1, PagesStay, PTL

\* What was typed into the settings and into the chat, the choices of the captions and a
\* resolution of each preset are kept until the user changes them, for any number of
\* settings read late, options, captions, questions and presets.
THEOREM ChoicesStay == Spec => []ChoicesKept
<1>1. PagesInv => ChoicesKept
  <2> SUFFICES ASSUME PagesInv PROVE ChoicesKept
    OBVIOUS
  <2>1. CASE page = "settings"
    BY <2>1, EditsMeaning DEF PagesInv, ChoicesKept
  <2>2. CASE page = "options"
    BY <2>2, OptionsMeaning DEF PagesInv, ChoicesKept
  <2>3. CASE page = "chat"
    BY <2>3, ChatMeaning DEF PagesInv, ChoicesKept
  <2>4. CASE page = "presets"
    <3>1. PresetsEditor /\ PresetsUI
      BY <2>4 DEF PagesInv, PresetsInv
    <3>2. \A i \in OneId : db[i] \in Presets!Values \cup {None, Gone}
      BY <3>1 DEF PresetsEditor, EditorInv
    <3>3. \A i \in OneId : Presets!There(db[i]) => db[i].resolutions # {}
      BY <3>2, PresetsValues DEF Presets!There
    <3>4. ui.form.says.resolutions # {}
      BY <3>1 DEF PresetsUI, PresetsPage
    <3> QED
      BY <2>4, <3>3, <3>4 DEF ChoicesKept, Presets!AlwaysAResolution
  <2>5. CASE page \notin {"settings", "options", "chat", "presets"}
    BY <2>5 DEF ChoicesKept
  <2> QED
    BY <2>1, <2>2, <2>3, <2>4, <2>5
<1> QED
  BY <1>1, PagesStay, PTL

\* No interval or player outlives the render that started it (but where a run was cut short
\* or the component unmounted), a step of the landing page has its whole time, its word
\* comes back, the section on the screen is marked and an open captcha that nothing
\* disturbed has its widget, for any number of renders, widgets and ticks of a step.
THEOREM TimersAreTheirs == Spec => []TimersHold
<1>1. PagesInv => TimersHold
  <2> SUFFICES ASSUME PagesInv PROVE TimersHold
    OBVIOUS
  <2>1. CASE page = "player"
    BY <2>1, PlayerMeaning DEF PagesInv, TimersHold
  <2>2. CASE page = "landing"
    BY <2>2, LandingMeaning DEF PagesInv, TimersHold
  <2>3. CASE page = "reset"
    BY <2>3, ResetMeaning DEF PagesInv, TimersHold
  <2>4. CASE page \notin {"player", "landing", "reset"}
    BY <2>4 DEF TimersHold
  <2> QED
    BY <2>1, <2>2, <2>3, <2>4
<1> QED
  BY <1>1, PagesStay, PTL

\* A saved dialog changes what the encoder is told by the changed fields only, no switch is
\* stored on without its number, durations are positive and heights even; an error or an
\* end on the screen is of a job that is over, a shown player has a playlist, and both
\* players do what the saved switches say: for any jobs, attempts, changes and resolutions.
THEOREM VideoIsAsSaved == Spec => []VideoAsItIs
<1>1. PagesInv => VideoAsItIs
  <2> SUFFICES ASSUME PagesInv PROVE VideoAsItIs
    OBVIOUS
  <2>1. CASE page = "encoding"
    BY <2>1, EncodingMeaning DEF PagesInv, VideoAsItIs
  <2>2. CASE page = "shown"
    BY <2>2, ShownMeaning DEF PagesInv, VideoAsItIs
  <2>3. CASE page = "play"
    BY <2>3, PlayMeaning DEF PagesInv, VideoAsItIs
  <2>4. CASE page \notin {"encoding", "shown", "play"}
    BY <2>4 DEF VideoAsItIs
  <2> QED
    BY <2>1, <2>2, <2>3, <2>4
<1> QED
  BY <1>1, PagesStay, PTL

\* A player that renders again goes on where the run before it left the same address, and
\* no response to a captcha is sent twice, for any number of renders, addresses and widgets.
THEOREM NothingIsLost == Spec => NothingLostNorTwice
<1>1. PagesInv /\ [Next]_vars
        => [(page = "player" => Player!TakesUpThePlace) /\ (page = "reset" => Reset!SendsAnother)]_vars
  <2> SUFFICES ASSUME PagesInv, Next
               PROVE  (page = "player" => Player!TakesUpThePlace) /\ (page = "reset" => Reset!SendsAnother)
    OBVIOUS
  <2>1. ASSUME page = "player"  PROVE Player!TakesUpThePlace
    <3>1. PlayerInv /\ Player!Next
      BY <2>1, PageSteps DEF PagesInv
    <3> QED
      BY <3>1, PlayerTakesUp
  <2>2. ASSUME page = "reset"  PROVE Reset!SendsAnother
    <3>1. ResetInv /\ Reset!Next
      BY <2>2, PageSteps DEF PagesInv
    <3> QED
      BY <3>1, ResetSends
  <2> QED
    BY <2>1, <2>2
<1> QED
  BY <1>1, PagesStay, PTL DEF Spec, NothingLostNorTwice

=============================================================================
