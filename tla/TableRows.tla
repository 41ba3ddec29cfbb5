------------------------------ MODULE TableRows ------------------------------
(***************************************************************************)
(* The rows of the library and of the users (library/page.tsx,             *)
(* users/page.tsx, in components/ui/data-grid-table.tsx): what a click on  *)
(* a row, its checkbox or its menu does while the list is read again.  No  *)
(* getRowId is given, so the table knows a row by its place in the list:   *)
(* what a place keeps, its open menu and whether it is selected, passes to *)
(* the video or user that is there next.  A user is only deactivated, and  *)
(* stays in the list.                                                      *)
(***************************************************************************)
EXTENDS Integers, Sequences, FiniteSets, Functions

CONSTANTS
  Videos,  \* or users
  None     \* none of them

VARIABLES
  db,    \* the videos there are, the users that are active
  seen,  \* the list last read
  ui,    \* the React state; menu: the row whose menu is open, of: the video it had then
  net,   \* those whose deletion is under way
  told   \* history: those by whose titles the user was asked and agreed to delete

vars == <<db, seen, ui, net, told>>

Unread == [read |-> FALSE, list |-> <<>>]
Lists == {s \in UNION {[1..n -> Videos] : n \in 0..Cardinality(Videos)} : IsInjective(s)}
NoMenu == [row |-> 0, of |-> None]

Init ==
  /\ db = Videos /\ seen = Unread /\ net = {} /\ told = {}
  /\ \E table \in {"library", "users"} :
       ui = [table |-> table, isLoading |-> TRUE, selected |-> {}, menu |-> NoMenu, detail |-> None, detailOpen |-> FALSE]

----------------------------------------------------------------------------
(* The list is read, in the order asked for; other pages and filters leave videos out *)

videos == seen.list
Rows == DOMAIN videos

\* A menu goes when its row does.
Read ==
  /\ \E list \in Lists :
       /\ ui.table = "library" => Range(list) \subseteq db
       /\ seen' = [read |-> TRUE, list |-> list]
       /\ ui' = [ui EXCEPT !.isLoading = FALSE,
                           !.menu = IF @.row \in DOMAIN list THEN @ ELSE NoMenu]
  /\ UNCHANGED <<db, net, told>>
ReadFails == ui' = [ui EXCEPT !.isLoading = FALSE] /\ UNCHANGED <<db, seen, net, told>>

\* Another page, order or search that is not in the cache: the rows give way to
\* skeletons; what is selected stays.
AskAnew ==
  /\ ui.menu = NoMenu /\ ~ui.detailOpen
  /\ seen' = Unread /\ ui' = [ui EXCEPT !.isLoading = TRUE]
  /\ UNCHANGED <<db, net, told>>

----------------------------------------------------------------------------
(* What is rendered *)

Skeletons == ui.isLoading
DataGridTableEmpty == ~ui.isLoading /\ Rows = {}

\* A cell per column of the row: the checkbox, the video's title or the user's name.
columns(row) == [selected |-> row \in ui.selected, title |-> videos[row]]
usersColumns(row) == [selected |-> row \in ui.selected, title |-> videos[row]]

DataGridTable ==
  IF Skeletons THEN [shows |-> "skeletons"]
  ELSE IF DataGridTableEmpty THEN [shows |-> "No data available"]
  ELSE [shows |-> "rows", rows |-> [row \in Rows |-> IF ui.table = "users" THEN usersColumns(row)
                                                                        ELSE columns(row)]]

Shown == DataGridTable.shows = "rows"

----------------------------------------------------------------------------
(* Clicks *)

OnScreen(next) == ui' = next /\ UNCHANGED <<db, seen, net, told>>
\* The sheet of a video, or the dialog to edit a user.
Sheet(state, video) == [state EXCEPT !.detail = video, !.detailOpen = TRUE]

onRowClick(row) == OnScreen(Sheet(ui, DataGridTable.rows[row].title))

toggleSelected(row) == (ui.selected \ {row}) \cup ({row} \ ui.selected)

\* The click goes on to the row the checkbox is in: the sheet opens as well.
DataGridTableRowSelect(row) ==
  OnScreen([Sheet(ui, DataGridTable.rows[row].title) EXCEPT !.selected = toggleSelected(row)])

isAllPageRowsSelected == Rows # {} /\ Rows \subseteq ui.selected
DataGridTableRowSelectAll ==
  /\ ~ui.isLoading
  /\ OnScreen([ui EXCEPT !.selected = IF isAllPageRowsSelected THEN @ \ Rows ELSE @ \cup Rows])

OpenMenu(row) == OnScreen([ui EXCEPT !.menu = [row |-> row, of |-> videos[row]]])
CloseMenu == OnScreen([ui EXCEPT !.menu = NoMenu])

\* confirm() asks with the title, and nothing else runs until it is answered.
handleDelete(video, title) ==
  /\ ui' = [ui EXCEPT !.menu = NoMenu]
  /\ \/ net' = net \cup {video} /\ told' = told \cup {title}
     \/ UNCHANGED <<net, told>>
  /\ UNCHANGED <<db, seen>>

\* Mutant: the menu acts on the video its row had when it was opened.
RowMenuOfOpened ==
  \/ OnScreen([Sheet(ui, ui.menu.of) EXCEPT !.menu = NoMenu])
  \/ handleDelete(ui.menu.of, videos[ui.menu.row])

\* The items are rendered with the video of the row as it is now.
RowMenu ==
  \/ OnScreen([Sheet(ui, videos[ui.menu.row]) EXCEPT !.menu = NoMenu])
  \/ handleDelete(videos[ui.menu.row], videos[ui.menu.row])

CloseSheet == OnScreen([ui EXCEPT !.detailOpen = FALSE])

\* The menu and the sheet keep the rest of the page from being used.
TheRows ==
  IF ui.detailOpen THEN CloseSheet
  ELSE IF ui.menu # NoMenu THEN RowMenu \/ CloseMenu
  ELSE \/ DataGridTableRowSelectAll
       \/ Shown /\ \E row \in Rows : onRowClick(row) \/ DataGridTableRowSelect(row) \/ OpenMenu(row)

Deleted(v) == db' = db \ {v} /\ net' = net \ {v} /\ UNCHANGED <<seen, ui, told>>
DeleteFails(v) == net' = net \ {v} /\ UNCHANGED <<db, seen, ui, told>>

Next ==
  \/ Read \/ ReadFails \/ AskAnew \/ TheRows
  \/ \E v \in net : Deleted(v) \/ DeleteFails(v)

Spec == Init /\ [][Next]_vars

----------------------------------------------------------------------------
(* Properties *)

TypeOK ==
  /\ db \subseteq Videos /\ seen \in [read: BOOLEAN, list: Lists]
  /\ ui \in [table: {"library", "users"}, isLoading: BOOLEAN, selected: SUBSET (1..Cardinality(Videos)), detailOpen: BOOLEAN,
             menu: [row: 0..Cardinality(Videos), of: Videos \cup {None}],
             detail: Videos \cup {None}]
  /\ net \subseteq Videos /\ told \subseteq Videos

\* What goes is what the user was asked about by its title, although the list may have
\* been read again while the menu was open and its row have become another video's.
ConfirmedIsDeleted == Videos \ db \subseteq told /\ net \subseteq told

=============================================================================
