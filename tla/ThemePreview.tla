------------------------------ MODULE ThemePreview ------------------------------
(***************************************************************************)
(* The theme color: what components/theme-color-applier.tsx sets on the    *)
(* document whenever the setting it read changes, and what the system tab  *)
(* of the settings sets while a color is picked.  Both set the same style, *)
(* and only the first takes it back.                                       *)
(***************************************************************************)
CONSTANT None  \* no color, or no setting

VARIABLES
  db,    \* the color the server has
  seen,  \* the setting as last read
  ui,    \* the page, its form, and the color the document has
  net,   \* the save under way
  told

vars == <<db, seen, ui, net, told>>

\* A color that is typed need not be one.
Colors == {"blue", "red"}
Settings == Colors \cup {"no color", None}
Fallback == "blue"

Init ==
  /\ db \in Settings /\ seen = "unread"
  /\ ui = [open |-> FALSE, tab |-> FALSE, edit |-> None, screen |-> None]
  /\ net = "idle" /\ told = None

----------------------------------------------------------------------------
(* Effects *)

applyThemeColor(color, screen) == IF color \in Colors THEN color ELSE screen
clearThemeColor == None

\* Mutant: the color is taken back when the next one has been set.
ThemeColorApplierLate(before, after, screen) ==
  IF after = before THEN screen
  ELSE IF before \in Colors THEN clearThemeColor ELSE applyThemeColor(after, screen)

\* The effect runs again when the setting changes: what it set is taken back first.
ThemeColorApplier(before, after, screen) ==
  IF after = before THEN screen
  ELSE applyThemeColor(after, IF before \in Colors THEN clearThemeColor ELSE screen)

currentColor(edit) == IF edit = None THEN Fallback ELSE edit

\* The tab is mounted with the form it has; one that is empty is filled right after.
Mounted(edit, filled, screen) ==
  applyThemeColor(currentColor(filled), applyThemeColor(currentColor(edit), screen))

----------------------------------------------------------------------------
(* The page *)

\* The form is there once the settings have been read.
SettingsRead ==
  LET mounts == ui.open /\ seen = "unread"
      applied(screen) == ThemeColorApplier(seen, db, screen) IN
  /\ seen' = db
  /\ ui' = IF ~mounts THEN [ui EXCEPT !.screen = applied(@)]
           ELSE [ui EXCEPT !.tab = TRUE, !.edit = db,
                   !.screen = LET shown == applied(applyThemeColor(Fallback, @)) IN
                              IF currentColor(db) = Fallback THEN shown
                              ELSE applyThemeColor(currentColor(db), shown)]
  /\ UNCHANGED <<db, net, told>>

Enter ==
  /\ ~ui.open
  /\ ui' = IF seen = "unread" THEN [ui EXCEPT !.open = TRUE]
           ELSE [open |-> TRUE, tab |-> TRUE, edit |-> seen, screen |-> Mounted(None, seen, ui.screen)]
  /\ UNCHANGED <<db, seen, net, told>>

Leave ==
  /\ ui.open
  /\ ui' = [ui EXCEPT !.open = FALSE, !.tab = FALSE, !.edit = None]
  /\ UNCHANGED <<db, seen, net, told>>

\* Another tab is chosen, or this one again.
Tab ==
  /\ ui.open /\ seen # "unread"
  /\ ui' = [ui EXCEPT !.tab = ~@, !.screen = IF ui.tab THEN @ ELSE Mounted(ui.edit, ui.edit, @)]
  /\ UNCHANGED <<db, seen, net, told>>

Pick ==
  /\ ui.tab
  /\ \E color \in Settings \ {None} :
       ui' = [ui EXCEPT !.edit = color, !.screen = applyThemeColor(color, @)]
  /\ UNCHANGED <<db, seen, net, told>>

\* A setting that is not in the form is not sent.
Save ==
  /\ ui.open /\ net = "idle" /\ ui.edit # None
  /\ net' = ui.edit
  /\ UNCHANGED <<db, seen, ui, told>>
Stored ==
  /\ net # "idle"
  /\ db' = net /\ net' = "idle"
  /\ UNCHANGED <<seen, ui, told>>
OthersSave == \E color \in Settings \ {None} : db' = color /\ UNCHANGED <<seen, ui, net, told>>

Next == SettingsRead \/ Enter \/ Leave \/ Tab \/ Pick \/ Save \/ Stored \/ OthersSave

Spec == Init /\ [][Next]_vars

----------------------------------------------------------------------------
(* Properties *)

TypeOK ==
  /\ db \in Settings /\ seen \in Settings \cup {"unread"} /\ net \in Settings \cup {"idle"}
  /\ ui \in [open: BOOLEAN, tab: BOOLEAN, edit: Settings, screen: Colors \cup {None}]

\* A color that is in the form and was read from the server is on the screen, whatever
\* was picked, taken back or read in between.
ThemeShown ==
  ui.tab /\ seen = ui.edit /\ ui.edit \in Colors => ui.screen = ui.edit

=============================================================================
