------------------------------- MODULE Languages -------------------------------
(***************************************************************************)
(* The language of the interface: i18next, initialized by the I18nProvider *)
(* (web/providers/i18n-provider.tsx), which a page load mounts once, and   *)
(* useLanguage in the user's menu                                          *)
(* (web/components/layouts/shared/user-dropdown-menu.tsx), which comes and *)
(* goes with the pages that have a header.  React runs the effects of a    *)
(* render later than the render, those of a child before its parent's.     *)
(***************************************************************************)
CONSTANTS
  Labels,  \* languages of the list that are written from the left
  Odd,     \* languages of the list that are written from the right
  Gone,    \* a language the browser has that is not in the list
  None,    \* no language yet
  Blank    \* English, the first of the list

VARIABLES
  db,    \* localStorage: the language chosen before, or None
  seen,  \* i18next: its language; it is initialized; it is being so
  ui,    \* the provider: its state and the directions; the theme
  net,   \* the user's menu: absent, rendered or mounted, and useLanguage's state
  told   \* not used by this component

vars == <<db, seen, ui, net, told>>

I18N_LANGUAGES == {Blank} \cup Labels \cup Odd
Codes == I18N_LANGUAGES \cup {Gone}
direction(code) == IF code \in Odd THEN "rtl" ELSE "ltr"

\* The entry of a code; English for one that is not in the list, or for none.
Entry(code) == IF code \in I18N_LANGUAGES THEN code ELSE Blank

NoMenu == [phase |-> "absent", language |-> Blank]
Themes == {"system", "light", "dark"}

Init ==
  /\ db = None /\ told = None
  /\ seen = [language |-> None, init |-> "no"]
  /\ ui = [effect |-> FALSE, isI18nInitialized |-> FALSE, document |-> "ltr", radix |-> "ltr",
           theme |-> "system"]
  /\ net = NoMenu

----------------------------------------------------------------------------
(* I18nProvider *)

\* The document's direction changes with a language of the list.
handleLanguageChange(lng, state) ==
  IF lng \in I18N_LANGUAGES THEN [state EXCEPT !.document = direction(lng)] ELSE state

\* useLanguage's listener, once its effect has run.
handleChange(lng) == IF net.phase = "mounted" THEN [net EXCEPT !.language = Entry(lng)] ELSE net

\* languageChanged: to the provider if its effect has run, and to the menu.
Emitted(lng) ==
  /\ seen' = [language |-> lng, init |-> IF seen.init = "loading" THEN "done" ELSE seen.init]
  /\ ui' = IF ui.effect THEN handleLanguageChange(lng, ui) ELSE ui
  /\ net' = handleChange(lng)
  /\ db' = lng

\* The provider's effect, after that of a menu in the same render.
I18nProvider ==
  /\ ~ui.effect /\ net.phase # "rendered"
  /\ seen' = [seen EXCEPT !.init = "loading"]
  /\ ui' = [ui EXCEPT !.effect = TRUE]
  /\ UNCHANGED <<db, net, told>>

\* i18next has found the language: what was chosen before, else the browser's.
Detected ==
  /\ seen.init = "loading"
  /\ \E lng \in IF db # None THEN {db} ELSE Codes : Emitted(lng)
  /\ UNCHANGED told

\* The promise of init: the provider renders again, for the last time.
Initialized ==
  /\ seen.init = "done" /\ ~ui.isI18nInitialized
  /\ ui' = [ui EXCEPT !.isI18nInitialized = TRUE, !.radix = direction(Entry(seen.language))]
  /\ UNCHANGED <<db, seen, net, told>>

\* Another page load: only localStorage and the theme are left.
Reload ==
  /\ seen' = [language |-> None, init |-> "no"]
  /\ ui' = [ui EXCEPT !.effect = FALSE, !.isI18nInitialized = FALSE, !.document = "ltr", !.radix = "ltr"]
  /\ net' = NoMenu
  /\ UNCHANGED <<db, told>>

----------------------------------------------------------------------------
(* useLanguage and UserDropdownMenu *)

\* A page with a header comes, with a first state for the menu, or goes.
useLanguage ==
  /\ net' = IF net.phase = "absent"
            THEN [phase |-> "rendered", language |-> Entry(seen.language)] ELSE NoMenu
  /\ UNCHANGED <<db, seen, ui, told>>

\* Mutant: the effect leaves the state of the first render.
MountedAsRendered(lng) == [net EXCEPT !.phase = "mounted"]
Mounted(lng) == [phase |-> "mounted", language |-> Entry(lng)]

Effect ==
  /\ net.phase = "rendered"
  /\ net' = Mounted(seen.language)
  /\ UNCHANGED <<db, seen, ui, told>>

\* i18next is initialized long before a user can open the menu.
changeLanguage(code) == seen.init = "done" /\ Emitted(code)

handleThemeToggle(checked) ==
  /\ checked # (ui.theme = "dark")
  /\ ui' = [ui EXCEPT !.theme = IF checked THEN "dark" ELSE "light"]
  /\ UNCHANGED <<db, seen, net>>

UserDropdownMenu ==
  /\ net.phase = "mounted"
  /\ \/ \E code \in I18N_LANGUAGES \ {net.language} : changeLanguage(code)
     \/ \E checked \in BOOLEAN : handleThemeToggle(checked)
  /\ UNCHANGED told

Next ==
  \/ I18nProvider \/ Detected \/ Initialized \/ Reload
  \/ useLanguage \/ Effect \/ UserDropdownMenu

Spec == Init /\ [][Next]_vars

----------------------------------------------------------------------------
(* Properties *)

TypeOK ==
  /\ db \in Codes \cup {None}
  /\ seen \in [language: Codes \cup {None}, init: {"no", "loading", "done"}]
  /\ ui \in [effect: BOOLEAN, isI18nInitialized: BOOLEAN, document: {"ltr", "rtl"},
             radix: {"ltr", "rtl"}, theme: Themes]
  /\ net \in [phase: {"absent", "rendered", "mounted"}, language: I18N_LANGUAGES]

\* However the initialization, the renders and the user's choices interleave, a mounted
\* menu shows i18next's language, and the document is written in its direction (the
\* listeners, and the state they start from).
LanguageShown ==
  /\ net.phase = "mounted" => net.language = Entry(seen.language)
  /\ ui.effect => ui.document = direction(Entry(seen.language))

=============================================================================
