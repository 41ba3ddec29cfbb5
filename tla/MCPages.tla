------------------------------- MODULE MCPages -------------------------------
(***************************************************************************)
(* Instance of the client's pages and components for TLC.  They share no   *)
(* state, so each is looked at on its own: which one is chosen at the      *)
(* start, and the same five variables are its.                             *)
(***************************************************************************)
EXTENDS Naturals, FiniteSets, TLC

CONSTANTS
  Ids, OneId, None, Gone, Slots, OneSlot, Blank, Roles, Labels, Odd, Events, Texts, OneText, MaxChanges,
  Videos, MaxRuns, OptionKeys, Choices, Default, Lines, MaxWidgets,
  Searches, PageSizes, MoreLimit, MaxRows, Ages, Periods, Paths, Width, stepDuration,
  JobIds, Percents, Renditions, MaxAttempts
VARIABLES page, db, seen, ui, net, told

vars == <<page, db, seen, ui, net, told>>

Users == INSTANCE UsersPage
Presets == INSTANCE PresetsPage WITH Ids <- OneId
Webhooks == INSTANCE WebhooksPage WITH Ids <- OneId
Account == INSTANCE AccountPage
Captions == INSTANCE VideoCaptions WITH Slots <- OneSlot, Texts <- OneText
Player == INSTANCE VideoPlayer WITH
  Urls <- Videos, runs <- net, media <- seen, alive <- told, stored <- db
Options == INSTANCE CaptionMenu WITH
  opts <- db, menu <- ui, lines <- seen, due <- net, chosen <- told
Settings == INSTANCE SettingsPage
Theme == INSTANCE ThemePreview
Tables == INSTANCE PagedTables
Rows == INSTANCE TableRows
Reset == INSTANCE RecaptchaForm
Password == INSTANCE PasswordPages
Analytics == INSTANCE AnalyticsPage WITH Ids <- OneId
Menu == INSTANCE MenuPaths
Language == INSTANCE Languages
Chat == INSTANCE DocsChat WITH Texts <- OneText
Landing == INSTANCE LandingPage
Encoding == INSTANCE PresetEncoding
Shown == INSTANCE VideoShown
Play == INSTANCE PlayerOptions

\* What stands for nothing is none of the things; slots are no videos and no requests.
ASSUME PagesAssumption ==
  /\ None \notin {Gone} \cup Ids \cup OneId
  /\ None \notin {"true", "false", "minimal", "medium", "full", "boolean", "string"}
  /\ \A v \in Users!Values : v \notin {None, Gone}
  /\ \A v \in Presets!Values : v \notin {None, Gone}
  /\ \A v \in Webhooks!Values : v \notin {None, Gone}
  /\ Labels # {} /\ {MaxChanges, MaxWidgets, stepDuration} \subseteq Nat
  /\ {MaxRuns, Renditions, MaxAttempts} \subseteq Nat \ {0} /\ Percents \subseteq 0..100
  /\ Default \in Choices /\ {"player", "captions", "main"} \cap OptionKeys = {}
  /\ OneSlot \cap Videos = {} /\ {"verify", "timer"} \cap Slots = {}
  /\ IsFiniteSet(Videos) /\ None \notin Videos \cup {Blank, Gone, "blue", "red"} \cup Labels \cup Odd /\ Blank \notin Odd
  /\ MaxRows \in Nat /\ PageSizes \subseteq Nat \ {0} /\ MoreLimit \in Nat \ {0} /\ None \notin 0..MaxRows
  /\ Width \in Nat /\ <<>> \in Paths /\ 30 \in Periods /\ None \notin Menu!MenuItems \cup Analytics!Answer

\* The top of the menu, a path and one below it.
SomePaths == {<<>>, <<1>>, <<1, 2>>}

Init ==
  \/ page = "users" /\ Users!Init
  \/ page = "presets" /\ Presets!Init
  \/ page = "webhooks" /\ Webhooks!Init
  \/ page = "account" /\ Account!Init
  \/ page = "captions" /\ Captions!Init
  \/ page = "player" /\ Player!Init
  \/ page = "options" /\ Options!Init
  \/ page = "settings" /\ Settings!Init
  \/ page = "theme" /\ Theme!Init
  \/ page = "tables" /\ Tables!Init
  \/ page = "rows" /\ Rows!Init
  \/ page = "reset" /\ Reset!Init
  \/ page = "password" /\ Password!Init
  \/ page = "analytics" /\ Analytics!Init
  \/ page = "menu" /\ Menu!Init
  \/ page = "language" /\ Language!Init
  \/ page = "chat" /\ Chat!Init
  \/ page = "landing" /\ Landing!Init
  \/ page = "encoding" /\ Encoding!Init
  \/ page = "shown" /\ Shown!Init
  \/ page = "play" /\ Play!Init

Next ==
  /\ \/ page = "users" /\ Users!Next
     \/ page = "presets" /\ Presets!Next
     \/ page = "webhooks" /\ Webhooks!Next
     \/ page = "account" /\ Account!Next
     \/ page = "captions" /\ Captions!Next
     \/ page = "player" /\ Player!Next
     \/ page = "options" /\ Options!Next
     \/ page = "settings" /\ Settings!Next
     \/ page = "theme" /\ Theme!Next
     \/ page = "tables" /\ Tables!Next
     \/ page = "rows" /\ Rows!Next
     \/ page = "reset" /\ Reset!Next
     \/ page = "password" /\ Password!Next
     \/ page = "analytics" /\ Analytics!Next
     \/ page = "menu" /\ Menu!Next
     \/ page = "language" /\ Language!Next
     \/ page = "chat" /\ Chat!Next
     \/ page = "landing" /\ Landing!Next
     \/ page = "encoding" /\ Encoding!Next
     \/ page = "shown" /\ Shown!Next
     \/ page = "play" /\ Play!Next
  /\ UNCHANGED page

Spec == Init /\ [][Next]_vars

\* The constants of one kind are alike.
Alike == Permutations(Ids) \cup Permutations(Slots) \cup Permutations(Texts) \cup Permutations(Videos)

----------------------------------------------------------------------------
(* Properties: those of the pages, each where it is that page *)

\* On each page the variables have the values they may have.
TypeOK ==
  /\ page = "users" => Users!TypeOK
  /\ page = "presets" => Presets!TypeOK
  /\ page = "webhooks" => Webhooks!TypeOK
  /\ page = "account" => Account!TypeOK
  /\ page = "captions" => Captions!TypeOK
  /\ page = "player" => Player!TypeOK
  /\ page = "options" => Options!TypeOK
  /\ page = "settings" => Settings!TypeOK
  /\ page = "theme" => Theme!TypeOK
  /\ page = "tables" => Tables!TypeOK
  /\ page = "rows" => Rows!TypeOK
  /\ page = "reset" => Reset!TypeOK
  /\ page = "password" => Password!TypeOK
  /\ page = "analytics" => Analytics!TypeOK
  /\ page = "menu" => Menu!TypeOK
  /\ page = "language" => Language!TypeOK
  /\ page = "chat" => Chat!TypeOK
  /\ page = "landing" => Landing!TypeOK
  /\ page = "encoding" => Encoding!TypeOK
  /\ page = "shown" => Shown!TypeOK
  /\ page = "play" => Play!TypeOK

\* What the user was told is saved, or done, is what the server holds: on the editors
\* and in the profile no save undoes or overtakes another, a setting is shown again
\* as it was saved, a link to change a password is good for one change at most and
\* its pages are left only when it is done.
SavedIsStored ==
  /\ page = "users" => Users!SavedIsStored
  /\ page = "presets" => Presets!SavedIsStored
  /\ page = "webhooks" => Webhooks!SavedIsStored
  /\ page = "account" => Account!SavedIsStored
  /\ page = "settings" => Settings!SavedIsShown
  /\ page = "password" => Password!ToldOnce /\ Password!LeftWhenDone

\* What is saved, removed or deleted is the item the user was shown and meant, also
\* when late answers have changed dialogs, lists and rows meanwhile: a form goes to the
\* item it was filled from, a subtitle is removed from its video, a video is deleted
\* that was named when the user was asked.
ActsOnItsItem ==
  /\ page \in {"users", "presets", "webhooks"} => Users!FormGoesToItsItem
  /\ page = "captions" => Captions!RemovesItsOwn
  /\ page = "rows" => Rows!ConfirmedIsDeleted

\* What a page shows side by side belongs together, in whatever order its answers came:
\* the profile and the captions are the server's, the panels of the analytics count the
\* same rows, FFmpeg's status is of the path beside it, color, language, heading and
\* page number are those of what is shown, and an answer is below its question.
ShownBelongsTogether ==
  /\ page = "account" => Account!ProfileIsShown
  /\ page = "captions" => Captions!ListIsShown
  /\ page = "analytics" => Analytics!PanelsAgree
  /\ page = "settings" => Settings!StatusIsOfPath
  /\ page = "theme" => Theme!ThemeShown
  /\ page = "language" => Language!LanguageShown
  /\ page = "menu" => Menu!HeadingAndCrumbsAgree
  /\ page = "tables" => Tables!PageWasOffered
  /\ page = "chat" => Chat!AnswerBelowQuestion

\* What the user typed or chose stays until it is sent or changed: it is not overwritten
\* by what is read late, and no choice undoes another.
ChoicesKept ==
  /\ page = "settings" => Settings!EditsKept
  /\ page = "options" => Options!ChoicesKept /\ Options!CaptionsStyled
  /\ page = "chat" => Chat!InputKept
  /\ page = "presets" => Presets!AlwaysAResolution

\* A timer, or a run that waits, acts for the render that started it and for no later
\* one: no player or interval is left over, a step has its whole time, a word comes back,
\* a scroll marks the section on the screen, an open captcha has its widget.
TimersHold ==
  /\ page = "player" => Player!NothingLeaks
  /\ page = "landing" => Landing!SectionMarked /\ Landing!StepHasItsTime /\ Landing!WordComesBack
  /\ page = "reset" => Reset!WidgetShown

\* A video is encoded as its preset says, shown as it is and played as the settings say:
\* a dialog changes the arguments of the fields it changed only, no switch is stored on
\* without its number, durations are positive and heights even; an error or an end on the
\* screen is of a job that is over for good, a player has a playlist to play, and both
\* players follow the switches alike.
VideoAsItIs ==
  /\ page = "encoding" => Encoding!OtherArgumentsStay /\ Encoding!EnabledIsUsable /\ Encoding!RunsAreLegal
  /\ page = "shown" => Shown!FinalIsFinal /\ Shown!PreviewIsPlayable
  /\ page = "play" => Play!PlayersAgree /\ Play!SwitchesHold

\* A player that renders again goes on where it was, and no response to a captcha is
\* sent twice.
NothingLostNorTwice ==
  [][(page = "player" => Player!TakesUpThePlace) /\ (page = "reset" => Reset!SendsAnother)]_vars

=============================================================================
