------------------------------ MODULE SettingsPage ------------------------------
(***************************************************************************)
(* The page of system settings (web/app/(protected)/settings/page.tsx) and *)
(* its tabs.  All fields are one form, filled once, from the first list    *)
(* that is read; Save All sends the whole form.  A field stands for all    *)
(* that a tab has of its kind, switches included, and which fields a card  *)
(* shows is left open.  Of a text only its kind matters: it is saved as    *)
(* the JSON value it reads as, if it is one, and as a string if not.  The  *)
(* logo is in the form, but which one the server has is left open.         *)
(***************************************************************************)
CONSTANT None  \* a field that is not filled, or nothing

VARIABLES
  db,    \* the JSON value the server has for the field
  seen,  \* that value as last read, or None
  ui,    \* the React state of the page
  net,   \* the saves, the verification and the file readers under way
  told   \* history: what was typed last, and what the user was told is saved

vars == <<db, seen, ui, net, told>>

Logos == {"logo"}
Keys == {"site_logo", "field"}
FieldTexts == {"word", "12", "quoted 12"}
Form == [site_logo: Logos \cup {None}, field: FieldTexts \cup {None}]
Empty == [site_logo |-> None, field |-> None]

\* A string of digits is shown like a number, and a number in quotes read as a string.
Values == {"word", "12", "string 12"}
show(value) == IF value = "string 12" THEN "12" ELSE value
Filled(value) ==
  IF value = None THEN {Empty} ELSE {[site_logo |-> logo, field |-> show(value)] : logo \in Logos}

\* Mutant: what is no JSON is sent as the value parsed before it.
parsedBefore(text) == IF text = "quoted 12" THEN "string 12" ELSE "12"
parsed(text) == IF text = "quoted 12" THEN "string 12" ELSE text

\* Bound: of the visits that ended, one has a save under way.
Visits == {"now", "before"}
\* text: what is to be saved; when that is done, what the server has of it since.
NoSave == [step |-> "idle", text |-> None]
NoVerification == [there |-> FALSE, path |-> None, changed |-> FALSE]
Closed == [open |-> FALSE, tab |-> "system", edits |-> Empty, logoPreview |-> None,
           ffmpegStatus |-> NoVerification]

Init ==
  /\ db \in Values /\ seen \in {None, db}
  /\ ui = Closed
  /\ net = [saves |-> [v \in Visits |-> NoSave], verify |-> NoVerification, readers |-> {}]
  /\ told = [typed |-> Empty, saved |-> None]

----------------------------------------------------------------------------
(* The page *)

\* Settings that are there fill a form that is empty.
Fill(page, value) ==
  IF page.open /\ page.edits = Empty
  THEN {[page EXCEPT !.edits = form, !.logoPreview = form.site_logo] : form \in Filled(value)}
  ELSE {page}

\* The page may be opened before the settings are there; if they cannot be read, the
\* form is used as it is.
Enter ==
  /\ ~ui.open
  /\ ui' \in Fill([Closed EXCEPT !.open = TRUE], seen)
  /\ told' = [told EXCEPT !.typed = Empty]
  /\ UNCHANGED <<db, seen, net>>

\* A save goes on; the next visit to the page knows nothing of it.
Leave ==
  /\ ui.open
  /\ NoSave \in {net.saves["now"], net.saves["before"]}
  /\ ui' = Closed
  /\ net' = [saves |-> IF net.saves["now"] = NoSave THEN net.saves
                       ELSE [net.saves EXCEPT !["now"] = NoSave, !["before"] = net.saves["now"]],
             verify |-> NoVerification, readers |-> {}]
  /\ UNCHANGED <<db, seen, told>>

SettingsRead ==
  /\ seen' = db
  /\ ui' \in Fill(ui, db)
  /\ UNCHANGED <<db, net, told>>

\* Mutant: what is set is set in the form that was read.
setFieldOfRead(key, value, page) ==
  [page EXCEPT !.edits = [[Empty EXCEPT !.field = IF seen = None THEN None ELSE show(seen)]
                          EXCEPT ![key] = value]]

setField(key, value, page) == [page EXCEPT !.edits[key] = value]

Typed(key, value, page) ==
  /\ ui' = setField(key, value, page)
  /\ told' = [told EXCEPT !.typed[key] = value]
  /\ UNCHANGED <<db, seen>>

setBoolField == \E text \in FieldTexts : Typed("field", text, ui) /\ UNCHANGED net

\* The file is read while the user goes on.
handleLogoFile(file) ==
  /\ net' = [net EXCEPT !.readers = @ \cup {file}]
  /\ UNCHANGED <<db, seen, ui, told>>
LogoRead(file) ==
  /\ file \in net.readers
  /\ Typed("site_logo", file, [ui EXCEPT !.logoPreview = file])
  /\ net' = [net EXCEPT !.readers = @ \ {file}]

handleSave ==
  /\ net.saves["now"] = NoSave
  /\ net' = [net EXCEPT !.saves["now"] = [step |-> "sent", text |-> ui.edits.field]]
  /\ UNCHANGED <<db, seen, ui, told>>

----------------------------------------------------------------------------
(* The tabs *)

\* A tab that is left is unmounted.
Tab ==
  /\ \E tab \in {"system", "encoding", "form"} :
       ui' = [ui EXCEPT !.tab = tab, !.ffmpegStatus = NoVerification]
  /\ net' = [net EXCEPT !.verify = NoVerification]
  /\ UNCHANGED <<db, seen, told>>

ImageDropzone == \E file \in Logos : handleLogoFile(file)
CacheSettingsDialog == setBoolField
SystemSettingsTab == ImageDropzone \/ setBoolField \/ CacheSettingsDialog

\* The switch of all controls sets those of each.
PlayerConfiguration == setBoolField
PlaybackConfiguration == setBoolField
AllControls == setBoolField
PlayerControls == setBoolField
PlayerSettingsTab == PlayerConfiguration \/ PlaybackConfiguration \/ AllControls \/ PlayerControls

\* The dialogs edit the same form: Cancel does not undo.
NotificationCards == setBoolField
NotificationServices == setBoolField
SMTPDialog == setBoolField
PushDialog == setBoolField
TelegramDialog == setBoolField
NotificationSettingsTab ==
  NotificationCards \/ NotificationServices \/ SMTPDialog \/ PushDialog \/ TelegramDialog

SecuritySettingsTab == setBoolField
TranscribingSettingsTab == setBoolField
PaymentSettingsTab == setBoolField
ApiSettingsTab == setBoolField

\* Mutant: the status of the path before stays.
FFmpegPathKeepsStatus ==
  \E path \in FieldTexts :
    /\ Typed("field", path, ui)
    /\ net' = [net EXCEPT !.verify.changed = net.verify.there]

\* Another path has no status yet, but the answer about the one before may come.
FFmpegPath ==
  \E path \in FieldTexts :
    /\ Typed("field", path, [ui EXCEPT !.ffmpegStatus = NoVerification])
    /\ net' = [net EXCEPT !.verify.changed = net.verify.there]

handleVerify ==
  /\ ~net.verify.there
  /\ ui' = [ui EXCEPT !.ffmpegStatus = NoVerification]
  /\ net' = [net EXCEPT !.verify = [there |-> TRUE, path |-> ui.edits.field, changed |-> FALSE]]
  /\ UNCHANGED <<db, seen, told>>

\* Valid or not; without an answer there is no status.
Verified ==
  /\ net.verify.there
  /\ \E status \in {net.verify, NoVerification} : ui' = [ui EXCEPT !.ffmpegStatus = status]
  /\ net' = [net EXCEPT !.verify = NoVerification]
  /\ UNCHANGED <<db, seen, told>>

\* What else is on this tab is edited as on the others.
EncodingSettingsTab == FFmpegPath \/ handleVerify

SettingsTabs ==
  \/ Tab
  \/ ui.tab = "system" /\ SystemSettingsTab
  \/ ui.tab = "encoding" /\ EncodingSettingsTab
  \/ ui.tab = "form" /\
       (PlayerSettingsTab \/ NotificationSettingsTab \/ SecuritySettingsTab
        \/ TranscribingSettingsTab \/ PaymentSettingsTab \/ ApiSettingsTab)

----------------------------------------------------------------------------
(* Answers *)

\* What is stored next, by whomever, takes the place of what a save stored.
NotStored(save) == IF save.step = "done" THEN [save EXCEPT !.text = None] ELSE save

\* Each setting of the form is stored on its own; one that cannot be is passed over.
BulkUpdate(v) ==
  /\ net.saves[v].step = "sent"
  /\ \/ /\ net' = [net EXCEPT !.saves[v] = [step |-> "done", text |-> None]]
        /\ UNCHANGED <<db, told>>
     \/ /\ net.saves[v].text # None
        /\ db' = parsed(net.saves[v].text)
        /\ net' = [net EXCEPT !.saves = [u \in Visits |->
                     IF u = v THEN [net.saves[v] EXCEPT !.step = "done"] ELSE NotStored(net.saves[u])]]
        /\ told' = [told EXCEPT !.saved = None]
  /\ UNCHANGED <<seen, ui>>

\* The user is told that all is saved, also when the page was left.
Saved(v) ==
  /\ net.saves[v].step = "done"
  /\ told' = IF net.saves[v].text = None THEN told ELSE [told EXCEPT !.saved = net.saves[v].text]
  /\ net' = [net EXCEPT !.saves[v] = NoSave]
  /\ UNCHANGED <<db, seen, ui>>

SaveFails(v) ==
  /\ net.saves[v] # NoSave
  /\ net' = [net EXCEPT !.saves[v] = NoSave]
  /\ UNCHANGED <<db, seen, ui, told>>

\* Another administrator.
OthersSave ==
  /\ \E text \in FieldTexts : db' = parsed(text)
  /\ told' = [told EXCEPT !.saved = None]
  /\ net' = [net EXCEPT !.saves = [v \in Visits |-> NotStored(net.saves[v])]]
  /\ UNCHANGED <<seen, ui>>

Next ==
  \/ Enter \/ Leave \/ SettingsRead
  \/ ui.open /\ (handleSave \/ SettingsTabs)
  \/ \E file \in Logos : LogoRead(file)
  \/ \E v \in Visits : BulkUpdate(v) \/ Saved(v) \/ SaveFails(v)
  \/ Verified \/ OthersSave

Spec == Init /\ [][Next]_vars

----------------------------------------------------------------------------
(* Properties *)

TypeOK ==
  /\ db \in Values /\ seen \in Values \cup {None}
  /\ ui.open \in BOOLEAN /\ ui.tab \in {"system", "encoding", "form"} /\ ui.edits \in Form
  /\ ui.logoPreview \in Logos \cup {None}
  /\ \A v \in {ui.ffmpegStatus, net.verify} :
       v \in [there: BOOLEAN, path: FieldTexts \cup {None}, changed: BOOLEAN]
  /\ net.saves \in [Visits -> [step: {"idle", "sent", "done"}, text: FieldTexts \cup {None}]]
  /\ net.readers \subseteq Logos
  /\ told \in [typed: Form, saved: FieldTexts \cup {None}]

\* What the user typed stays, also when the settings or a file are read late, and the
\* logo on display is the one that will be saved.
EditsKept ==
  ui.open => /\ \A k \in Keys : told.typed[k] \in {None, ui.edits[k]}
             /\ ui.logoPreview = ui.edits.site_logo

\* The status of a path is not shown beside another, unless that was typed while the
\* path was being verified; the default path may have been before the form was filled.
StatusIsOfPath ==
  ui.ffmpegStatus.there /\ ~ui.ffmpegStatus.changed
    => ui.ffmpegStatus.path \in {None, ui.edits.field}

\* What the user was told is saved, on this visit or by a save of the one before, is what
\* the page shows when it reads the settings again (but for quotes, which are lost), if the
\* server could store it and nothing was stored after it.
SavedIsShown == told.saved \in {None, show(db), "quoted 12"}

=============================================================================
