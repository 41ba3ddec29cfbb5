----------------------------- MODULE PlayerOptions -----------------------------
(***************************************************************************)
(* The player's settings and who follows them: the admin switches them on  *)
(* the settings page (settings/_components/player-settings-tab.tsx), the   *)
(* client's player (web/components/video-player.tsx) and the embedded one  *)
(* (internal/handler/embed.go) each read what is stored in a way of its    *)
(* own.  A setting never saved is absent, and stored otherwise as JSON: a  *)
(* Boolean, or the text of one if it was put there through the API.  Other *)
(* values the API takes for a switch, such as the number 1 that the form   *)
(* shows as on, are left out.                                              *)
(***************************************************************************)
EXTENDS Naturals

CONSTANTS
  None  \* an absent setting

VARIABLES
  db,    \* the settings stored: key -> what kind of value, and which
  seen,  \* the settings the page's form was filled with
  ui,    \* the form: key -> None, "true" or "false"
  net,   \* left open
  told   \* history: the keys the admin has seen saved as they are switched

vars == <<db, seen, ui, net, told>>

\* Of the controls one that both players have and one that only the client's has, a
\* switch and a choice of the playback.
Both == {"ctrl_pip"}
ClientOnly == {"ctrl_airplay"}
Controls == Both \cup ClientOnly
Keys == Controls \cup {"player_autoplay", "player_speed_options"}

Boolean(b) == [json |-> "boolean", is |-> b]
Text(t) == [json |-> "string", is |-> t]
Absent == [json |-> None, is |-> None]
OnOff == {Boolean("true"), Boolean("false"), Text("true"), Text("false"), Absent}
Speeds == {Absent, Text("minimal"), Text("medium"), Text("full")}

Settings == {s \in [Keys -> OnOff \cup Speeds] :
               /\ \A k \in Keys \ {"player_speed_options"} : s[k] \in OnOff
               /\ s["player_speed_options"] \in Speeds}

\* The values the form has for what was read.
Form(settings) == [k \in Keys |-> settings[k].is]

Init ==
  /\ \E default \in {Absent, Text("false")}, key \in Keys \ {"player_speed_options"}, value \in OnOff :
       db = [k \in Keys |-> CASE k = "player_speed_options" -> Absent
                              [] k = key -> value
                              [] OTHER -> default]
  /\ seen = db /\ ui = Form(db) /\ net = None /\ told = {}

----------------------------------------------------------------------------
(* The settings page *)

getBool(key) == ui[key] = "true"

Switch(key) ==
  /\ ui' = [ui EXCEPT ![key] = IF getBool(key) THEN "false" ELSE "true"]
  /\ told' = told \ {key}
  /\ UNCHANGED <<db, seen, net>>

\* One switch for all the controls.
AllControls ==
  /\ \E on \in {"true", "false"} : ui' = [k \in Keys |-> IF k \in Controls THEN on ELSE ui[k]]
  /\ told' = told \ Controls
  /\ UNCHANGED <<db, seen, net>>

SpeedOptions ==
  /\ \E v \in {"minimal", "medium", "full"} : ui' = [ui EXCEPT !["player_speed_options"] = v]
  /\ told' = told \ {"player_speed_options"}
  /\ UNCHANGED <<db, seen, net>>

\* What the form has is stored: the text of a Boolean as one.
handleSave ==
  /\ db' = [k \in Keys |-> CASE ui[k] = None -> db[k]
                             [] ui[k] \in {"true", "false"} -> Boolean(ui[k])
                             [] OTHER -> Text(ui[k])]
  /\ seen' = db' /\ told' = {k \in Keys : ui[k] # None}
  /\ UNCHANGED <<ui, net>>

Next == (\E k \in Keys \ {"player_speed_options"} : Switch(k)) \/ AllControls \/ SpeedOptions \/ handleSave

Spec == Init /\ [][Next]_vars

----------------------------------------------------------------------------
(* The client's player *)

getSetting(key, fallback) == IF db[key] = Absent THEN fallback ELSE db[key].is

\* Mutant: a value that is false counts as none.
getBoolSettingIfTruthy(key, fallback) ==
  IF db[key] = Absent \/ db[key] = Boolean("false") THEN fallback ELSE db[key].is = "true"
getBoolSetting(key, fallback) == IF db[key] = Absent THEN fallback ELSE db[key].is = "true"

getPlaybackRates(option) == CASE option = "minimal" -> 3 [] option = "full" -> 10 [] OTHER -> 7

controlPanelElements == {k \in Controls : getBoolSetting(k, TRUE)}

ShakaPlayerComponent ==
  [controls |-> controlPanelElements, autoplay |-> getBoolSetting("player_autoplay", FALSE),
   rates |-> getPlaybackRates(getSetting("player_speed_options", "medium"))]

(* The embedded player *)

\* Mutant: a control is shown only if it is stored.
getPlayerSettingsStored ==
  [controls |-> {k \in Both : db[k] # Absent /\ db[k].is # "false"},
   autoplay |-> IF db["player_autoplay"] = Absent THEN TRUE ELSE db["player_autoplay"].is = "true"]

\* Its defaults give way to what is stored, printed: a control is shown unless that
\* says false, and the video starts by itself unless it says otherwise.
getPlayerSettings ==
  [controls |-> {k \in Both : db[k] = Absent \/ db[k].is # "false"},
   autoplay |-> IF db["player_autoplay"] = Absent THEN TRUE ELSE db["player_autoplay"].is = "true"]

----------------------------------------------------------------------------
(* Properties *)

TypeOK ==
  /\ db \in Settings /\ seen = db /\ net = None /\ told \subseteq Keys
  /\ \A k \in Keys : ui[k] \in {None, "true", "false", "minimal", "medium", "full"}

\* The two players have the same controls, of those both can have, whatever is stored
\* or missing, and start by themselves alike once that has been saved.
PlayersAgree ==
  /\ ShakaPlayerComponent.controls \cap Both = getPlayerSettings.controls
  /\ "player_autoplay" \in told => ShakaPlayerComponent.autoplay = getPlayerSettings.autoplay

\* Once saved, the players do what the switches say.
SwitchesHold ==
  /\ \A k \in told \cap Controls : getBool(k) <=> k \in ShakaPlayerComponent.controls
  /\ "player_autoplay" \in told => getBool("player_autoplay") = ShakaPlayerComponent.autoplay

=============================================================================
