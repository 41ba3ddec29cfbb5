----------------------------- MODULE PresetEncoding -----------------------------
(***************************************************************************)
(* One preset, from the fields of its dialog                               *)
(* (web/app/(protected)/presets/page.tsx) through the update that keeps    *)
(* what the dialog does not send (internal/handler/presets.go) to the      *)
(* arguments of the encoder (internal/transcoder/ffmpeg.go).  A number is  *)
(* its field's default or 0, what a cleared input gives; where other       *)
(* values are alike one stands for them, also for the three audio fields.  *)
(***************************************************************************)
EXTENDS Integers, Sequences

CONSTANTS
  None,       \* no value, no form
  MaxChanges  \* bound: changes made to fields

VARIABLES
  db,    \* the preset as stored
  seen,  \* the row of the table it is edited from
  ui,    \* the form of the open dialog, or None
  net,   \* the form being saved, or None
  told   \* history: the preset first stored, the fields changed, the number of changes

vars == <<db, seen, ui, net, told>>

----------------------------------------------------------------------------
(* The dialog: the changes each section offers for a form *)

setField(key, values) == {key} \X values

\* Another format than HLS hides the duration of a segment.
OutputAndCodec == setField("output_format", {"hls", "dash"}) \cup setField("codec", {"h264", "vp9", "av1"})
Bitrate == setField("preset_speed", {"medium", "slow"})
HlsSpecific(form) == IF form.output_format = "hls" THEN setField("hls_segment_duration", {0, 4}) ELSE {}
Encryption(form) ==
  setField("encryption", {"none", "aes-128", "sample-aes"}) \cup
  IF form.encryption # "none" THEN setField("key_rotation_interval", {0, 60}) ELSE {}
HardwareAcceleration == setField("hw_accel", {"none", "nvenc", "vaapi"})

\* The numbers below a switch are shown while it is on.  Mutant: while it is off.
SignedURLInverted(form) ==
  setField("signed_url_enabled", BOOLEAN) \cup
  IF ~form.signed_url_enabled THEN setField("signed_url_expiry", {0, 3600}) ELSE {}
SignedURL(form) ==
  setField("signed_url_enabled", BOOLEAN) \cup
  IF form.signed_url_enabled THEN setField("signed_url_expiry", {0, 3600}) ELSE {}
Thumbnail(form) ==
  setField("thumbnail_enabled", BOOLEAN) \cup
  IF form.thumbnail_enabled THEN setField("thumbnail_interval", {0, 10}) ELSE {}
Banner(form) ==
  setField("banner_enabled", BOOLEAN) \cup
  IF form.banner_enabled THEN setField("banner_timestamp", {0, 5}) ELSE {}
AudioSettings == setField("audio_codec", {"aac", "opus"})
FFmpegFlags ==
  setField("crf", {0, 23}) \cup setField("movflags", {"", "+faststart"}) \cup
  setField("faststart", BOOLEAN) \cup setField("two_pass", BOOLEAN)
DefaultPreset == setField("is_default", BOOLEAN)

Offered(form) ==
  OutputAndCodec \cup Bitrate \cup HlsSpecific(form) \cup Encryption(form)
  \cup HardwareAcceleration \cup SignedURL(form) \cup Thumbnail(form) \cup Banner(form)
  \cup AudioSettings \cup FFmpegFlags \cup DefaultPreset

\* The browser checks the least value of the inputs that are shown, and of no other.
Least(key) ==
  CASE key \in {"hls_segment_duration", "thumbnail_interval"} -> 1
    [] key = "signed_url_expiry" -> 60
    [] OTHER -> 0
Numbers == {"hls_segment_duration", "key_rotation_interval", "signed_url_expiry",
            "thumbnail_interval", "banner_timestamp", "crf"}
Shown(form) == {change[1] : change \in Offered(form)}
Submits(form) == \A key \in Numbers \cap Shown(form) : form[key] >= Least(key)

----------------------------------------------------------------------------
(* The page and the handler *)

\* A preset without resolutions is from before there could be several, and has no
\* frame rate; one whose
\* URLs are not signed may have been left without an expiry.
StoredPreset(signed, old) ==
  [output_format |-> "hls", codec |-> "h264", preset_speed |-> "medium", hls_segment_duration |-> 6,
   encryption |-> "none", key_rotation_interval |-> 0, hw_accel |-> "none",
   signed_url_enabled |-> signed, signed_url_expiry |-> IF signed THEN 3600 ELSE 0, thumbnail_enabled |-> FALSE,
   thumbnail_interval |-> 10, banner_enabled |-> FALSE, banner_timestamp |-> 5,
   audio_codec |-> "aac", crf |-> 23, movflags |-> "+faststart", faststart |-> TRUE,
   two_pass |-> FALSE, is_default |-> FALSE, framerate |-> IF old THEN None ELSE 24, extra_flags |-> "-g 60",
   resolution |-> 1081, resolutions |-> IF old THEN <<>> ELSE <<1081>>]
Presets == {StoredPreset(signed, old) : signed \in BOOLEAN, old \in BOOLEAN}

Init ==
  /\ db \in Presets /\ seen = db /\ ui = None /\ net = None
  /\ told = [first |-> db, fields |-> {}, changes |-> 0]

\* Mutant: a preset without a frame rate is given that of a new one.
openEditWithDefaults(preset) ==
  [preset EXCEPT !.extra_flags = None, !.framerate = IF @ = None THEN 30 ELSE @,
                 !.resolutions = IF @ = <<>> THEN <<preset.resolution>> ELSE @]
\* The form has no extra flags; no frame rate stays none.
openEdit(preset) ==
  [preset EXCEPT !.extra_flags = None,
                 !.resolutions = IF @ = <<>> THEN <<preset.resolution>> ELSE @]

OpensForm ==
  /\ ui = None /\ ui' = openEdit(seen)
  /\ UNCHANGED <<db, seen, net, told>>

ChangesField ==
  /\ ui # None /\ told.changes < MaxChanges
  /\ \E change \in Offered(ui) :
       /\ ui[change[1]] # change[2]
       /\ ui' = [ui EXCEPT ![change[1]] = change[2]]
       /\ told' = [told EXCEPT !.fields = @ \cup {change[1]}, !.changes = @ + 1]
  /\ UNCHANGED <<db, seen, net>>

Saves ==
  /\ ui # None /\ net = None /\ Submits(ui)
  /\ net' = ui /\ UNCHANGED <<db, seen, ui, told>>

Closes == ui # None /\ ui' = None /\ UNCHANGED <<db, seen, net, told>>

\* What the request does not say stays; its first resolution is the preset's.
Merged(preset, form) ==
  [form EXCEPT !.framerate = IF @ = None THEN preset.framerate ELSE @,
               !.extra_flags = preset.extra_flags,
               !.resolution = Head(form.resolutions)]
Update ==
  /\ net # None
  /\ \/ db' = Merged(db, net) /\ ui' = None   \* the dialog closes with the answer
     \/ UNCHANGED <<db, ui>>                  \* the request fails
  /\ net' = None /\ UNCHANGED <<seen, told>>

ListRead == seen' = db /\ UNCHANGED <<db, ui, net, told>>

Next == OpensForm \/ ChangesField \/ Saves \/ Closes \/ Update \/ ListRead
Spec == Init /\ [][Next]_vars

----------------------------------------------------------------------------
(* The encoder *)

\* There is no encoder of NVENC for VP9: it becomes H.264.
resolveEncoder(codec, hwAccel) ==
  [codec |-> IF hwAccel = "nvenc" /\ codec = "vp9" THEN "h264" ELSE codec, with |-> hwAccel]

mapNvencPresetSpeed == [medium |-> "p5", slow |-> "p6"]

\* Mutant: the duration is taken as it is.
hlsTimeAsStored(preset) == preset.hls_segment_duration
hlsTime(preset) == IF preset.hls_segment_duration > 0 THEN preset.hls_segment_duration ELSE 6

Even(height) == height - (height % 2)

\* A key for an encrypted preset, renewed if there is an interval, however long.
keyInfo(preset) ==
  IF preset.encryption = "none" THEN {}
  ELSE {"hls_key_info_file"}
       \cup (IF preset.key_rotation_interval > 0 THEN {"periodic_rekey"} ELSE {})
       \cup (IF preset.encryption = "sample-aes" THEN {"hls_enc"} ELSE {})

\* The output format, two_pass and the switches above have no part in it; the switch
\* of faststart has only without movflags.
buildFFmpegArgs(preset, height) ==
  [encoder |-> resolveEncoder(preset.codec, preset.hw_accel),
   preset |-> IF preset.hw_accel = "nvenc" THEN mapNvencPresetSpeed[preset.preset_speed]
              ELSE preset.preset_speed,
   quality |-> <<IF preset.hw_accel = "nvenc" THEN "cq" ELSE "crf", preset.crf>>,
   scale |-> Even(height), pix_fmt |-> preset.hw_accel = "none", audio |-> preset.audio_codec,
   framerate |-> preset.framerate, extra |-> preset.extra_flags,
   movflags |-> IF preset.movflags # "" THEN preset.movflags
                ELSE IF preset.faststart THEN "+faststart" ELSE "",
   hls_time |-> hlsTime(preset), hls_key |-> keyInfo(preset)]

\* One run for each resolution.
Runs(preset) ==
  LET heights == IF preset.resolutions = <<>> THEN <<preset.resolution>> ELSE preset.resolutions IN
  [i \in DOMAIN heights |-> buildFFmpegArgs(preset, heights[i])]

----------------------------------------------------------------------------
(* Properties *)

TypeOK ==
  /\ DOMAIN db = DOMAIN told.first /\ DOMAIN seen = DOMAIN db
  /\ ui = None \/ DOMAIN ui = DOMAIN db
  /\ net = None \/ DOMAIN net = DOMAIN db
  /\ told.changes \in 0..MaxChanges

\* However often the preset is opened, from an old row or not, and saved, what the
\* encoder is told changes with the changed fields only: apart from these the runs
\* are those of the preset first stored (what openEdit fills in, and what Update keeps).
OtherArgumentsStay ==
  Runs(db) = Runs([k \in DOMAIN db |-> IF k \in told.fields THEN db[k] ELSE told.first[k]])

\* A number hidden by its switch or by the format may be stored as 0, but the preset
\* is never stored with a switch on and no number below it.
EnabledIsUsable ==
  /\ db.signed_url_enabled => db.signed_url_expiry >= 60
  /\ db.thumbnail_enabled => db.thumbnail_interval >= 1

\* A duration cleared and then hidden never reaches the encoder, which gets a positive
\* one and an even height.
RunsAreLegal == \A i \in DOMAIN Runs(db) : Runs(db)[i].hls_time > 0 /\ Runs(db)[i].scale % 2 = 0

=============================================================================
