------------------------------ MODULE WebQueries ------------------------------
(***************************************************************************)
(* The cached server data of the web client (web/services/*.ts): each hook *)
(* as the key it reads under, the facts it shows, the facts it changes and *)
(* the keys it invalidates; and the life of one cached query while such    *)
(* mutations run, of which only what they mean for the query matters.  A   *)
(* fact is a kind of datum and the item it is about: "x" is the one an     *)
(* open page shows, "y" another, "new" one still to come.                  *)
(***************************************************************************)
EXTENDS Naturals, Sequences, SequencesExt

CONSTANTS
  Slots,       \* bound: mutations open at once
  MaxVersion   \* bound: changes of what the query reads

Existing == {"x", "y"}
Facts(kind) == {<<kind, i>> : i \in Existing \cup {"new"}}
About(kinds, i) == {<<kind, i>> : kind \in kinds}

----------------------------------------------------------------------------
(* The queries *)

Video == {"video", "thumbnail"}
Analytics(of) == [key |-> <<"analytics", of>>, reads |-> Facts("video")]

useVideos == [key |-> <<"videos", "params">>, reads |-> UNION {Facts(k) : k \in Video}]
useVideo(i) == [key |-> <<"videos", i>>, reads |-> About(Video \cup {"jobs"}, i)]
useVideoThumbnails(i) == [key |-> <<"videos", i, "thumbnails">>, reads |-> About({"thumbnail"}, i)]
usePublicVideo(i) == [key |-> <<"public-video", i>>, reads |-> About(Video, i)]
usePresets == [key |-> <<"presets">>, reads |-> Facts("preset")]
usePreset(i) == [key |-> <<"presets", i>>, reads |-> About({"preset"}, i)]
useUsers == [key |-> <<"users", "params">>, reads |-> Facts("user")]
useUser(i) == [key |-> <<"users", i>>, reads |-> About({"user"}, i)]
useAccountSessions == [key |-> <<"account-sessions", "params">>, reads |-> Facts("session")]
usePasskeys == [key |-> <<"passkeys">>, reads |-> Facts("passkey")]
useWebhooks == [key |-> <<"webhooks">>, reads |-> Facts("webhook")]
useWebhookDeliveries(i) == [key |-> <<"webhooks", i, "deliveries">>, reads |-> About({"delivery"}, i)]
useSystemSettings == [key |-> <<"settings">>, reads |-> Facts("setting")]
useSystemSetting(i) == [key |-> <<"settings", i>>, reads |-> About({"setting"}, i)]
useVideoSubtitles(i) == [key |-> <<"video-subtitles", i>>, reads |-> About({"subtitle"}, i)]
usePublicSubtitles(i) == [key |-> <<"public-subtitles", i>>, reads |-> About({"subtitle"}, i)]
useAnalyticsOverview == Analytics("overview")
useTopVideos == Analytics("top-videos")

Queries ==
  {useVideos, usePresets, useUsers, useAccountSessions, usePasskeys, useWebhooks,
   useSystemSettings, useAnalyticsOverview, useTopVideos}
  \cup {useVideo("x"), useVideoThumbnails("x"), usePublicVideo("x"), usePreset("x"), useUser("x"),
        useWebhookDeliveries("x"), useSystemSetting("x"), useVideoSubtitles("x"), usePublicSubtitles("x")}

----------------------------------------------------------------------------
(* The mutations *)

useUploadVideo == [writes |-> About({"video"}, "new"), invalidates |-> {<<"videos">>}]
useUpdateVideo(i) ==
  [writes |-> About({"video"}, i), invalidates |-> {<<"videos", i>>, <<"videos">>}]
useDeleteVideo(i) ==
  [writes |-> About(Video \cup {"jobs", "subtitle"}, i), invalidates |-> {<<"videos">>}]
useRetranscodeVideo(i) ==
  [writes |-> About({"video", "jobs"}, i), invalidates |-> {<<"videos", i>>}]
useSetThumbnail(i) ==
  [writes |-> About({"thumbnail"}, i),
   invalidates |-> {<<"videos", i>>, <<"videos", i, "thumbnails">>}]
useUploadThumbnail(i) ==
  [writes |-> About({"thumbnail"}, i),
   invalidates |-> {<<"videos", i>>, <<"videos", i, "thumbnails">>}]
useCreatePreset == [writes |-> About({"preset"}, "new"), invalidates |-> {<<"presets">>}]
useUpdatePreset(i) ==
  [writes |-> About({"preset"}, i), invalidates |-> {<<"presets", i>>, <<"presets">>}]
deleteForgets(i) == [writes |-> About({"preset"}, i), invalidates |-> {<<"presets", i>>}]
useDeletePreset(i) == [writes |-> About({"preset"}, i), invalidates |-> {<<"presets">>}]
useCreateUser == [writes |-> About({"user"}, "new"), invalidates |-> {<<"users">>}]
useUpdateUser(i) == [writes |-> About({"user"}, i), invalidates |-> {<<"users", i>>, <<"users">>}]
useDeleteUser(i) == [writes |-> About({"user"}, i), invalidates |-> {<<"users">>}]
useUploadAvatar == [writes |-> About({"user"}, "x"), invalidates |-> {<<"auth-me">>}]
useDeleteAvatar == [writes |-> About({"user"}, "x"), invalidates |-> {<<"auth-me">>}]
useLinkGoogle == [writes |-> About({"user"}, "x"), invalidates |-> {<<"auth-me">>}]
useUnlinkGoogle == [writes |-> About({"user"}, "x"), invalidates |-> {<<"auth-me">>}]
useCreateAccountSession ==
  [writes |-> About({"session"}, "new"), invalidates |-> {<<"account-sessions">>}]
useDeleteAccountSession(i) ==
  [writes |-> About({"session"}, i), invalidates |-> {<<"account-sessions">>}]
handleRegisterPasskey == [writes |-> About({"passkey"}, "new"), invalidates |-> {}]
useRenamePasskey(i) ==
  [writes |-> About({"passkey"}, i), invalidates |-> {<<"passkeys">>, <<"auth-me">>}]
useDeletePasskey(i) ==
  [writes |-> About({"passkey"}, i), invalidates |-> {<<"passkeys">>, <<"auth-me">>}]
useCreateWebhook == [writes |-> About({"webhook"}, "new"), invalidates |-> {<<"webhooks">>}]
useUpdateWebhook(i) == [writes |-> About({"webhook"}, i), invalidates |-> {<<"webhooks">>}]
useDeleteWebhook(i) ==
  [writes |-> About({"webhook", "delivery"}, i), invalidates |-> {<<"webhooks">>}]
useRegenerateWebhookSecret(i) ==
  [writes |-> About({"webhook"}, i), invalidates |-> {<<"webhooks">>}]
useUpdateSystemSetting(i) == [writes |-> About({"setting"}, i), invalidates |-> {<<"settings">>}]
useBulkUpdateSettings == [writes |-> About({"setting"}, "x"), invalidates |-> {<<"settings">>}]
attachForgets(i) == [writes |-> About({"subtitle"}, i), invalidates |-> {<<"subtitles", i>>}]
useAttachSubtitle(i) == [writes |-> About({"subtitle"}, i), invalidates |-> {<<"video-subtitles", i>>}]
useUploadSubtitle(i) == [writes |-> About({"subtitle"}, i), invalidates |-> {<<"video-subtitles", i>>}]
useDeleteSubtitle(i) == [writes |-> About({"subtitle"}, i), invalidates |-> {<<"video-subtitles", i>>}]

Mutations ==
  {useUploadVideo, useCreatePreset, useCreateUser, useUploadAvatar, useDeleteAvatar, useLinkGoogle,
   useUnlinkGoogle, useCreateAccountSession, handleRegisterPasskey, useCreateWebhook,
   useBulkUpdateSettings}
  \cup UNION {{useUpdateVideo(i), useDeleteVideo(i), useRetranscodeVideo(i), useSetThumbnail(i),
               useUploadThumbnail(i), useUpdatePreset(i), useDeletePreset(i), useUpdateUser(i),
               useDeleteUser(i), useDeleteAccountSession(i), useRenamePasskey(i),
               useDeletePasskey(i), useUpdateWebhook(i), useDeleteWebhook(i),
               useRegenerateWebhookSecret(i), useUpdateSystemSetting(i), useAttachSubtitle(i),
               useUploadSubtitle(i), useDeleteSubtitle(i)} : i \in Existing}

Writes(m, q) == m.writes \cap q.reads # {}
Invalidates(m, q) == \E p \in m.invalidates : IsPrefix(p, q.key)

\* The pairs whose mutation changes what the query shows and invalidates nothing
\* the query reads under: the page shows the old data until it is fetched anew.
KnownGaps ==
  ({useUploadVideo} \cup UNION {{useUpdateVideo(i), useDeleteVideo(i), useRetranscodeVideo(i)} : i \in Existing})
    \X {useAnalyticsOverview, useTopVideos}
  \cup (UNION {{useRetranscodeVideo(i), useSetThumbnail(i), useUploadThumbnail(i)} : i \in Existing}) \X {useVideos}
  \cup {useUpdateVideo("x"), useDeleteVideo("x"), useRetranscodeVideo("x"), useSetThumbnail("x"),
        useUploadThumbnail("x")} \X {usePublicVideo("x")}
  \cup {useDeleteVideo("x")} \X {useVideoSubtitles("x"), usePublicSubtitles("x")}
  \cup {useAttachSubtitle("x"), useUploadSubtitle("x"), useDeleteSubtitle("x")} \X {usePublicSubtitles("x")}
  \cup {useUploadAvatar, useDeleteAvatar, useLinkGoogle, useUnlinkGoogle} \X {useUsers, useUser("x")}
  \cup {handleRegisterPasskey} \X {usePasskeys}

\* Mutations that neither change nor invalidate the query leave it alone.
Concerns(m, q) == Writes(m, q) \/ Invalidates(m, q)

\* What a mutation means for the query.
Effect(m, q) ==
  [changes |-> Writes(m, q), hits |-> Invalidates(m, q), known |-> <<m, q>> \in KnownGaps]

Effects == [changes: BOOLEAN, hits: BOOLEAN, known: BOOLEAN]
EffectsOn(q) == {Effect(m, q) : m \in {n \in Mutations : Concerns(n, q)}}

----------------------------------------------------------------------------
(* The life of one query *)

VARIABLES
  effects,  \* what the mutations mean for the query looked at
  version,  \* how often the server has changed what it reads
  mounted,  \* a component on the screen uses it
  entry,    \* its entry in the cache: the version shown (loaded) and its marks
  fetch,    \* the request under way for it
  open,     \* slot -> the mutation in it and where it is, or Idle
  owed      \* history: the version the last mutation that settled here must show

vars == <<effects, version, mounted, entry, fetch, open, owed>>

Idle == [step |-> "idle"]
Request(failures) == [step |-> "sent", failures |-> failures]
NoData == [loaded |-> FALSE, data |-> 0, stale |-> TRUE, failed |-> FALSE]

Init ==
  /\ \E q \in Queries : effects = EffectsOn(q)
  /\ version = 0 /\ mounted = FALSE
  /\ entry = NoData /\ fetch = Idle
  /\ open = [s \in Slots |-> Idle]
  /\ owed = 0

\* A component mounts, or the window regains the focus: stale data are fetched
\* again unless a request is under way already.
Mount ==
  /\ mounted' = TRUE
  /\ fetch' = IF entry.stale /\ fetch = Idle THEN Request(0) ELSE fetch
  /\ entry' = IF entry.stale /\ fetch = Idle THEN [entry EXCEPT !.failed = FALSE] ELSE entry
  /\ UNCHANGED <<effects, version, open, owed>>

Unmount ==
  /\ mounted /\ mounted' = FALSE
  /\ UNCHANGED <<effects, version, entry, fetch, open, owed>>

\* staleTime: 30 seconds have passed since the data came.
TimePasses ==
  /\ entry.loaded /\ ~entry.stale
  /\ entry' = [entry EXCEPT !.stale = TRUE]
  /\ UNCHANGED <<effects, version, mounted, fetch, open, owed>>

\* Another browser or a worker changes what the query reads.
OthersWrite ==
  /\ version < MaxVersion /\ version' = version + 1
  /\ UNCHANGED <<effects, mounted, entry, fetch, open, owed>>

ServerReads ==
  /\ fetch.step = "sent"
  /\ fetch' = [step |-> "answered", failures |-> fetch.failures, data |-> version]
  /\ UNCHANGED <<effects, version, mounted, entry, open, owed>>

Arrives ==
  /\ fetch.step = "answered"
  /\ entry' = [loaded |-> TRUE, data |-> fetch.data, stale |-> FALSE, failed |-> FALSE]
  /\ fetch' = Idle
  /\ UNCHANGED <<effects, version, mounted, open, owed>>

\* retry: two more attempts, none after an error of the session.
FetchFails ==
  /\ fetch # Idle
  /\ \E sessionExpired \in BOOLEAN :
       IF ~sessionExpired /\ fetch.failures < 2
       THEN fetch' = Request(fetch.failures + 1) /\ UNCHANGED entry
       ELSE /\ fetch' = Idle
            /\ entry' = [entry EXCEPT !.failed = TRUE, !.stale = TRUE]
  /\ UNCHANGED <<effects, version, mounted, open, owed>>

mutate(s) ==
  /\ open[s] = Idle
  /\ \E does \in effects : open' = [open EXCEPT ![s] = [step |-> "sent", does |-> does]]
  /\ UNCHANGED <<effects, version, mounted, entry, fetch, owed>>

ServerWrites(s) ==
  /\ open[s].step = "sent"
  /\ open[s].does.changes => version < MaxVersion
  /\ version' = IF open[s].does.changes THEN version + 1 ELSE version
  /\ open' = [open EXCEPT ![s] = [step |-> "written", does |-> @.does, at |-> version']]
  /\ UNCHANGED <<effects, mounted, entry, fetch, owed>>

\* The client lets a first load, and the load of a query nobody shows, run on
\* when it is invalidated, and takes their answer for fresh.
RunsOn == fetch # Idle /\ (~mounted \/ ~entry.loaded)

\* onSuccess: what the mutation invalidates is stale, and fetched again if shown.
onSuccess(s) ==
  LET does == open[s].does IN
  /\ open[s].step = "written"
  /\ entry' = IF does.hits THEN [entry EXCEPT !.stale = TRUE, !.failed = @ /\ ~mounted] ELSE entry
  /\ fetch' = IF does.hits /\ mounted /\ ~RunsOn THEN Request(0) ELSE fetch
  /\ owed' = IF does.changes /\ ~does.known /\ ~RunsOn /\ open[s].at > owed
             THEN open[s].at ELSE owed
  /\ open' = [open EXCEPT ![s] = Idle]
  /\ UNCHANGED <<effects, version, mounted>>

\* The request or its answer is lost: nothing is invalidated.
MutationFails(s) ==
  /\ open[s] # Idle
  /\ open' = [open EXCEPT ![s] = Idle]
  /\ UNCHANGED <<effects, version, mounted, entry, fetch, owed>>

Next ==
  \/ Mount \/ Unmount \/ TimePasses \/ OthersWrite
  \/ ServerReads \/ Arrives \/ FetchFails
  \/ \E s \in Slots : mutate(s) \/ ServerWrites(s) \/ onSuccess(s) \/ MutationFails(s)

\* The browser and the server get on with a request; it may fail all the same.
Fairness == WF_vars(ServerReads \/ Arrives)

Spec == Init /\ [][Next]_vars /\ Fairness

----------------------------------------------------------------------------
(* Properties *)

TypeOK ==
  /\ effects \subseteq Effects /\ version \in 0..MaxVersion /\ mounted \in BOOLEAN
  /\ entry \in [loaded: BOOLEAN, data: 0..MaxVersion, stale: BOOLEAN, failed: BOOLEAN]
  /\ fetch.step \in {"idle", "sent", "answered"}
  /\ fetch # Idle => fetch.failures \in 0..2
  /\ \A s \in Slots : open[s] = Idle \/ open[s].does \in effects
  /\ owed \in 0..version

\* Once a mutation has settled, a page that shows data it changed shows them as
\* changed or is loading them, KnownGaps apart: each hook invalidates every key
\* its change is read under.
ReadYourWrites ==
  mounted /\ fetch = Idle /\ ~entry.failed => entry.loaded /\ entry.data >= owed

\* Once the mutations end, a page that stays and owes the user a change comes to
\* show it, unless its requests fail (each mutation restarts the request).
ChangeIsShown ==
  <>[][\A s \in Slots : ~onSuccess(s)]_vars =>
    ((entry.data < owed /\ mounted) ~> (entry.data >= owed \/ ~mounted \/ entry.failed))

=============================================================================
