------------------------------ MODULE VideoPlayer ------------------------------
(***************************************************************************)
(* The player of a video (web/components/video-player.tsx), whose engine   *)
(* is a system setting.  React runs the effect that builds the player      *)
(* again whenever the page renders (the subtitles are a new array then),   *)
(* while an earlier run may still wait for what it imports, attaches or    *)
(* loads.  The addresses are of one video: a signed one is new each time   *)
(* the video is read.  A time is 1 if it is late enough to be worth        *)
(* resuming at (beyond 5 seconds) and 0 if it is not.                      *)
(***************************************************************************)
EXTENDS Naturals

CONSTANTS
  Urls,    \* addresses the video is played from
  MaxRuns  \* bound: runs of the effect

VARIABLES
  ui,      \* what the component is rendered with; run: its effect run, 0 if unmounted
  runs,    \* the runs of the effect, or Unused
  media,   \* mounted component (by its first run) -> its media element and its refs
  alive,   \* intervals and Shaka players that have not been stopped
  stored   \* localStorage: address -> the time to resume at

vars == <<ui, runs, media, alive, stored>>

Run == 1..MaxRuns
Unused == [step |-> "unused"]
Settings == [type: {"shaka", "vidstack"}, resumable: BOOLEAN]

\* While the settings load there are none, and each has its default.
NoSettings == [type |-> "shaka", resumable |-> FALSE]

\* ref: the player that playerRef holds; timer: the run whose interval the element
\* names; shows: the run whose video it plays; menu: Shaka's menu has the options of
\* the captions (module CaptionMenu).
Element == [ref |-> 0, timer |-> 0, shows |-> 0, time |-> 0, menu |-> FALSE]

\* mount: the first run of the same component; from: the time the run before it
\* left the same address at; late: it was over past its import, before it was ready.
NewRun(mount, from) ==
  [type |-> ui'.settings.type, resumable |-> ui'.settings.resumable, url |-> ui'.url,
   mount |-> mount, step |-> "import", over |-> FALSE, late |-> FALSE, from |-> from]

Used == {r \in Run : runs[r] # Unused}
Of(r) == media[runs[r].mount]
Ready(r) == runs[r].step = "ready"

Init ==
  /\ \E u \in Urls : ui = [url |-> u, settings |-> NoSettings, run |-> 1]
  /\ runs = [r \in Run |->
       IF r = 1 THEN [type |-> "shaka", resumable |-> FALSE, url |-> ui.url, mount |-> 1,
                      step |-> "import", over |-> FALSE, late |-> FALSE, from |-> 0]
       ELSE Unused]
  /\ media = [r \in Run |-> Element]
  /\ alive = [timers |-> {}, players |-> {}]
  /\ stored \in [Urls -> {0, 1}]

----------------------------------------------------------------------------
(* localStorage *)

savePlaybackPosition(url, time) == [stored EXCEPT ![url] = time]
getPlaybackPosition(url) == stored[url]

\* Only a time worth it is saved.
savePosition(r) ==
  IF runs[r].resumable /\ Of(r).time = 1 THEN savePlaybackPosition(runs[r].url, 1) ELSE stored

----------------------------------------------------------------------------
(* The effect is run again, or ends *)

\* After the import a run asks once whether it is over.
Over(r) ==
  [runs[r] EXCEPT !.over = TRUE, !.late = runs[r].step \notin {"import", "ready", "ended"}]

\* Mutants: the interval is left to run; the player is destroyed before the place
\* is saved.
CleanUpKeepsTimer(r) ==
  /\ media' = [media EXCEPT ![runs[r].mount] = [@ EXCEPT !.ref = 0, !.shows = 0, !.time = 0]]
  /\ alive' = [alive EXCEPT !.players = @ \ {Of(r).ref}]
  /\ stored' = savePosition(r)
CleanUpDestroysFirst(r) ==
  /\ media' = [media EXCEPT ![runs[r].mount] = [@ EXCEPT !.ref = 0, !.shows = 0, !.time = 0]]
  /\ alive' = [timers |-> alive.timers \ {Of(r).timer}, players |-> alive.players \ {Of(r).ref}]
  /\ stored' = IF Of(r).shows = Of(r).ref THEN stored ELSE savePosition(r)

\* The place is saved, the interval the element names is cleared and the player
\* that playerRef holds is destroyed, whosever they are.
CleanUp(r) ==
  /\ media' = [media EXCEPT ![runs[r].mount] =
                 [@ EXCEPT !.ref = 0, !.shows = IF Of(r).shows = Of(r).ref THEN 0 ELSE Of(r).shows,
                           !.time = IF Of(r).shows = Of(r).ref THEN 0 ELSE Of(r).time]]
  /\ alive' = [timers |-> alive.timers \ {Of(r).timer}, players |-> alive.players \ {Of(r).ref}]
  /\ stored' = savePosition(r)

\* Vidstack's elements are removed, their interval is cleared and the place saved.
VidstackCleanUp(r) ==
  /\ media' = [media EXCEPT ![runs[r].mount] = Element]
  /\ alive' = [alive EXCEPT !.timers = @ \ {Of(r).timer}]
  /\ stored' = savePosition(r)

\* The listeners of every run that got ready on an element are still there.
Listening(mount) ==
  {r \in Used : Ready(r) /\ runs[r].type = "shaka" /\ runs[r].resumable /\ runs[r].mount = mount}
Heard(mount, time) ==
  [u \in Urls |-> IF \E r \in Listening(mount) : runs[r].url = u THEN time ELSE stored[u]]

\* When the component is unmounted its references to elements are empty already:
\* nothing is saved, no interval cleared (playerRef is none of them).  An element
\* that played says that it pauses, before or after the player has let go of it.
UnmountCleanUp(r) ==
  /\ media' = [media EXCEPT ![runs[r].mount] = [@ EXCEPT !.ref = 0, !.shows = 0, !.time = 0]]
  /\ alive' = [alive EXCEPT !.players = @ \ {Of(r).ref}]
  /\ \/ UNCHANGED stored
     \/ \E time \in {0, Of(r).time} : stored' = Heard(runs[r].mount, time)

\* The time the next run should take up, if it has the same address.
LeftAt(r, url) ==
  IF runs[r].type = "shaka" /\ runs[r].resumable /\ runs[r].url = url THEN Of(r).time ELSE 0

\* The page renders: with the same address or another, and settings that may have
\* come (or changed from what they are without any).  Another engine is another
\* component.
Render ==
  LET r == ui.run
      n == r + 1 IN
  /\ r # 0 /\ n \in Run
  /\ \E url \in Urls, settings \in (IF ui.settings = NoSettings THEN Settings ELSE {ui.settings}) :
       LET same == settings.type = ui.settings.type IN
       /\ ui' = [url |-> url, settings |-> settings, run |-> n]
       /\ IF ~same THEN UnmountCleanUp(r)
          ELSE IF runs[r].type = "shaka" THEN CleanUp(r) ELSE VidstackCleanUp(r)
       /\ runs' = [runs EXCEPT ![r] = Over(r),
                               ![n] = NewRun(IF same THEN runs[r].mount ELSE n,
                                             IF same /\ settings.resumable THEN LeftAt(r, url) ELSE 0)]

\* The sheet closes or the page is left.
Unmount ==
  /\ ui.run # 0
  /\ ui' = [ui EXCEPT !.run = 0]
  /\ UnmountCleanUp(ui.run)
  /\ runs' = [runs EXCEPT ![ui.run] = Over(ui.run)]

----------------------------------------------------------------------------
(* One run of the effect *)

\* Shaka is there.  Only now does the run ask whether it is over.
ShakaImported(r) ==
  /\ runs[r] # Unused /\ runs[r].type = "shaka" /\ runs[r].step = "import"
  /\ \E supported \in BOOLEAN :
       IF runs[r].over \/ ~supported
       THEN runs' = [runs EXCEPT ![r].step = "ended"] /\ UNCHANGED alive
       ELSE /\ runs' = [runs EXCEPT ![r].step = "attach"]
            /\ alive' = [alive EXCEPT !.players = @ \cup {r}]
  /\ UNCHANGED <<ui, media, stored>>

\* The options of the captions are injected; what comes back removes them again.
injectCaptionOptionsMenu == TRUE
cleanupCaptionMenu(menu) == FALSE

\* The player is attached, the controls are built, the options are injected, which
\* is undone at once, and the video begins to load.
Attached(r) ==
  /\ runs[r].step = "attach"
  /\ runs' = [runs EXCEPT ![r].step = "load"]
  /\ media' = [media EXCEPT ![runs[r].mount] =
                 [@ EXCEPT !.ref = r, !.menu = cleanupCaptionMenu(injectCaptionOptionsMenu)]]
  /\ UNCHANGED <<ui, alive, stored>>

\* The video plays while its subtitles are added.  A player that was destroyed has
\* its load interrupted.
Loaded(r) ==
  /\ runs[r].step = "load" /\ r \in alive.players
  /\ runs' = [runs EXCEPT ![r].step = "tracks"]
  /\ media' = [media EXCEPT ![runs[r].mount] = [@ EXCEPT !.shows = r, !.time = 0]]
  /\ UNCHANGED <<ui, alive, stored>>

\* The place is taken up and the interval set, and the element names it.
BecomesReady(r, resumes) ==
  /\ runs' = [runs EXCEPT ![r].step = "ready"]
  /\ media' = [media EXCEPT ![runs[r].mount] =
                 [@ EXCEPT !.time = IF resumes /\ runs[r].resumable /\ getPlaybackPosition(runs[r].url) = 1
                                    THEN 1 ELSE Of(r).time,
                           !.timer = IF runs[r].resumable THEN r ELSE Of(r).timer]]
  /\ alive' = IF runs[r].resumable THEN [alive EXCEPT !.timers = @ \cup {r}] ELSE alive
  /\ UNCHANGED <<ui, stored>>

TracksAdded(r) == runs[r].step = "tracks" /\ BecomesReady(r, TRUE)

\* The load fails: the run goes on without the video.
LoadFails(r) == runs[r].step = "load" /\ BecomesReady(r, FALSE)

\* Vidstack's three modules are there: its elements are built at once.  Whether the
\* video element is among them yet, to take up the place, is the library's business.
VidstackImported(r) ==
  /\ runs[r] # Unused /\ runs[r].type = "vidstack" /\ runs[r].step = "import"
  /\ IF runs[r].over
     THEN runs' = [runs EXCEPT ![r].step = "ended"] /\ UNCHANGED <<ui, media, alive, stored>>
     ELSE \E there \in BOOLEAN :
            /\ runs' = [runs EXCEPT ![r].step = "ready"]
            /\ media' = [media EXCEPT ![runs[r].mount] =
                 [Element EXCEPT !.timer = IF runs[r].resumable THEN r ELSE 0, !.shows = r,
                    !.time = IF there /\ runs[r].resumable THEN getPlaybackPosition(runs[r].url) ELSE 0]]
            /\ alive' = IF runs[r].resumable THEN [alive EXCEPT !.timers = @ \cup {r}] ELSE alive
            /\ UNCHANGED <<ui, stored>>

----------------------------------------------------------------------------
(* The video plays *)

\* The user watches on or goes back.
Watch ==
  /\ ui.run # 0 /\ Of(ui.run).shows # 0
  /\ media' = [media EXCEPT ![runs[ui.run].mount].time = 1 - @]
  /\ runs' = [runs EXCEPT ![ui.run].from = 0]
  /\ UNCHANGED <<ui, alive, stored>>

\* Every five seconds while it plays.
Tick(r) ==
  /\ r \in alive.timers /\ Of(r).time = 1
  /\ stored' = savePlaybackPosition(runs[r].url, 1)
  /\ UNCHANGED <<ui, runs, media, alive>>

\* The user pauses, at whatever time; or the video ends.
Paused ==
  /\ ui.run # 0 /\ Of(ui.run).shows # 0
  /\ stored' = Heard(runs[ui.run].mount, Of(ui.run).time)
  /\ runs' = [runs EXCEPT ![ui.run].from = 0]
  /\ UNCHANGED <<ui, media, alive>>

Ended ==
  /\ ui.run # 0 /\ Of(ui.run).shows # 0 /\ Of(ui.run).time = 1
  /\ stored' = Heard(runs[ui.run].mount, 0)
  /\ runs' = [runs EXCEPT ![ui.run].from = 0]
  /\ UNCHANGED <<ui, media, alive>>

Next ==
  \/ Render \/ Unmount \/ Watch \/ Paused \/ Ended
  \/ \E r \in Used :
       ShakaImported(r) \/ Attached(r) \/ Loaded(r) \/ TracksAdded(r) \/ LoadFails(r)
       \/ VidstackImported(r) \/ Tick(r)

Spec == Init /\ [][Next]_vars

----------------------------------------------------------------------------
(* Properties *)

TypeOK ==
  /\ ui \in [url: Urls, settings: Settings, run: 0..MaxRuns]
  /\ runs \in [Run -> {Unused} \cup
       [type: {"shaka", "vidstack"}, resumable: BOOLEAN, url: Urls, mount: Run,
        step: {"import", "attach", "load", "tracks", "ready", "ended"},
        over: BOOLEAN, late: BOOLEAN, from: {0, 1}]]
  /\ media \in [Run -> [ref: 0..MaxRuns, timer: 0..MaxRuns, shows: 0..MaxRuns, time: {0, 1},
                      menu: BOOLEAN]]
  /\ alive \in [timers: SUBSET Run, players: SUBSET Run]
  /\ stored \in [Urls -> {0, 1}]

\* A Shaka run that a render cut short, past the one question it asks, goes on
\* beside its successors and takes their place in the refs.
Disturbed(r) ==
  \E x \in Used : runs[x].mount = runs[r].mount /\ runs[x].late /\ runs[x].type = "shaka"

\* However often the page renders, no player and no interval of an earlier run is
\* left, but in a component where a run was cut short and, of the intervals, in
\* one that was unmounted, whose cleanup finds its references empty.
NothingLeaks ==
  /\ \A r \in alive.players : r = ui.run \/ Disturbed(r)
  /\ \A r \in alive.timers :
       \/ r = ui.run \/ Disturbed(r)
       \/ ui.run = 0 \/ runs[ui.run].mount # runs[r].mount

\* A render does not lose the viewer's place: a run that loads takes up the time its
\* predecessor left the same address at, unless the user has moved or paused since
\* (the listeners that earlier runs left write over the place while it loads).
TakesUpThePlace ==
  \A r \in Run : runs[r].step = "tracks" /\ runs'[r].step = "ready" /\ ~runs[r].over /\ runs[r].from = 1
    => media'[runs[r].mount].time = 1

=============================================================================
