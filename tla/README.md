# GoMPP in TLA+

GoMPP is a media server in Go: users upload videos, a pool of workers runs ffmpeg
to make HLS renditions of them, webhooks announce what happened, and a web client
plays and manages the result.  One process (`server/main.go`) holds the HTTP server,
the worker pool and a few background goroutines; PostgreSQL and a storage backend
(a directory or S3) hold what survives it.  The web client (`web/`, Next.js and React
Query) runs in a browser tab of its own, over the same HTTP API.

This directory models the parts where order, failure or time decide whether the
program is right.  TLC checks small instances, with safety and liveness; TLAPS proves
every safety property that the passing runs check for every instance.

## Inventory

### Server

| Component | State | Operations | Hard because | Right when |
|---|---|---|---|---|
| Job queue (`repository/job_repo.go`) | rows of `transcode_jobs`: status, attempts, worker | Create, ClaimPending, Complete, Fail, AllCompleteForVideo, GetByVideoID | several workers, lost replies, writes by id only | one worker per job, attempts counted out, finished rows stay, nobody starves |
| Worker pool (`transcoder/worker.go`) | goroutines, their position in `processJob` and its locals | Start, Stop, run, processJob, generateMasterPlaylist | read-then-write across many calls, cancelled context, two finishers | somebody finishes each video, what is published exists |
| FFmpeg wrapper, progress parser (`transcoder/ffmpeg.go`, `progress.go`) | rendition directories, a pipe, a scanner's buffer | Transcode, DrainStderr, scanCRLF, the arguments of a preset | directories shared by height, killed half way, chunk boundaries | renditions intact, every line once, the pipe never blocks |
| Video service (`service/video_service.go`) | rows of `videos`, the source file | Upload, Retranscode, Delete | several statements without a transaction, racing with workers | status follows the jobs, references hold |
| Presets (`repository/preset_repo.go`, `transcoder/presets.go`) | rows of `encoding_presets` | List, Update, Delete, seed | deleted while a request holds it; seeding stops half way | every job's preset exists, defaults once per instance |
| Process (`server/main.go`, `database/`) | up, stopping, down; `schema_migrations` | migrate, seed, serve, SIGTERM, exit | several instances, order of Stop and Shutdown | each migration once and in order; it ends |
| Rate limiter (`middleware/ratelimit.go`, `router.watchRateLimits`) | visitors by address, limit, setting | Handler, cleanup, SetLimit, watch | three goroutines and a clock | bounded per window, quiet clients admitted |
| Webhooks (`handler/webhooks.go`, `service/webhook.service.go`) | rows of `webhooks` and `webhook_deliveries`, goroutines | CRUD, regenerate, Fire, deliver | stale copies, lost answers, crash | ends after success or three attempts, log agrees, secrets stay |
| Users (`handler/users.go`, `profile.go`, `auth.go`, `service/auth_service.go`) | rows of `users` | read-modify-write updates, Google find-or-create, ways to sign in | lost updates, double creation | only active users get tokens, one user per identity |
| Stored files (`handler/subtitles.go`, `profile.go`, `storage/local.go`) | files and the rows that name them | put, record, delete | two writes without a transaction | a row's file exists |
| Media serving, embed page | none | Stream, Handle | names that must agree with the workers' | an embedded player finds its playlist |
| API keys, request authentication, headers, configuration, metrics | single rows or none | single statements, pure functions | | |

### Web client

| Component | State | Hard because | Right when |
|---|---|---|---|
| Session (`lib/api-client.ts`, `providers/auth-provider.tsx`, guard, sign-in pages) | tokens, stored user, one shared refresh | concurrent 401s, answers of an earlier session | one refresh, tokens and user of one account |
| Cached queries (`services/*.ts`) | one entry per key | invalidation against requests that read before | the user sees what the user changed |
| Video in the library, watch page | sheet or page, polling | sheet goes on to other videos while calls run | polling does not stop too soon; acts on the video meant |
| Player (`components/video-player.tsx`) | runs of an effect, refs | cleanup while an import waits | nothing left running, playback resumes |
| Users, presets, webhooks, account, settings pages | dialogs, forms, calls | one form for new and existing items, late successes | a form goes to its item, edits stay |
| Lists and tables | page, order, selection, row menus | the list is read again meanwhile | a page that was offered, the row that was confirmed |
| Captcha, links from mails, landing page, theme, languages, menu, analytics, documentation chat | timers, renders, streams | order of timers, effects and answers | see `TimersHold`, `ShownBelongsTogether` |
| Widgets, layouts, documentation site | none of their own | | |

How they interact: a request inserts jobs that workers claim by polling; workers write
the video's row and its files, which requests read, overwrite or delete; both call
`Fire`, which reads the webhooks and starts goroutines of its own; the limiter stands
in front of every request and follows a setting an admin writes.  Nothing but
PostgreSQL, the storage and the limiter's mutex synchronises any of them.  In the
client everything runs on one thread, between whose turns answers, timers and renders
come in any order; its only protection are React Query's cache, refs and flags.

## Modules

| Module | Models |
|---|---|
| `Store` | tables `transcode_jobs`, `videos`, `encoding_presets`, the storage; one operator per statement |
| `TranscodeWorkers` | `run` and `processJob`, one action per call that reads or writes shared state |
| `TranscodePipeline` | Upload, Retranscode, Delete and preset deletion, one action per call; the process: workers and requests, stop, exit, crash, restart; fairness and properties |
| `JobQueue` | the abstract queue: what the pipeline promises of a job |
| `RateLimiter` | limiter, cleanup, setting and watcher, with time in ticks |
| `WebhookDelivery` | the owner's requests, Fire, deliver |
| `FFmpegRun` | ffmpeg writing into a pipe, `scanCRLF` under a `bufio.Scanner`, Transcode waiting |
| `PresetEncoding` | one preset from the fields of its dialog through the update to the encoder's arguments |
| `ServerStart` | several instances: migrations, first admin, default presets |
| `UserAccounts` | updates, deactivation, sign-up, Google, passkeys, statement by statement |
| `StoredFiles` | an avatar or the subtitles, files and rows in the order of their writes; its proofs |
| `WebSession` | the API client, its refresh, provider, guard and sign-in pages |
| `WebQueries` | every hook of `web/services` as what it reads, changes and invalidates; the life of one query |
| `VideoDetail`, `VideoCaptions`, `VideoShown` | a video in the sheet: polling and calls; captions and thumbnails; jobs and what is shown of them, also in public |
| `VideoPlayer`, `CaptionMenu`, `PlayerOptions` | runs of the player's effect; the caption options; the settings both players follow |
| `EditorDialog` with `UsersPage`, `PresetsPage`, `WebhooksPage` | what pages with a dialog share, and the three pages |
| `AccountPage`, `SettingsPage`, `ThemePreview` | those pages |
| `PagedTables`, `TableRows` | pages, sizes, orders; rows, selections, menus |
| `RecaptchaForm`, `PasswordPages`, `AnalyticsPage`, `Languages`, `LandingPage`, `DocsChat` | those parts |
| `MenuPaths` | the menu's searches; its proofs |
| `MCPipeline`, `MCBackground`, `MCRequests`, `MCWeb`, `MCPages` | compositions for TLC, with the properties their runs check |
| `PipelineProofs`, `BackgroundProofs`, `RequestsProofs`, `WebProofs`, `PagesProofs`, `PagesTypes` | proofs |

`TranscodePipeline` composes workers and requests over one `Store`: there everything
interleaves.  The parts of `MCBackground` (limiter, webhooks, ffmpeg), of `MCRequests`
(start, accounts, avatar, subtitles), of `MCWeb` (session, queries, video) and of
`MCPages` (each page) share no state with one another in the code, so those modules
look at one at a time: the variable `part` or `page` says which moves.  A property of
such a module is that of its parts, each where it is the one.

### The pipeline and the code

A row of `transcode_jobs` is a record; its number is its rank in `created_at`, which
is what ClaimPending orders by.  Statements run in transactions of their own, so each
is atomic, and nothing larger is.  A worker's `pc` names the call it is about to make:
`idle` (ClaimPending), `video`, `preset` (the two lookups), `encode`/`encoding`
(ffmpeg starts, runs; once per resolution), `complete` or `fail`/`reject`, `notify`
(transcode.failed), then `check` (AllCompleteForVideo), `ready` (UpdateStatus), `list`,
`playlist`, `master` (generateMasterPlaylist) and `announce` (video.ready).  A request's
`pc` does the same for the service's methods.

Every call that takes the pool's context fails once the context is cancelled; every
call to the database or the storage may fail for its own reasons as long as `faults`
allows; errors the code drops (`_ =`) are dropped.  A claim may commit and its reply be
lost (`ClaimReplyLost`).  Commit-then-lost replies of the other statements are not
modelled: a worker that gets an error from Complete or Fail does not look at the job
again.

The disk keeps, per video, the source, the intact rendition directories, whether a
master playlist is there and the heights it lists.  Two ffmpeg processes in one
directory spoil it (`mixed`).

### The other parts of the server

*Limiter.*  The handler and the cleanup hold the mutex from the first read to the last
write, so each is one action.  An entry is a count and the time it was last seen; a
count of 0 stands for no entry.  `log` is a history of each client's requests.  The
watcher reads the setting and sets the limit in two steps; a query that fails skips a
round, one that fails between rows ends the loop with the default (`rows.Err` is not
asked).  A configured default of 0 is excluded by `LimiterAssumption`; the code would
then still admit each client's first request.  `ratelimit.go` 16 speaks of a sliding
window; in the code every request, a rejected one too, renews the entry, so a client
that keeps trying is never admitted again.

*Webhooks.*  A goroutine of `deliver` is named by its event and its webhook and works
on a copy of the row.  A PUT is two steps (read the row, write it back); the statement
does not write the secret.  A request that makes a secret goes through the variable
`asks`: `found` (RegenerateSecret has the row and generates), `stored` (the INSERT or UPDATE
is committed), `done` (answered, failed or cut off); answers come in any order and may
be lost.  `mixed` remembers webhooks whose owner cannot know the secret: one was stored
before an earlier one was answered, or its answer was lost.  A secret that is stored alone
ends that.  `ShownSecretIsStored` speaks of the others, so it is about the PUT and about
requests that follow one another; what two regenerations at once do is under "Noticed".
A post has three outcomes: accepted and answered, refused or unreachable, accepted with
the answer lost.  A record is dropped when its insert fails or its webhook is gone.  A URL
no request can be made to ends a delivery at once without a record; only Update can store
one.  The sleeps are the time that may pass between two actions.  GetDeliveries always answers an empty list and is not modelled.

*ffmpeg's output.*  The pipe and the scanner's buffer hold a few bytes; every cut of the
output into reads is possible.  A line longer than the buffer stops the scanner for
good: then ffmpeg blocks on the full pipe and Transcode waits until the context ends,
although `ffmpeg.go` 165-167 says stderr must be fully drained.  `Settled` therefore
speaks of runs whose lines are short enough.

*Start.*  Migrate is step by step as in the code: create the table, list what is applied,
then per file begin, run, insert the version, commit.  The loser of two instances fails
on the key of `schema_migrations` and exits.  Seeding creates an admin with ON CONFLICT
DO NOTHING and the default presets one by one when the table is empty: two instances may
both do so, and one that stops half way is never resumed.

*Accounts.*  Each statement of `user_repo.go` is one step and a request may fail between
any two.  Update writes back email, username, role and switch as they were read, so a
concurrent deactivation is undone: `UpdatesKept` says exactly what survives.

*Files.*  `Put` of the local backend empties the file first (`storage/local.go` 44): a file
has the states absent, part and whole.  The avatar's name is the user's id with the type
of the picture, and the other types are removed after the row is written.  `mess`
remembers whether an upload or deletion broke off or overlapped another, since only then
may `avatar_url` name a file that is not there; the next upload that runs alone puts it
right, which is proved too.

### The client and the code

An answer and the continuation it resumes are one step, since JavaScript runs to
completion; between two awaits everything else may happen.  A React render and the
effects it causes are separate where the code can tell (`VideoPlayer`, `Languages`,
`RecaptchaForm`).  Values a page only passes on are members of small sets.

*Session.*  A token stands for the account it was issued to; an answer says whether it had
expired.  Slots are calls in flight, with the token each carries and whether its session
has ended meanwhile (`late`).  One tab only: other tabs share the stored tokens.

*Queries.*  The tables `Queries` and `Mutations` translate each hook.  A mutation that
changes what a query reads and invalidates no key of it is listed in `KnownGaps`; those
pages show old data until they are fetched anew.  They are: analytics after any change of
a video; the library's list after a retranscode or a new thumbnail; the public page and
its subtitles; the users' list after the own avatar or Google link changes; passkeys
after one is registered.

*Pages.*  Each page's module says in its header what is kept.  A page is followed for one
visit, but for the settings, where a save goes on when the page is left: a later visit has
a mutation of its own, whose button does not wait for it (`Visits`).  Where the code does
something a reader may take for an error, the model does the same; see "Noticed".

## Runs

| Run | Question | Bounds | States |
|---|---|---|---|
| `pipeline` | exclusiveness, counted retries, finished rows stay, somebody finishes, implements `JobQueue` | 1 video, 2 presets (one of two heights), 2 workers, 2 attempts, 1 fault, stop, crash, 1 restart | 840k |
| `retranscode` | renditions and playlists, announcements, references | upload, retranscode and deletions race; both presets write directory 720; no faults | 644k |
| `liveness` | jobs are settled, a stopped process ends | 2 uploads in one queue, SIGTERM at any time | 159k |
| `background` | limiter, webhooks, ffmpeg's output, and that each gets done | limiter: 1 client, window 2, 4 requests, 7 ticks, 1 change, 1 fault; webhooks: 1 webhook, 1 PUT, 1 fault, lost answer or crash, and 1 event with 3 secrets or 2 events with 1 (`MaxAsked`); outputs of up to 5 bytes, pipe 2, buffer 3 | 1,020k |
| `requests` | start, accounts, avatar, subtitles | 3 instances, 3 migrations, 2 presets, 2 errors or crashes; 2 users, emails and requests; an avatar of 2 types; 2 subtitles | 153k |
| `web_client` | session, one cached query, polling of a video | 2 accounts, 2 calls; any query, 2 mutations, 2 changes; 2 videos, 1 call | 173k |
| `web_pages` | every page and component | per page 1 or 2 items, 2 calls, 2 changes (of a profile too: name and email); 3 runs of the player's effect, 3 widgets, 2 pages, menus of 2 items on 2 levels | 1,273k |

Five runs show a document, or what it plainly promises, contradicted by the code:

* `v_stop` - transcoding.mdx 62 says a stop waits for the current jobs.  The context
  is cancelled first, so the job's ffmpeg is killed and even its Fail is not recorded:
  the row stays `processing` and no start looks for such rows.
* `v_stuck_processing` - Upload writes `processing` after the jobs are there, and may
  overwrite the workers' `ready` for good.
* `v_stale_playlist` - two finishers write the playlist in the wrong order and the
  newer renditions are missing for good.
* `v_progress` - the progress of a job with two resolutions starts again at 0.5 percent
  with the second: `base` is a fraction, the rest are percentages.
* `v_embed` - the embedded page asks for `stream/master.m3u8`, which no worker stores.

Also seen in the pipeline, and allowed by its model: jobs are inserted one by one while
workers take them, so video.ready may come before the last is inserted
(api-reference.mdx 489); transcode.failed is fired after each attempt, not only the last
(488); the status becomes `ready` before there is a playlist (transcoding.mdx 106-111).

Why the bounds are enough: every race found or excluded needs two actors (two workers, a
worker and a request, two requests, two calls) and one disturbance.  Two attempts are the
least with a retry and a last failure; two presets the least where a video has a first
and a last job; a preset with two heights the least where a job encodes more than once;
one fault hits any call once, and ffmpeg's own failures are bounded by the attempts
only.  In `retranscode` there are no faults, so that its properties, which faults weaken,
are checked in full strength; in `liveness` there are none because a job whose Fail fails
is stranded (see `v_stop`).  A window of 2 and limits 1 to 3 give windows that hold
fewer, as many and more requests than the limit; requests stop one window before time
does so that forgetting can still be seen.  Outputs of five bytes over a buffer of three
give lines that fit, fill and overflow it, cut at every place.  Three instances are the
least where one starts on what two others left; three secrets the least where one is
stored after two that were mixed up; two changes of a profile the least where name and
email are both saved.  Two accounts are the least that can be
confused, two calls the least that share a refresh, two items the least a late answer can
mix up.  Workers, slots, items and texts are symmetric.

Deadlock is checked where the system cannot stop; the other configurations say why it may.

## Fairness

* `PoolStep(w)` is weakly fair for each worker: a goroutine is scheduled, the database
  answers or fails, ffmpeg ends (its process is killed when the context is cancelled).
  The empty poll (`NoWork`) is a stuttering step, so polling does not count as progress.
* A request being served goes on, for the same reasons, until the process is gone.
* `Exit` is weakly fair: `wg.Wait` returns when the last worker left.
* Nothing obliges users to upload, nor signals, crashes and faults to come.
* The limiter's clock goes on and its two goroutines run for the life of the process.
* A delivery goes on: the HTTP client gives up after ten seconds.  ffmpeg writes or ends,
  the reader reads, and Transcode goes on when what it waits for has happened.
* In the session, `WF(Settles(c))` and `WF(Refreshed \/ RefreshFailed)`: a request is
  answered or fails; `WF(GuardRedirects)`: React runs effects.  A query's request gets on
  (`WF(ServerReads \/ Arrives)`) but may fail all the same; the interval of the polling
  fires (`WF(Poll)`) and the requests it sends get on.  The user need do nothing.
* The pages of `MCPages` are checked for safety only and assume no fairness.

## Proofs

Every theorem is proved by TLAPS for any sets of ids, workers, slots, texts and names and
any bounds, within the assumptions below.  `PipelineProofs`, `BackgroundProofs`,
`RequestsProofs`, `WebProofs`, `PagesProofs` and `PagesTypes` (what the pages show, on top of
`PagesProofs`) are modules of proofs only; `StoredFiles` and `MenuPaths` carry their own, because
their compositions instantiate them and cite the theorems through the instance
(`Avatars!`, `Subtitles!`, `Menu!`).  For each invariant there is a lemma about `Init`,
one per action, and one that combines them; a property that speaks of one kind of
thing only is proved on top of the invariant before it.

| Property | Proved from | Argument |
|---|---|---|
| `TypeOK`, `HeldRowIsClaimed`, `OneWorkerPerJob`, `RetriesExhausted` | `IInv` | see below |
| `TerminalJobsStay`, `ImplementsQueue` | `IInv` and `QueueStep` | see below |
| `ReferencesHold` | `RefInv` | a source is there before its row and outlives it; the request that brings both is alone with its id |
| `PlaylistListsCompleted`, `PlaylistPathHasFile` | `PlaylistInv` | what a finisher read of the jobs stays true until it writes, since a completed job stays completed; without faults the file is there before its path |
| `CompletedHasRenditions` | `RenditionInv` | at resolution i of its preset a worker has stored the i - 1 before, except where another job of the same height has started: that excuse is never taken back |
| `ReadyEventsBounded` | counting | announcements and workers about to announce are at most the completed jobs: a worker becomes a finisher by completing its job, and the sets are finite |
| `SomeoneFinishes` | counting and `Undisturbed` | the worker that completes the last job sees all of them complete; only faults and crashes take a finisher away, and `Undisturbed` holds backwards along a step |
| `WindowWithinLimit`, `QuietClientAdmitted` | `LInv` | see below |
| `ShownSecretIsStored` | `SecretInv` in `DeliveryInv` | of a webhook that is not mixed up at most one secret waits for its answer, and it is the stored one; without one the stored is the shown; a request still at its row has stored nothing, and a PUT writes no secret |
| `DeliveriesAreTold` | `DeliveryInv` | what each place of a delivery says of attempts, log and receiver |
| `TypesOK` of the reader | `EncoderInv` | the pipe, the buffer and the lines kept hold bytes of the output only, so a line found has an end inside the buffer |
| `LinesRead` | `ReaderInv` | the bytes read and taken from the buffer begin the output and end where a line does, so their lines are its first; see below |
| `SchemaIsMigrated` | `StartInv` | what an instance need not do is applied; the file in a transaction is the first to do; a version inserted is new and in no other open transaction, by the key |
| `Seeded` | `SeedInv` | without trouble: an instance past the admins has one; who creates presets created those before; each creates a preset once, since there was none when it began |
| `AccountsHold` | `AccountsInv` | what a request knows of its user, and for each field of an update: as the user has it, as asked for, or changed since it was read |
| `RowsHaveFiles` | `FilesInv` | a request that is alone finds what it left; whoever is not is noted in `mess`; where `mess` names no trouble, each file is as the row says except those a request has yet to write or remove |
| `TypeOK`, `SharedRefresh`, `AccountsAgree` of the session | `IInv` of `WebProofs` | what was asked within the present session carries its tokens (`InSession`), unless an answer strayed |
| `ReadYourWrites` | `QueryInv` and `HooksInvalidate` | below |
| `ActsOnItsItem` | `EditorInv`, `CaptionsInv`, `ConfirmedIsDeleted` | a form is filled together with the id its dialog edits and emptied together with it, so whatever a late success closes, they agree when they are sent |
| `SavedIsStored` | `EditorInv`, `AccountInv`, `SettingsInv`, `PasswordInv` | below |
| `ChoicesKept` | `EditsInv`, `OptionsInv`, `ChatInv`, `PresetsInv` | a form is filled only while it is empty and every choice is written to all its copies at once; see below |
| `TimersHold` | `PlayerInv`, `LandingInv`, `ResetInv` | who set a reference is who is alive behind it, unless a run came late; a time-out is one and of the step that is shown |
| `NothingLostNorTwice` | `PlayerInv`, `ResetInv` | a place that is to be taken up is stored under its address; a widget whose response was sent is forgotten before the next is rendered |
| `VideoAsItIs` | `EncodingInv`, `ShownInv`, `PlayInv` | a form and a row are the preset as it was first but for the fields that were changed; a job that was over when it was read is over still; see below |
| `ShownBelongsTogether`, `TypeOK` of the pages | `ShownInvs` | what is shown was read after the last change that was told, or will be read again; counts of rows, searches in the menu and pages of rows as below |

*The job queue.*  `OneWorkerPerJob` is not inductive.  Complete and Fail write by id, so a worker
that held a row without the row saying so could hand it to another.  The invariant
`IInv` adds what each row says of itself (`RowOK`: rows above `created` are absent,
attempts are counted as the status says), what each worker holds
(`WorkerOK`: its job is a created row), that held rows are `processing` and name their
holder (`HeldRowIsClaimed`), and what each request may still insert (`ClientOK`).
`HeldRowIsClaimed` gives exclusiveness, since a row names one worker.  Each action is
then classified by what it does to the queue (`QueueStep`): it inserts a row, takes one,
drops one with its new status, or only lets workers go; the step lemma proves `IInv'` and
that classification together, and both the stability of finished rows and the
refinement follow from it.  Under the refinement a worker that vanishes in a crash is
`Strand`, a claim whose reply is lost a `Take` by nobody.

*The limiter.*  `LInv` says what a count means: with c counted among n requests, all but
the last c came more than a window before the first of those c; without an entry, all of
them are older than a window.  A request that is admitted with count c therefore shares
its window with at most c - 1 others, all of them among the last c, and c is within the
limit.  The cleanup keeps the meaning, since it deletes only entries whose requests all
are old.

*The reader.*  `LinesOf` says without recursion which lines a text has: one for each byte that is
not an end of a line and has one, or nothing, before it, the n-th such byte being the one with n up to
it (`Nth`).  `NthIs` says that there is one and only one, and `NthBegins` that the n-th of what begins a
set is its own n-th, so `LinesBegin` (the lines of a beginning that cuts no line are the
text's first) and `LineMore` (a piece more is a line more) need no induction over the text.
`ReaderInv` then follows the bytes: those `Seen` are gone from the buffer, buffer and pipe hold the ones
after them, and `Seen` ends at an end of a line unless ffmpeg is gone and nothing is left.  The split function
takes a piece without an end and the end after it (`SplitIs`), and what is kept of the
lines stays their last messages with each more (`ToldProgress`, `ToldMessage`).

*The cached queries.*  `HooksInvalidate` goes through every mutation and every query of
`web/services`: where the mutation writes what the query reads, a key it invalidates is a
prefix of the query's, or the pair is one of `KnownGaps`.  It is about the two tables
only, and proved by one lemma for each way a mutation misses a query.  `QueryInv` then says
what a page is owed: an answer on its way was read after the last change that was told,
or another request will be made; an entry that is neither stale nor being read again is
as new as that.

*The pages.*  The three pages that edit a list share `EditorDialog`, and so do their proofs:
`EditorInv(I, V, F)` is stated for any items I, values V and forms F, with one lemma per
operation (`SentEditor`, `ServedEditor`, `SettledEditor`, ...), and cited for users, presets
and webhooks.  `SavedIsStored` is not inductive: it does not say that an update that has
been done and not yet answered is what the server has.  `EditorInv` adds that only one update is open
(`Single`, since the buttons wait), that its form is then the server's unless the item is being
deleted (`DoneIsStored`), and that what was told stays until a call changes it
(`ToldIsStored`).  A deletion that is settled leaves unknown what an open update says
(`sole`), for the server may have done either last.  `AccountInv` and `SettingsInv` are the same for
a profile of two fields and for one form: of name and email one save at most is open, since
both buttons wait for the one mutation, and a field keeps what was told saved while the
other is changed.  Two saves of the settings may be open, one of an earlier visit; what was told is the
last that was stored, for whatever is stored next takes the place of it (`StoredIs`), and what is
stored of a text is shown again like it, but for digits in quotes.  `PasswordInv` says that the
form is sent once at a time and shown no more after a change that was reported done, so
a link is good for one change and its timer runs only after it.
`EditsInv` follows what was typed into the settings since the form was filled, and with it the path that
FFmpeg's status, there or on its way, is of (so `StatusIsOfPath` holds for any instance too); `OptionsInv` that an
observer or the effect is due whenever a caption on the screen has not the style chosen; `ChatInv` that one
answer at most is under way, below its question and with room for it, so that `AnswerBelowQuestion`
holds besides `InputKept`.
`PlayerInv` says of the runs of the player's effect that all but the present one are over,
that each that is alive is the present one or of a component where a run was cut short past its import, and
that an element's references are those of the run that set them last: what a cleanup stops is
then its own.  `LandingInv` keeps one time-out, as far from its end as the bar is from its own,
and `ResetInv` what an open container holds while the hook waits, renders and forgets.
`EncodingInv` says of the preset on the server, of the one last read, of the form and of the one under way
that each is the first preset but for the fields the user changed, and that no switch is sent or stored on
without its number; since the list of resolutions a form adds means what its one
resolution meant, the encoder runs alike.  `ShownInv` says that what a screen read of a job that is over still
holds, for only jobs in progress belong to a worker, and that a job was done before its video was ready or
finishing, so that a shown preview has a playlist; `PlayInv` says that a key seen saved is stored as the form has it.

*What the pages show.*  `PagesTypes` adds `ShownInvs` to the invariant of `PagesProofs`.
`ProfileInv` and `ListInv` say when the profile and the list of captions may differ from the
server's: while a change that is done has not been told (its answer makes the page read
again), while a read is on its way, or, for the list, while it is known to be stale and asked
for.  For the analytics, a sum does not depend on the order it is taken in (`SumIs`: a
smallest set with a wrong sum would have a smaller one), and rows counted by what one
column says add up to all of them (`CountedByKind`), so the panels of one answer agree; `AnalyticsInv`
keeps each answer under the key of its period.  The menu's searches are described without
recursion for its trees of two levels: the first item of a level that is active or has an
active child, then that child; heading, breadcrumbs and list below go down alike
(`MenuIsOne`, for any width and any paths).  `TableInv` says that the number on display was read for the
search on display, so that a page that is gone to was offered; `RowsInv` that an open menu
is of a row there is; `LanguageInv` that nothing has a language before one was looked for.

*Hypotheses.*  Bounds are natural numbers, with at least one attempt, one preset and one
line kept for errors; presets have a resolution; workers and instances are finitely many
(they are counted); `None` is no id, email, extension or subtitle, and no subtitle is
called as `mess` calls a trouble (`NoneApart`, `NamesApart`, established in `RequestsProofs`
from `NamesAssumption`); on the pages what stands for nothing is no item, no value and no text of a switch,
slots are no videos, there is a label and a default
choice, the pages of the options are apart, the bounds on runs, attempts and resolutions
are at least one and progress is a percentage; videos are finitely many and `None` is no number
of rows, menu item, answer or color; the sizes of pages and the step of "more" are at least one, the empty path is
a path and 30 days a period (`PagesAssumption`).  TLC evaluates each of them in its runs.
No definition that a proof reaches has an `@` inside the value of another `@`: tlapm 1.4.5 reads
both as the inner one.

*Only model-checked.*  Liveness (`PendingIsSettled`, `ShutdownCompletes`, `WorkIsDone`,
`SessionGoesOn`, `ChangesAreShown`), which is out of the prover's reach.

## Not modelled, and why

* Probing, thumbnails, previews, `meta.json`, metrics, error texts (`ffmpeg_log` is
  always recorded empty, where transcoding.mdx speaks of the last 30 lines): nothing
  modelled reads them.
* The remote backend's temporary directories, named after video and height and removed
  on return; the workers' disk is the local backend's.
* `extractUpSQL`: a function of a migration's text.  The order of presets within a
  request, and one named twice: any order is allowed, and a repetition adds only another
  job of the same preset.
* Soft-deleted videos keep their jobs, and UpdateStatus writes their rows too; modelled,
  but no property speaks of rows nobody can see.
* Names, roles, passwords, API keys, JWT, WebAuthn's and Google's protocols, media
  signing, ranges: single statements, libraries or pure functions.
* backend.mdx 254 gives the webhook's pauses as the code has them, architecture.mdx as
  1, 2 and 4 seconds; durations are not modelled.
* Markup, formatting, static pages, the documentation site, deployment and scripts.
* Two hazards have no property: a job that failed for good leaves its video in
  `processing` (worker.go 204), where no document says what should happen; and the
  remote temporary directories above.

## Noticed

Where the code does what a reader may take for an error, and no document speaks of it,
the models do as the code does.  Some of it bounds what the properties can say.

* *Server.*  A user's Update writes the whole row as it was read (`users.go` 127).  Create
  accepts roles the table's CHECK refuses.  Seeding that stops half way is never resumed, two
  instances seed twice, and the admin's ON CONFLICT (email) may leave none.  The loser of two
  starting instances exits.  Overlapping or broken uploads may leave `avatar_url`
  naming a missing file.  A line of ffmpeg's longer than the scanner's buffer stops the
  reader, and Transcode then waits for its context.  BulkUpdate passes over a setting it
  cannot store and answers 200; digits in quotes lose their type.
* *Presets.*  A cleared number is stored as 0.  `output_format`, `two_pass` and the thumbnail
  switches are read by nothing; NVENC with VP9 encodes H.264.
* *Dialogs.*  A late success closes the dialog of whichever item is open.  Of two
  secrets regenerated at once the one shown last need not be the one stored, and a secret whose
  answer is lost is never shown (`webhooks.go` 242-247).  Save All overwrites what
  other administrators saved meanwhile, and who leaves and comes back may start a second
  save beside the first.  A theme previewed stays after the page is left.
* *Lists.*  Rows are known by their place.  A failed query shows "No data available".
  Deleting the last row of the last page leaves the user on an empty one.  The users'
  order is never sent.
* *Video.*  A title typed for one video stays when the sheet goes on to another, and
  emptying the label after an upload empties what was typed for the next video.
  Polling stops when the jobs are done although the status may follow.  The watch page
  shows a player as soon as the status is `ready`, playlist or not.
* *Players.*  A run that comes back from an import after the cleanup leaves a player; the
  caption menu is cleaned up as soon as it is made (`video-player.tsx` 741).  The embedded
  player ignores quality, preload, resume, speed and airplay, and takes an unset autoplay as
  on where the client takes it as off.
* *Session.*  A retry that fails for another reason than the token signs out
  (`api-client.ts` 99); the query cache outlives a logout.
* *Captcha and links.*  A script that fails leaves the dialog waiting; a second click on the
  trigger leaves an empty container; the password pages' timers go to the sign-in page from
  wherever the user is by then, and nothing in this repository answers their requests.

## What the excuses leave out

Some properties leave out states that the code does reach and no document speaks of; for
these hazards they show that nothing else goes wrong, not that this does not.

* `PlaylistPathHasFile`: a failed Put of the playlist, which is passed over.
* `CompletedHasRenditions`: jobs of one video with the same height.
* `ShownSecretIsStored`: two secrets stored before the first is answered, or a lost answer.
* `AccountsAgree`: sessions into which an answer strayed that was asked for before.
* `NothingLeaks`: components where a run was cut short past its import.
* `Seeded`: starts that failed; and nobody edits the list of presets.
* `RowsHaveFiles`: requests that overlap or break off, until one that does not.
* `PageWasOffered`: pages whose rows were deleted meanwhile.
* `ProfileIsShown`: a refresh that was lost, or whose older answer came last, until the next
  that is sent alone.

## Plan

Every safety property of the passing runs is proved.  What is left widens the model: the
partly modelled components of `PROJECT.json`, first of them the remote backend's temporary
directories and API keys, each with its run before its theorem.
