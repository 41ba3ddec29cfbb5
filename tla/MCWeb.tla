-------------------------------- MODULE MCWeb --------------------------------
(***************************************************************************)
(* Instance of the client's session, its cached queries and the view of    *)
(* one video for TLC, each on its own: the part chosen at the start moves, *)
(* the other two stay as they start, where their fairness asks nothing.    *)
(***************************************************************************)
EXTENDS WebSession

CONSTANTS OneSlot, MaxVersion, Videos
VARIABLES
  part,                                               \* which of the three it is
  effects, version, mounted, entry, fetch, open, owed,  \* those of the queries
  db, seen, ui, net                                   \* those of the video

queryVars == <<effects, version, mounted, entry, fetch, open, owed>>
videoVars == <<db, seen, ui, net>>
webVars == <<part, vars, queryVars, videoVars>>

Queries == INSTANCE WebQueries
Detail == INSTANCE VideoDetail WITH Slots <- OneSlot

\* Nothing is looked at.
QueriesRest == Queries!Init /\ effects = Queries!EffectsOn(Queries!usePresets)
VideoRests == Detail!Init /\ ui.where = "sheet" /\ \A v \in Videos : db[v].jobs = "ended"

WebInit ==
  /\ Init
  /\ \/ part = "session" /\ QueriesRest /\ VideoRests
     \/ part = "queries" /\ Queries!Init /\ VideoRests
     \/ part = "video" /\ QueriesRest /\ Detail!Init

WebNext ==
  /\ \/ part = "session" /\ Next /\ UNCHANGED <<queryVars, videoVars>>
     \/ part = "queries" /\ Queries!Next /\ UNCHANGED <<vars, videoVars>>
     \/ part = "video" /\ Detail!Next /\ UNCHANGED <<vars, queryVars>>
  /\ UNCHANGED part

WebSpec ==
  WebInit /\ [][WebNext]_webVars /\ Fairness /\ Queries!Fairness /\ Detail!Fairness

----------------------------------------------------------------------------
(* Properties: those of the session, and *)

\* A page that shows data shows what the user changed (each hook of web/services
\* invalidates every key its change is read under, KnownGaps apart).
ReadYourWrites == Queries!ReadYourWrites

\* A page that stays comes to show the change, and the sheet and the page stop showing
\* jobs as active that have ended.
ChangesAreShown == Queries!ChangeIsShown /\ Detail!JobsEndShown

\* Calls that wait for a refresh go on, and the page stops loading.
SessionGoesOn == WaitersResume /\ LoadingEnds

=============================================================================
