------------------------------ MODULE AnalyticsPage ------------------------------
(***************************************************************************)
(* The analytics page (web/app/(protected)/analytics/page.tsx): one period *)
(* selected for four queries (web/services/analytics.ts), each cached      *)
(* under its key, and what the page makes of the answers                   *)
(* (internal/handler/analytics.go).  Nothing under src/ writes the rows of *)
(* video_analytics; other programs insert them.                            *)
(***************************************************************************)
EXTENDS Integers, FiniteSets, Sequences

CONSTANTS
  Ids,      \* videos
  None,     \* no data
  Ages,     \* bound: ages of the rows; an age is the least period the row is in
  Periods,  \* bound: those of the page's periods (7, 30 and 90 days) that are looked at
  MaxRows   \* bound: rows of video_analytics

VARIABLES
  db,    \* the rows of video_analytics, as inserted
  seen,  \* key -> the cached answer, or None
  ui,    \* the selected period
  net,   \* keys being asked for the first time
  told   \* bound: the query that is looked at beside the overview; no two others meet

vars == <<db, seen, ui, net, told>>

Panels == {"traffic", "top-videos", "device-types"}
Queries == {"overview"} \cup Panels

Row == [event: {"view", "progress"}, days: Ages, video: Ids]

----------------------------------------------------------------------------
(* The handlers: every answer is computed from the rows so far *)

Within(rows, period) == {i \in DOMAIN rows : rows[i].days <= period}
Views(rows, period) == {i \in Within(rows, period) : rows[i].event = "view"}

\* Every row counts for the bandwidth, only views count as such.
Overview(rows, period) ==
  [total_views |-> Cardinality(Views(rows, period)),
   total_bandwidth |-> Cardinality(Within(rows, period))]

\* One entry a day, here one for each age.
TrafficSeries(rows, period) ==
  [d \in {rows[i].days : i \in Views(rows, period)} |->
     [views |-> Cardinality({i \in Views(rows, period) : rows[i].days = d}),
      bandwidth |-> Cardinality({i \in Views(rows, period) : rows[i].days = d})]]

\* The limit, 10, is more than there are videos here.
TopVideos(rows, period) ==
  [v \in {rows[i].video : i \in Views(rows, period)} |->
     Cardinality({i \in Views(rows, period) : rows[i].video = v})]

DeviceTypes(rows, period) == [Unknown |-> Cardinality(Views(rows, period))]

----------------------------------------------------------------------------
(* The hooks: an answer is kept under its key as what the server said of the *)
(* rows it had, for the period it was asked about                          *)

\* Mutant: the traffic's key has no period.
KeyWithoutPeriod(q, period) == <<q, IF q = "traffic" THEN 30 ELSE period>>
Key(q, period) == <<q, period>>

Keys == Queries \X Periods
Answer == [rows: 0..MaxRows, of: Periods]

\* On a period first looked at its queries run.
Asked(period) == {k \in {Key(q, period) : q \in {"overview", told}} : seen[k] = None}

Init ==
  /\ db = <<>> /\ ui = 30 /\ told \in Panels
  /\ seen = [k \in Keys |-> None]
  /\ net = {Key(q, 30) : q \in {"overview", told}}

\* An answer, to the first request or to one when the window gets the focus.
Arrives(q) ==
  /\ seen' = [seen EXCEPT ![Key(q, ui)] = [rows |-> Len(db), of |-> ui]]
  /\ net' = net \ {Key(q, ui)}
  /\ UNCHANGED <<db, ui, told>>

\* None: the request and its retries have failed.
Fails(q) ==
  /\ Key(q, ui) \in net
  /\ net' = net \ {Key(q, ui)}
  /\ UNCHANGED <<db, seen, ui, told>>

\* What was asked for another period ends under the key of that one.
EndsLate(q, period) ==
  /\ Key(q, period) \in net /\ period # ui
  /\ \/ seen' = [seen EXCEPT ![Key(q, period)] = [rows |-> Len(db), of |-> period]]
     \/ UNCHANGED seen
  /\ net' = net \ {Key(q, period)}
  /\ UNCHANGED <<db, ui, told>>

Inserted ==
  /\ Len(db) < MaxRows
  /\ \E row \in Row : db' = Append(db, row)
  /\ UNCHANGED <<seen, ui, net, told>>

----------------------------------------------------------------------------
(* The page *)

Data(q) == seen[Key(q, ui)]
Loading(q) == Key(q, ui) \in net
Rows(q) == SubSeq(db, 1, Data(q).rows)

overview == Overview(Rows("overview"), Data("overview").of)

\* The series, of its views or its bandwidth.
chartData(showBandwidth) ==
  LET series == TrafficSeries(Rows("traffic"), Data("traffic").of) IN
  [d \in DOMAIN series |-> IF showBandwidth THEN series[d].bandwidth ELSE series[d].views]

deviceChartData == DeviceTypes(Rows("device-types"), Data("device-types").of)

\* What each panel shows: a skeleton, "-" without data, or its numbers.
StatCards == IF Loading("overview") \/ Data("overview") = None THEN None ELSE overview.total_views
Highlights == IF Data("overview") = None THEN None ELSE overview.total_bandwidth
TopVideosTable ==
  IF Data("top-videos") = None THEN None ELSE TopVideos(Rows("top-videos"), Data("top-videos").of)
DeviceTypePie ==
  IF Loading("device-types") \/ Data("device-types") = None THEN None ELSE deviceChartData

\* The chart, with the switch and the selection above it.
TrafficChart(showBandwidth) ==
  IF Loading("traffic") \/ Data("traffic") = None THEN None ELSE chartData(showBandwidth)
setPeriod ==
  /\ ui' \in Periods \ {ui}
  /\ net' = net \cup Asked(ui')
  /\ UNCHANGED <<db, seen, told>>

Next ==
  \/ setPeriod \/ Inserted
  \/ \E q \in {"overview", told} : Arrives(q) \/ Fails(q)
  \/ \E q \in {"overview", told}, period \in Periods : EndsLate(q, period)

Spec == Init /\ [][Next]_vars

----------------------------------------------------------------------------
(* Properties *)

TypeOK ==
  /\ db \in Seq(Row) /\ Len(db) <= MaxRows
  /\ ui \in Periods /\ net \subseteq Keys /\ told \in Panels
  /\ seen \in [Keys -> Answer \cup {None}]

Total(f) ==
  LET sum[S \in SUBSET DOMAIN f] ==
        IF S = {} THEN 0 ELSE LET x == CHOOSE x \in S : TRUE IN f[x] + sum[S \ {x}]
  IN sum[DOMAIN f]
SameRows(q) == Data(q) # None /\ Data(q).rows = Data("overview").rows

\* Panels that show the state of the same rows agree: the chart and the devices add
\* up to the views on the card, the videos' too, and the chart's bandwidth is no more
\* than the total (period in every key).
PanelsAgree ==
  StatCards # None =>
    /\ SameRows("traffic") /\ TrafficChart(FALSE) # None =>
         /\ Total(TrafficChart(FALSE)) = StatCards
         /\ Total(TrafficChart(TRUE)) <= Highlights
    /\ SameRows("device-types") /\ DeviceTypePie # None => Total(DeviceTypePie) = StatCards
    /\ SameRows("top-videos") => Total(TopVideosTable) = StatCards

=============================================================================
