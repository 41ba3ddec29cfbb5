-------------------------------- MODULE DocsChat --------------------------------
(***************************************************************************)
(* The chat of the documentation site (docs/components/ai/search.tsx) with *)
(* its route (docs/app/api/chat/route.ts).  useChat of the AI SDK keeps    *)
(* the messages and a status for the request made last; its stream writes  *)
(* the answer over the last message if that is the answer begun, else      *)
(* after it.  A question is known by its number.                           *)
(***************************************************************************)
EXTENDS Naturals, Sequences

CONSTANTS
  Texts,      \* what can be typed
  Blank,      \* spaces only
  None,       \* nothing typed
  MaxChanges  \* bound: questions asked

VARIABLES
  db,    \* localStorage: the text typed
  seen,  \* the messages
  ui,    \* the panel: open or not, the text of the input; the status
  net,   \* the streams under way: question -> "submitted" or "streaming"
  told   \* history: questions asked; the chat was cleared under an answer

vars == <<db, seen, ui, net, told>>

Questions == 1..MaxChanges
Inputs == Texts \cup {Blank, None}
Message(role, of) == [role |-> role, of |-> of]
InFlight == {q \in Questions : net[q] # "none"}

\* The input is there while the panel is open, and takes its text from localStorage.
Init ==
  /\ db = None /\ seen = <<>>
  /\ ui = [open |-> FALSE, input |-> None, status |-> "ready"]
  /\ net = [q \in Questions |-> "none"]
  /\ told = [asked |-> 0, cleared |-> FALSE]

----------------------------------------------------------------------------
(* useChat and the route *)

Request(q, messages) ==
  /\ seen' = messages
  /\ net' = [net EXCEPT ![q] = "submitted"]

sendMessage ==
  /\ told.asked < MaxChanges
  /\ Request(told.asked + 1, Append(seen, Message("user", told.asked + 1)))
  /\ told' = [told EXCEPT !.asked = @ + 1]

\* A piece of the answer, the last one perhaps.
Written(q) ==
  IF seen # <<>> /\ seen[Len(seen)] = Message("assistant", q) THEN seen
  ELSE Append(seen, Message("assistant", q))

POST(q) ==
  /\ net[q] # "none"
  /\ seen' = Written(q)
  /\ \E ends \in BOOLEAN :
       /\ net' = [net EXCEPT ![q] = IF ends THEN "none" ELSE "streaming"]
       /\ ui' = [ui EXCEPT !.status = IF ends THEN "ready" ELSE "streaming"]
  /\ UNCHANGED <<db, told>>

Broken(q) ==
  /\ net[q] # "none"
  /\ net' = [net EXCEPT ![q] = "none"]
  /\ ui' = [ui EXCEPT !.status = "error"]
  /\ UNCHANGED <<db, seen, told>>

----------------------------------------------------------------------------
(* AISearchInput *)

\* Mutant: the input waits for the answer to begin no more than the actions below it.
isLoadingOnceItStreams(status) == status = "streaming"
isLoading(status) == status \in {"streaming", "submitted"}

Typed ==
  /\ ui.open /\ ~isLoading(ui.status)
  /\ \E text \in Inputs : ui' = [ui EXCEPT !.input = text] /\ db' = text
  /\ UNCHANGED <<seen, net, told>>

\* Mutant: what is sent stays in localStorage.
clearedInputOnly(text) == db' = text
cleared(text) == db' = None

\* Spaces are not sent, and stay.
onStart ==
  /\ ui.input \notin {None, Blank}
  /\ sendMessage
  /\ ui' = [ui EXCEPT !.input = None, !.status = "submitted"]
  /\ cleared(ui.input)

\* The stream of the request made last is aborted.
stop ==
  LET q == CHOOSE q \in InFlight : \A p \in InFlight : p <= q IN
  /\ InFlight # {}
  /\ net' = [net EXCEPT ![q] = "none"]
  /\ ui' = [ui EXCEPT !.status = "ready"]
  /\ UNCHANGED <<db, seen, told>>

AISearchInput == ui.open /\ IF isLoading(ui.status) THEN stop ELSE onStart

----------------------------------------------------------------------------
(* AISearchInputActions, the panel and its keys *)

\* Retry: the answer goes, its question is asked again.
regenerate ==
  /\ seen # <<>> /\ seen[Len(seen)].role = "assistant" /\ ui.status # "streaming"
  /\ Request(seen[Len(seen)].of, SubSeq(seen, 1, Len(seen) - 1))
  /\ ui' = [ui EXCEPT !.status = "submitted"]
  /\ UNCHANGED <<db, told>>

\* Clear Chat is there whatever the status; it stops no stream.
clearChat ==
  /\ seen # <<>>
  /\ seen' = <<>>
  /\ told' = [told EXCEPT !.cleared = @ \/ InFlight # {}]
  /\ UNCHANGED <<db, ui, net>>

AISearchInputActions == ui.open /\ (regenerate \/ clearChat)

\* The trigger, the panel's cross and its overlay, and the two keys.
setOpen(open) ==
  /\ ui' = [ui EXCEPT !.open = open, !.input = IF open THEN db ELSE None]
  /\ UNCHANGED <<db, seen, net, told>>

AISearchPanelHeader == ui.open /\ setOpen(FALSE)
AISearchTrigger == setOpen(~ui.open)
useHotKey == (ui.open /\ setOpen(FALSE)) \/ (~ui.open /\ setOpen(TRUE))

AISearchPanel == AISearchPanelHeader \/ useHotKey \/ AISearchInput \/ AISearchInputActions

Next ==
  \/ AISearchPanel \/ AISearchTrigger \/ Typed
  \/ \E q \in Questions : POST(q) \/ Broken(q)

Spec == Init /\ [][Next]_vars

----------------------------------------------------------------------------
(* Properties *)

TypeOK ==
  /\ db \in Inputs /\ Len(seen) <= 2 * MaxChanges
  /\ \A i \in DOMAIN seen : seen[i] \in [role: {"user", "assistant"}, of: Questions]
  /\ ui \in [open: BOOLEAN, input: Inputs, status: {"ready", "submitted", "streaming", "error"}]
  /\ net \in [Questions -> {"none", "submitted", "streaming"}]
  /\ told \in [asked: 0..MaxChanges, cleared: BOOLEAN]

\* Unless the chat is cleared under an answer, each answer is right below its question
\* (what is disabled while one is under way).
AnswerBelowQuestion ==
  ~told.cleared =>
    \A i \in DOMAIN seen : seen[i].role = "assistant" =>
      i > 1 /\ seen[i - 1] = Message("user", seen[i].of)

\* What is typed and not sent outlives closing the panel, and what is sent does not
\* come back (localStorage and the input's state).
InputKept == ui.open => ui.input = db

=============================================================================
