------------------------------ MODULE CaptionMenu ------------------------------
(***************************************************************************)
(* The options of the captions (web/components/video-player.tsx): the      *)
(* pages that injectCaptionOptionsMenu adds to Shaka's menu, from when it  *)
(* is called until its caller cleans up (VideoPlayer says when), and the   *)
(* style of the captions.                                                  *)
(* Options live in three places: the ref that callbacks read, the React    *)
(* state and localStorage.                                                 *)
(***************************************************************************)
CONSTANTS
  OptionKeys,  \* the options, such as the color of the font
  Choices,     \* what each may be
  Default,     \* the choice each starts with
  Lines        \* bound: captions on the screen at once

VARIABLES
  opts,    \* captionOptsRef, the state (captionOpts) and what is stored
  menu,    \* the page on display, what it was rendered with, the link to it
  lines,   \* captions on the screen: Raw, Styled, or NoLine
  due,     \* what the browser and React have still to run
  chosen   \* history: what the user chose last for each option

vars == <<opts, menu, lines, due, chosen>>

Options == [OptionKeys -> Choices]
DEFAULT_CAPTION_OPTS == [k \in OptionKeys |-> Default]
NoLine == [there |-> FALSE, styled |-> FALSE, style |-> DEFAULT_CAPTION_OPTS]
Raw == [NoLine EXCEPT !.there = TRUE]
Styled(line, o) == IF line.there THEN [there |-> TRUE, styled |-> TRUE, style |-> o] ELSE line
Pages == {"player", "captions", "main"} \cup OptionKeys

\* What is stored, over the defaults.
loadCaptionOptions(o) == [ref |-> o, state |-> o, stored |-> o]

\* The pages are added, hidden, and the link.
doInject(o) == [there |-> TRUE, page |-> "player", shows |-> o, link |-> TRUE]

Init ==
  /\ \E o \in Options : opts = loadCaptionOptions(o) /\ menu = doInject(o)
  /\ lines = [l \in Lines |-> NoLine]
  /\ due = [observers |-> FALSE, effect |-> TRUE]
  /\ chosen = opts.ref

----------------------------------------------------------------------------
(* The options change *)

\* The ref at once, the state with the next render; storing may fail.
handleCaptionChange(next) ==
  /\ \E kept \in BOOLEAN :
       opts' = [ref |-> next, state |-> next, stored |-> IF kept THEN next ELSE opts.stored]
  /\ due' = [due EXCEPT !.effect = TRUE]

----------------------------------------------------------------------------
(* The pages *)

showMainPage == [menu EXCEPT !.page = "main", !.shows = opts.ref]
renderDetailPage(k, o) == [menu EXCEPT !.page = k, !.shows = o]
goBackToCaptions == [menu EXCEPT !.page = "captions"]

\* Shaka opens or closes its own menu of captions.
OpenCaptions ==
  /\ menu.page \in {"player", "captions"}
  /\ menu' = [menu EXCEPT !.page = IF @ = "player" THEN "captions" ELSE "player"]
  /\ UNCHANGED <<opts, lines, due, chosen>>

\* Shaka builds that menu again, without the link.
Rebuilt ==
  /\ menu' = [menu EXCEPT !.link = FALSE]
  /\ due' = [due EXCEPT !.observers = TRUE]
  /\ UNCHANGED <<opts, lines, chosen>>

\* The link leads to the main page, its rows to a page each, their headers back.
Navigate ==
  /\ menu.there
  /\ \/ menu.page = "captions" /\ menu.link /\ menu' = showMainPage
     \/ menu.page = "main" /\ \E k \in OptionKeys : menu' = renderDetailPage(k, opts.ref)
     \/ menu.page = "main" /\ menu' = goBackToCaptions
     \/ menu.page \in OptionKeys /\ menu' = showMainPage
  /\ UNCHANGED <<opts, lines, due, chosen>>

\* Mutant: the row sets the options its page was rendered with.
ChooseFromPage(choice) ==
  /\ handleCaptionChange([menu.shows EXCEPT ![menu.page] = choice])
  /\ menu' = renderDetailPage(menu.page, menu.shows)
  /\ chosen' = [chosen EXCEPT ![menu.page] = choice]

\* The row of a choice: the options as they are now, but for this one.
Choose(choice) ==
  /\ handleCaptionChange([opts.ref EXCEPT ![menu.page] = choice])
  /\ menu' = renderDetailPage(menu.page, opts'.ref)
  /\ chosen' = [chosen EXCEPT ![menu.page] = choice]

\* Reset to defaults.
Reset ==
  /\ handleCaptionChange(DEFAULT_CAPTION_OPTS)
  /\ menu' = [menu EXCEPT !.shows = opts'.ref]
  /\ chosen' = DEFAULT_CAPTION_OPTS

Press ==
  /\ menu.there
  /\ \/ menu.page \in OptionKeys /\ \E choice \in Choices : Choose(choice)
     \/ menu.page = "main" /\ Reset
  /\ UNCHANGED lines

\* The caller cleans up: the pages, the link and the observer are gone.
CleanUp ==
  /\ menu' = [menu EXCEPT !.there = FALSE, !.link = FALSE,
                          !.page = IF @ \in {"player", "captions"} THEN @ ELSE "player"]
  /\ UNCHANGED <<opts, lines, due, chosen>>

----------------------------------------------------------------------------
(* The captions *)

\* Mutant: what is styled already is left alone.
applyStylesToNewLines ==
  [l \in Lines |-> IF lines[l].styled THEN lines[l] ELSE Styled(lines[l], opts.ref)]

applyStylesToTextContainer == [l \in Lines |-> Styled(lines[l], opts.ref)]

\* Shaka shows a caption, in its own style, or takes one away.
Cue ==
  /\ \E l \in Lines : lines' = [lines EXCEPT ![l] = IF @ = NoLine THEN Raw ELSE NoLine]
  /\ due' = [due EXCEPT !.observers = TRUE]
  /\ UNCHANGED <<opts, menu, chosen>>

ensureOptionsLink == [menu EXCEPT !.link = menu.there]

\* The observers see that the page has changed: the captions are styled, and the link
\* is put where it is missing.
Observed ==
  /\ due.observers
  /\ lines' = applyStylesToTextContainer
  /\ menu' = ensureOptionsLink
  /\ due' = [due EXCEPT !.observers = FALSE]
  /\ UNCHANGED <<opts, chosen>>

\* The effect that the changed options run again.
Effect ==
  /\ due.effect
  /\ lines' = applyStylesToTextContainer
  /\ due' = [due EXCEPT !.effect = FALSE]
  /\ UNCHANGED <<opts, menu, chosen>>

Next == OpenCaptions \/ Rebuilt \/ Navigate \/ Press \/ CleanUp \/ Cue \/ Observed \/ Effect

Spec == Init /\ [][Next]_vars

----------------------------------------------------------------------------
(* Properties *)

TypeOK ==
  /\ opts \in [ref: Options, state: Options, stored: Options]
  /\ menu \in [there: BOOLEAN, page: Pages, shows: Options, link: BOOLEAN]
  /\ lines \in [Lines -> [there: BOOLEAN, styled: BOOLEAN, style: Options]]
  /\ due \in [observers: BOOLEAN, effect: BOOLEAN] /\ chosen \in Options

\* No choice undoes another, made on the same page or on any other, and the page on
\* display marks what is chosen.
ChoicesKept ==
  /\ opts.ref = chosen /\ opts.state = chosen
  /\ menu.page \in OptionKeys \cup {"main"} => menu.shows = chosen

\* When the browser has run what is due, every caption on the screen has the style
\* that was chosen, those that came since the choice too.
CaptionsStyled ==
  due = [observers |-> FALSE, effect |-> FALSE] => \A l \in Lines : lines[l] = Styled(lines[l], chosen)

=============================================================================
