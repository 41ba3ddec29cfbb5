------------------------------ MODULE LandingPage ------------------------------
(***************************************************************************)
(* The landing page's moving parts (web/components/landing): the header    *)
(* that marks the section on screen, the steps of "How it works" that      *)
(* follow one another by timers, and the words of the hero that rotate     *)
(* (components/ui/word-rotate.tsx).  A tick is a fraction of a step's      *)
(* time; a scroll position is in units of 50 pixels.                       *)
(***************************************************************************)
EXTENDS Integers

CONSTANTS stepDuration  \* ticks a step is shown for

VARIABLES
  db,    \* the header: scroll position, its state, what its listener knows
  seen,  \* the rotating word: its state, and whether its timers are set
  ui,    \* the steps: the active one and the bar
  net,   \* the ticks left of the timers that advance the steps
  told   \* history: ticks the active step has been shown; a late listener was met

vars == <<db, seen, ui, net, told>>

Init ==
  /\ db = [y |-> 0, isScrolled |-> FALSE, active |-> "home", listener |-> "home", isOpen |-> FALSE]
  /\ seen = [inView |-> FALSE, interval |-> FALSE, timeout |-> FALSE, show |-> TRUE, currentWord |-> 0]
  /\ ui = [activeStep |-> 0, progress |-> 0]
  /\ net = {stepDuration}
  /\ told = [shown |-> 0, late |-> FALSE]

----------------------------------------------------------------------------
(* Header.  Here the hero has six units, and each section with an id two;   *)
(* no element has the id "how-it-works".                                    *)

navItems == {"home", "features", "faq", "contact"}
offsetTop == [features |-> 6, faq |-> 10, contact |-> 12]
offsetHeight == 2
Top == 0..9  \* positions the page can be scrolled to

\* Mutant: a section begins after its first pixel.
sectionsAtLate(y) ==
  {s \in DOMAIN offsetTop : y + 4 > offsetTop[s] /\ y + 4 < offsetTop[s] + offsetHeight}
sectionsAt(y) ==
  {s \in DOMAIN offsetTop : y + 4 >= offsetTop[s] /\ y + 4 < offsetTop[s] + offsetHeight}

\* Near the top it is home; between sections the last one stays.  The listener sees
\* the active section of the render whose effect ran last.
Section(y) ==
  IF y < 1 THEN {"home"} ELSE {s \in sectionsAt(y) : s # db.listener}

handleScroll ==
  /\ \E y \in Top \ {db.y} :
       /\ db' = [db EXCEPT !.y = y, !.isScrolled = y > 1,
                           !.active = IF Section(y) = {} THEN @ ELSE CHOOSE s \in Section(y) : TRUE]
       /\ told' = [told EXCEPT !.late = db.listener # db.active]
  /\ UNCHANGED <<seen, ui, net>>

\* React runs the effect again: the listener of the present render is added.
Effect ==
  /\ db.listener # db.active
  /\ db' = [db EXCEPT !.listener = db.active]
  /\ UNCHANGED <<seen, ui, net, told>>

isActiveItem(item) == db.active = item

\* The drawer closes, and the page scrolls to the section.
handleNavClick(item) ==
  /\ ~isActiveItem(item) \/ db.isOpen
  /\ db' = [db EXCEPT !.isOpen = FALSE]

\* The items of the bar or of the drawer; the button of the theme is module
\* ThemePreview's.
Header ==
  /\ \/ \E item \in navItems : handleNavClick(item)
     \/ db' = [db EXCEPT !.isOpen = ~@]
  /\ UNCHANGED <<seen, ui, net, told>>

----------------------------------------------------------------------------
(* HowItWorks.  isPaused is never set: the time-out of a click changes nothing. *)

Steps == 0..3

\* Mutant: the effect's cleanup leaves its time-out.
ShowsWithTheOld(step, timers) ==
  /\ ui' = [activeStep |-> step, progress |-> 0]
  /\ net' = timers \cup {stepDuration}
Shows(step, timers) ==
  /\ ui' = [activeStep |-> step, progress |-> 0]
  /\ net' = {stepDuration}

\* The effect runs again only for another step.
handleStepClick(index) ==
  /\ IF index = ui.activeStep THEN UNCHANGED <<ui, net, told>>
     ELSE Shows(index, net) /\ told' = [told EXCEPT !.shown = 0]
  /\ UNCHANGED <<db, seen>>

\* Time passes until a time-out is due.
progressInterval ==
  /\ 0 \notin net
  /\ ui' = [ui EXCEPT !.progress = IF @ >= stepDuration THEN @ ELSE @ + 1]
  /\ net' = {t - 1 : t \in net}
  /\ told' = [told EXCEPT !.shown = @ + 1]
  /\ UNCHANGED <<db, seen>>

stepTimeout ==
  /\ 0 \in net
  /\ Shows((ui.activeStep + 1) % 4, net \ {0})
  /\ told' = [told EXCEPT !.shown = 0]
  /\ UNCHANGED <<db, seen>>

HowItWorks == \E index \in Steps : handleStepClick(index)

----------------------------------------------------------------------------
(* WordRotate, of the hero: two words, for ever, while in view *)

words == 2

\* Mutant: the cleanup clears the inner time-out too.
ClearedAll(word) == [word EXCEPT !.interval = FALSE, !.timeout = FALSE]
Cleared(word) == [word EXCEPT !.interval = FALSE]

shouldStart ==
  /\ seen' = IF seen.inView THEN [Cleared(seen) EXCEPT !.inView = FALSE]
             ELSE [seen EXCEPT !.inView = TRUE, !.interval = TRUE]
  /\ UNCHANGED <<db, ui, net, told>>

\* The interval is longer than the pause.
Interval ==
  /\ seen.interval
  /\ ~seen.timeout
  /\ seen' = [seen EXCEPT !.show = FALSE, !.timeout = TRUE]
  /\ UNCHANGED <<db, ui, net, told>>

Timeout ==
  /\ seen.timeout
  /\ seen' = [seen EXCEPT !.show = TRUE, !.timeout = FALSE, !.currentWord = (@ + 1) % words]
  /\ UNCHANGED <<db, ui, net, told>>

WordRotate == shouldStart \/ Interval \/ Timeout

----------------------------------------------------------------------------
Next ==
  \/ handleScroll \/ Effect \/ Header
  \/ HowItWorks \/ progressInterval \/ stepTimeout
  \/ WordRotate

Spec == Init /\ [][Next]_vars

(* Properties *)

TypeOK ==
  /\ db \in [y: Top, isScrolled: BOOLEAN, active: navItems, listener: navItems, isOpen: BOOLEAN]
  /\ seen \in [inView: BOOLEAN, interval: BOOLEAN, timeout: BOOLEAN, show: BOOLEAN, currentWord: 0..1]
  /\ ui \in [activeStep: Steps, progress: 0..stepDuration]
  /\ net \subseteq 0..stepDuration
  /\ told \in [shown: 0..stepDuration, late: BOOLEAN]

\* The item marked is that of the section 200 pixels below the top, where there is one,
\* unless the last scroll event came before React had renewed the listener.
SectionMarked ==
  ~told.late /\ db.y >= 1 =>
    \A s \in DOMAIN offsetTop : db.y + 4 - offsetTop[s] \in 0..offsetHeight - 1 => db.active = s

\* However the user clicks, a step gives way to the next one by itself only after its
\* whole time, its bar full.
StepHasItsTime == 0 \in net => told.shown = stepDuration /\ ui.progress = stepDuration

\* The word never stays hidden, in view or not.
WordComesBack == ~seen.show => seen.timeout

=============================================================================
