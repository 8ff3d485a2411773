-------------------------------- MODULE Site --------------------------------
(***************************************************************************)
(* The parts of the two web sites that keep state between callbacks: the   *)
(* live playground and the navigation bar of apps/landing, and the diagram *)
(* component of apps/docs.  Handlers run to completion; answers, timers    *)
(* and promises come back later, in any order.  The parts share nothing,   *)
(* so a behaviour uses one of them, named by "part".                       *)
(***************************************************************************)
EXTENDS Integers, FiniteSets

CONSTANTS
  Tags,         \* well-formed tags a visitor may type
  BadTags,      \* texts that normalizeTag refuses
  Example,      \* "@devfreeguy", resolved on mount and by the example buttons
  Empty,        \* the empty input
  MaxRequests,  \* bound: calls of resolveTag
  MaxTimers,    \* bound: timers of one kind pending at once
  Groups,       \* the link groups of NAV_LINKS
  MaxCharts,    \* bound: charts one diagram component is given
  None

ASSUME ExampleIsTag == Example \in Tags
ASSUME TextsDiffer == Empty \notin Tags \cup BadTags /\ Tags \cap BadTags = {}
ASSUME NoneIsNoText == None \notin Tags \cup BadTags

VARIABLES
  part,       \* which part of the sites the visitor uses
  query,      \* playground: tagQuery
  ui,         \* playground: loading, error, availableTag, currentIdentity
  requests,   \* playground: the calls of resolveTag so far, in order
  timers,     \* playground: pending setTimeouts, by what they will do
  copied,     \* the copy buttons that show a check mark
  nav,        \* navbar: activeGroup, the popover, the pointer, its timers
  diagram     \* docs: chart, the effect of every chart, innerHTML

playVars == <<query, ui, requests, timers, copied>>
vars == <<part, playVars, nav, diagram>>

CopyButtons == {"address", "link", "snippet"}
NoTimers == [t \in CopyButtons \cup {"example"} |-> 0]

-----------------------------------------------------------------------------
(* LivePlaygroundSection *)

Pending == {i \in DOMAIN requests : requests[i].answer = "none"}

\* resolveTag up to its await.  A request belongs to the busy period that
\* starts when a call is made while no other is pending.
Resolve_KeepsError(text) ==
  IF text = Empty THEN UNCHANGED <<ui, requests>> ELSE
  /\ Cardinality(DOMAIN requests) < MaxRequests
  /\ ui' = [ui EXCEPT !.loading = TRUE, !.available = None]
  /\ LET n == Cardinality(DOMAIN requests) + 1
         first == IF Pending = {} THEN n ELSE requests[n - 1].first
     IN requests' = [i \in 1 .. n |-> IF i < n THEN requests[i]
                                      ELSE [tag |-> text, first |-> first, answer |-> "none"]]
Resolve(text) ==
  IF text = Empty THEN UNCHANGED <<ui, requests>> ELSE
  /\ Cardinality(DOMAIN requests) < MaxRequests
  /\ ui' = [ui EXCEPT !.loading = TRUE, !.error = None, !.available = None]
  /\ LET n == Cardinality(DOMAIN requests) + 1
         first == IF Pending = {} THEN n ELSE requests[n - 1].first
     IN requests' = [i \in 1 .. n |-> IF i < n THEN requests[i]
                                      ELSE [tag |-> text, first |-> first, answer |-> "none"]]

\* resolveTag after its await.  Nothing tells an old answer from a new one:
\* it sets what it has to set and, last, loading.
Shown(tag, answer) ==
  CASE answer = "identity" -> [ui EXCEPT !.loading = FALSE, !.identity = tag]
    [] answer = "notFound" -> [ui EXCEPT !.loading = FALSE, !.identity = None, !.available = tag]
    [] OTHER -> [ui EXCEPT !.loading = FALSE, !.identity = None, !.error = tag]

Settle(i) ==
  /\ i \in Pending
  /\ \E answer \in IF requests[i].tag \in BadTags THEN {"error"}
                   ELSE {"identity", "notFound", "error"} :
       /\ requests' = [requests EXCEPT ![i].answer = answer]
       /\ ui' = Shown(requests[i].tag, answer)
  /\ UNCHANGED <<query, timers, copied>>

Type(text) ==
  /\ text # query
  /\ query' = text
  /\ UNCHANGED <<ui, requests, timers, copied>>

\* The form; a second submit while one is loading is possible.
Submit == Resolve(query) /\ UNCHANGED <<query, timers, copied>>

Arm(t) == /\ timers[t] < MaxTimers
          /\ timers' = [timers EXCEPT ![t] = @ + 1]
Disarm(t) == timers[t] > 0 /\ timers' = [timers EXCEPT ![t] = @ - 1]

\* An example button fills the input at once and resolves 50 ms later.
ClickExample ==
  /\ query' = Example
  /\ Arm("example")
  /\ UNCHANGED <<ui, requests, copied>>
ExampleTimer == Disarm("example") /\ Resolve(Example) /\ UNCHANGED <<query, copied>>

\* What the section shows: an error hides a free tag, which hides a card.
View ==
  IF ui.error # None THEN <<"error", ui.error>>
  ELSE IF ui.available # None THEN <<"notFound", ui.available>>
  ELSE IF ui.identity # None THEN <<"identity", ui.identity>>
  ELSE <<"empty", None>>

\* The copy buttons of the card, and the one of DeveloperExperienceSection,
\* which is disabled while it shows its check mark.  No timer is ever cleared.
CanCopy(b) == IF b = "snippet" THEN b \notin copied ELSE View[1] = "identity"
Copy(b) ==
  /\ CanCopy(b)
  /\ copied' = copied \cup {b}
  /\ Arm(b)
  /\ UNCHANGED <<query, ui, requests>>
CopyTimer(b) == Disarm(b) /\ copied' = copied \ {b} /\ UNCHANGED <<query, ui, requests>>

Playground ==
  /\ part = "playground"
  /\ \/ \E text \in Tags \cup BadTags \cup {Empty} : Type(text)
     \/ Submit \/ ClickExample \/ ExampleTimer
     \/ \E i \in DOMAIN requests : Settle(i)
     \/ \E b \in CopyButtons : Copy(b) \/ CopyTimer(b)
  /\ UNCHANGED <<part, nav, diagram>>

-----------------------------------------------------------------------------
(* Navbar and NavPopover.  nav.closeTimeout says whether the timer the ref  *)
(* holds is pending, nav.lost counts pending timers the ref has forgotten.  *)

Plain == "plain"                          \* a link without a group
Places == Groups \cup {Plain, "popover", "outside"}

\* handleMouseEnter: the pending timer is cleared, also by a plain link.
MouseEnter_GroupsOnly(bar, group) ==
  IF group = None THEN bar
  ELSE [bar EXCEPT !.closeTimeout = FALSE, !.group = group, !.popover = group]
MouseEnter(bar, group) ==
  IF group = None THEN [bar EXCEPT !.closeTimeout = FALSE]
  ELSE [bar EXCEPT !.closeTimeout = FALSE, !.group = group, !.popover = group]

\* handleMouseLeave: the ref takes the new timer, whatever it held.
MouseLeave(bar) ==
  [bar EXCEPT !.closeTimeout = TRUE, !.lost = IF bar.closeTimeout THEN @ + 1 ELSE @]

\* The handlers the pointer meets on its way.  A popover that is fading out
\* still has those of its last render.
Left(bar) == IF bar.pointer = "outside" THEN bar ELSE MouseLeave(bar)
Entered(bar, place) ==
  CASE place = "outside" -> bar
    [] place = Plain -> MouseEnter(bar, None)
    [] place = "popover" -> MouseEnter(bar, bar.popover)
    [] OTHER -> MouseEnter(bar, place)

Move(place) ==
  /\ place # nav.pointer
  /\ place = "popover" => nav.popover # None
  /\ nav.lost < MaxTimers
  /\ nav' = [Entered(Left(nav), place) EXCEPT !.pointer = place]

CloseTimer ==
  /\ \/ nav.closeTimeout /\ nav' = [nav EXCEPT !.closeTimeout = FALSE, !.group = None]
     \/ nav.lost > 0 /\ nav' = [nav EXCEPT !.lost = @ - 1, !.group = None]

\* onClose of an item that opens in a tab of its own.
FollowItem ==
  /\ nav.pointer = "popover" /\ nav.group # None
  /\ nav' = [nav EXCEPT !.group = None]

\* The exit animation ends; a node that is removed under the pointer reports
\* no mouseleave.
ExitEnds ==
  /\ nav.group = None /\ nav.popover # None
  /\ nav' = [nav EXCEPT !.popover = None,
                        !.pointer = IF @ = "popover" THEN "outside" ELSE @]

Navbar ==
  /\ part = "navbar"
  /\ (\E place \in Places : Move(place)) \/ CloseTimer \/ FollowItem \/ ExitEnds
  /\ UNCHANGED <<part, playVars, diagram>>

-----------------------------------------------------------------------------
(* Mermaid of apps/docs: the effect of a chart awaits the import and the    *)
(* rendering, and looks at its own "cancelled" after each.                  *)

\* The page passes another chart: cleanup of the old effect, then the new one.
NewChart ==
  /\ diagram.mounted /\ diagram.chart < MaxCharts
  /\ LET n == diagram.chart + 1 IN
       diagram' = [diagram EXCEPT !.chart = n, !.effects = [v \in 1 .. n |->
         IF v = n THEN [pc |-> "import", cancelled |-> FALSE, wrote |-> FALSE]
         ELSE [diagram.effects[v] EXCEPT !.cancelled = TRUE]]]

Unmount ==
  /\ diagram.mounted
  /\ diagram' = [diagram EXCEPT !.mounted = FALSE, !.shown = 0,
       !.effects = [v \in DOMAIN @ |-> [@[v] EXCEPT !.cancelled = TRUE]]]

Imported(v) ==
  /\ diagram.effects[v].pc = "import"
  /\ diagram' = [diagram EXCEPT !.effects[v].pc =
                   IF diagram.effects[v].cancelled THEN "over" ELSE "render"]

Rendered_NeverLooks(v) ==
  /\ diagram.effects[v].pc = "render"
  /\ diagram' = [diagram EXCEPT !.shown = v, !.effects[v].pc = "over", !.effects[v].wrote = TRUE]
Rendered(v) ==
  /\ diagram.effects[v].pc = "render"
  /\ IF diagram.effects[v].cancelled \/ ~diagram.mounted
     THEN diagram' = [diagram EXCEPT !.effects[v].pc = "over"]
     ELSE diagram' = [diagram EXCEPT !.shown = v, !.effects[v].pc = "over",
                                     !.effects[v].wrote = TRUE]

\* The import or the rendering rejects; nobody catches it.
EffectFails(v) ==
  /\ diagram.effects[v].pc # "over"
  /\ diagram' = [diagram EXCEPT !.effects[v].pc = "over"]

Diagram ==
  /\ part = "diagram"
  /\ \/ NewChart \/ Unmount
     \/ \E v \in DOMAIN diagram.effects : Imported(v) \/ Rendered(v) \/ EffectFails(v)
  /\ UNCHANGED <<part, playVars, nav>>

-----------------------------------------------------------------------------
\* Both pages just after their first effects: the playground has asked for
\* the example, the diagram component has one chart.
Init ==
  /\ part \in {"playground", "navbar", "diagram"}
  /\ query = Example
  /\ ui = [loading |-> TRUE, error |-> None, available |-> None, identity |-> None]
  /\ requests = [i \in {1} |-> [tag |-> Example, first |-> 1, answer |-> "none"]]
  /\ timers = NoTimers
  /\ copied = {}
  /\ nav = [group |-> None, popover |-> None, pointer |-> "outside",
            closeTimeout |-> FALSE, lost |-> 0]
  /\ diagram = [mounted |-> TRUE, chart |-> 1, shown |-> 0, effects |->
       [v \in {1} |-> [pc |-> "import", cancelled |-> FALSE, wrote |-> FALSE]]]

Next == Playground \/ Navbar \/ Diagram

Spec == Init /\ [][Next]_vars

-----------------------------------------------------------------------------
\* Once every call of resolveTag has settled, the spinner is gone and what
\* the playground shows is the answer of one of the calls of the last busy
\* period: never an answer of an earlier one, and its own answer if it was a
\* single call.  A check mark is shown only while a timer that removes it is
\* pending.
PlaygroundSettles ==
  /\ Pending = {} =>
       LET n == Cardinality(DOMAIN requests) IN
         /\ ~ui.loading
         /\ View \in {<<requests[i].answer, requests[i].tag>> : i \in requests[n].first .. n}
  /\ \A b \in copied : timers[b] > 0

\* The menu does not close under the pointer, and does not stay open without
\* it: no timer is pending while the pointer is on a link or the popover, also
\* while it crosses plain links or a popover that is fading out, and one is
\* pending when the pointer has left an open menu.
MenuFollowsPointer ==
  /\ nav.pointer # "outside" => ~nav.closeTimeout /\ nav.lost = 0
  /\ nav.group # None /\ nav.pointer = "outside" => nav.closeTimeout

\* While the component is mounted, a diagram whose rendering has finished is
\* not replaced by that of an older chart which was slower.  Once it is
\* unmounted (shown is reset to 0 with it), no rendering that was still under
\* way draws any more.
DiagramIsNewest ==
  /\ diagram.effects[diagram.chart].wrote /\ diagram.mounted => diagram.shown = diagram.chart
  /\ \A v \in DOMAIN diagram.effects : diagram.effects[v].wrote /\ diagram.mounted => v <= diagram.shown
  /\ ~diagram.mounted => diagram.shown = 0
=============================================================================
