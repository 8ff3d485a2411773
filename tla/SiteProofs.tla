----------------------------- MODULE SiteProofs -----------------------------
(***************************************************************************)
(* The interactive parts of the sites, for any texts, groups and charts,   *)
(* and any number of calls and timers.                                     *)
(***************************************************************************)
EXTENDS Site, FiniteSetTheorems, TLAPS

-----------------------------------------------------------------------------
(* The playground.                                                         *)

Text == Tags \cup BadTags
Verdict == {"identity", "notFound", "error"}
Last == Cardinality(DOMAIN requests)
IsCalls(n) == requests \in [1 .. n -> [tag : Text, first : 1 .. n, answer : Verdict \cup {"none"}]]

PlayTypeOK ==
  /\ query \in Text \cup {Empty}
  /\ ui \in [loading : BOOLEAN, error : Text \cup {None}, available : Text \cup {None},
             identity : Text \cup {None}]
  /\ timers \in [CopyButtons \cup {"example"} -> Nat]
  /\ copied \subseteq CopyButtons
  /\ \E n \in Nat \ {0} : IsCalls(n)

\* The calls of the busy period that is on, or was the last one.
Period(n) == requests[n].first .. n

\* An error or a free tag on display is the answer of a call of this busy
\* period, and so is whatever is on display once they have all settled.
ShowsOwn(n) ==
  /\ Pending \subseteq Period(n)
  /\ ui.error # None =>
       \E i \in Period(n) : requests[i].answer = "error" /\ requests[i].tag = ui.error
  /\ ui.available # None =>
       \E i \in Period(n) : requests[i].answer = "notFound" /\ requests[i].tag = ui.available
  /\ Pending = {} =>
       /\ ~ui.loading
       /\ View \in {<<requests[i].answer, requests[i].tag>> : i \in Period(n)}

CopiedIsTimed == \A b \in copied : timers[b] > 0

PlayInv == PlayTypeOK /\ ShowsOwn(Last) /\ CopiedIsTimed

LEMMA LastIsLast ==
  ASSUME NEW n \in Nat, IsCalls(n)
  PROVE  Last = n /\ DOMAIN requests = 1 .. n
<1>1. DOMAIN requests = 1 .. n
  BY DEF IsCalls
<1>2. Cardinality(1 .. n) = n
  BY FS_Interval
<1>3. QED
  BY <1>1, <1>2 DEF Last

\* A call up to its await.
LEMMA ResolveShowsOwn ==
  ASSUME PlayInv, NEW text \in Text, Resolve(text)
  PROVE  (\E n \in Nat \ {0} : IsCalls(n))' /\ ShowsOwn(Last)' /\
         ui' \in [loading : BOOLEAN, error : Text \cup {None}, available : Text \cup {None},
                  identity : Text \cup {None}]
<1>1. PICK n \in Nat \ {0} : IsCalls(n)
  BY DEF PlayInv, PlayTypeOK
<1>2. Last = n /\ DOMAIN requests = 1 .. n
  BY <1>1, LastIsLast
<1> DEFINE first == IF Pending = {} THEN n + 1 ELSE requests[n].first
<1>3. text # Empty
  BY TextsDiffer DEF Text
<1>4. /\ ui' = [ui EXCEPT !.loading = TRUE, !.error = None, !.available = None]
      /\ requests' = [i \in 1 .. n + 1 |-> IF i < n + 1 THEN requests[i]
                        ELSE [tag |-> text, first |-> first, answer |-> "none"]]
  BY <1>2, <1>3 DEF Resolve, Last
<1>5. first \in 1 .. n + 1
  BY <1>1 DEF IsCalls
<1>6. IsCalls(n + 1)'
  BY <1>1, <1>4, <1>5 DEF IsCalls
<1>7. Last' = n + 1 /\ DOMAIN requests' = 1 .. n + 1
  <2>1. Cardinality(1 .. n + 1) = n + 1
    BY <1>1, FS_Interval
  <2>2. QED
    BY <1>4, <2>1 DEF Last
<1>8. Pending' = Pending \cup {n + 1} /\ requests'[n + 1].first = first
  BY <1>2, <1>4, <1>7 DEF Pending
<1>9. Pending \cup {n + 1} \subseteq first .. n + 1
  <2>1. Pending \subseteq Period(n)
    BY <1>2 DEF PlayInv, ShowsOwn
  <2>2. Pending # {} => Pending \subseteq first .. n
    BY <2>1 DEF Period
  <2>3. QED
    BY <1>5, <2>2
<1>10. ShowsOwn(n + 1)'
  <2>1. ui'.error = None /\ ui'.available = None
    BY <1>4 DEF PlayInv, PlayTypeOK
  <2>2. Pending' # {} /\ Pending' \subseteq Period(n + 1)'
    BY <1>8, <1>9 DEF Period
  <2>3. QED
    BY <2>1, <2>2 DEF ShowsOwn
<1>11. ShowsOwn(Last)'
  BY <1>7, <1>10
<1>12. n + 1 \in Nat \ {0}
  OBVIOUS
<1>13. QED
  BY <1>4, <1>6, <1>11, <1>12 DEF PlayInv, PlayTypeOK

\* A call after its await.
LEMMA SettleShowsOwn ==
  ASSUME PlayInv, NEW i, Settle(i)
  PROVE  (\E n \in Nat \ {0} : IsCalls(n))' /\ ShowsOwn(Last)' /\
         ui' \in [loading : BOOLEAN, error : Text \cup {None}, available : Text \cup {None},
                  identity : Text \cup {None}]
<1>1. PICK n \in Nat \ {0} : IsCalls(n)
  BY DEF PlayInv, PlayTypeOK
<1>2. Last = n /\ DOMAIN requests = 1 .. n
  BY <1>1, LastIsLast
<1> DEFINE tag == requests[i].tag
<1>3. PICK answer \in Verdict : /\ requests' = [requests EXCEPT ![i].answer = answer]
                                /\ ui' = Shown(tag, answer)
  BY DEF Settle, Verdict
<1>4. i \in 1 .. n /\ tag \in Text /\ requests[i].answer = "none" /\ i \in Period(n)
  BY <1>1, <1>2 DEF Settle, Pending, IsCalls, PlayInv, ShowsOwn
<1>5. IsCalls(n)'
  BY <1>1, <1>3, <1>4 DEF IsCalls
<1>6. /\ \A j \in 1 .. n : /\ requests'[j].tag = requests[j].tag
                           /\ requests'[j].first = requests[j].first
                           /\ requests'[j].answer = IF j = i THEN answer ELSE requests[j].answer
      /\ DOMAIN requests' = 1 .. n
  BY <1>1, <1>2, <1>3, <1>4 DEF IsCalls
<1>7. Period(n)' = Period(n) /\ Period(n) \subseteq 1 .. n
  BY <1>1, <1>6 DEF Period, IsCalls
<1>8. Pending' \subseteq Pending
  BY <1>2, <1>6, <1>4 DEF Pending, Verdict
<1>9. tag # None
  BY <1>4, NoneIsNoText DEF Text
<1>10. ui' \in [loading : BOOLEAN, error : Text \cup {None}, available : Text \cup {None},
                identity : Text \cup {None}]
  BY <1>3, <1>4 DEF Shown, PlayInv, PlayTypeOK, Verdict
<1>11. /\ ~ui'.loading
       /\ ui'.error = IF answer = "error" THEN tag ELSE ui.error
       /\ ui'.available = IF answer = "notFound" THEN tag ELSE ui.available
       /\ ui'.identity = IF answer = "identity" THEN tag ELSE None
  BY <1>3 DEF Shown, PlayInv, PlayTypeOK, Verdict
<1>12. ui'.error # None =>
         \E j \in Period(n) : requests'[j].answer = "error" /\ requests'[j].tag = ui'.error
  BY <1>2, <1>4, <1>6, <1>7, <1>11 DEF PlayInv, ShowsOwn
<1>13. ui'.available # None =>
         \E j \in Period(n) : requests'[j].answer = "notFound" /\ requests'[j].tag = ui'.available
  BY <1>2, <1>4, <1>6, <1>7, <1>11 DEF PlayInv, ShowsOwn
<1>14. View' \in {<<requests'[j].answer, requests'[j].tag>> : j \in Period(n)}
  <2>1. CASE ui'.error # None
    BY <2>1, <1>12 DEF View
  <2>2. CASE ui'.error = None /\ ui'.available # None
    BY <2>2, <1>13 DEF View
  <2>3. CASE ui'.error = None /\ ui'.available = None
    <3>1. answer = "identity"
      BY <2>3, <1>9, <1>11 DEF Verdict
    <3>2. View' = <<"identity", tag>>
      BY <2>3, <3>1, <1>9, <1>11 DEF View
    <3>3. requests'[i].answer = "identity" /\ requests'[i].tag = tag
      BY <3>1, <1>4, <1>6
    <3>4. QED
      BY <3>2, <3>3, <1>4
  <2>4. QED
    BY <2>1, <2>2, <2>3
<1>15. ShowsOwn(n)'
  BY <1>2, <1>7, <1>8, <1>11, <1>12, <1>13, <1>14 DEF ShowsOwn, PlayInv
<1>16. Last' = n
  BY <1>2, <1>6 DEF Last
<1>17. QED
  BY <1>1, <1>5, <1>10, <1>15, <1>16

\* Only resolveTag and its answers touch the calls and what is shown.
LEMMA SameCalls ==
  ASSUME PlayInv, UNCHANGED <<ui, requests>>
  PROVE  (\E n \in Nat \ {0} : IsCalls(n))' /\ ShowsOwn(Last)'
<1>1. PICK n \in Nat \ {0} : IsCalls(n)
  BY DEF PlayInv, PlayTypeOK
<1>2. IsCalls(n)'
  BY <1>1 DEF IsCalls
<1>3. ShowsOwn(Last)'
  BY DEF PlayInv, ShowsOwn, Last, Period, Pending, View
<1>4. QED
  BY <1>1, <1>2, <1>3

LEMMA PlayInvHolds == Init => PlayInv
<1> SUFFICES ASSUME Init PROVE PlayInv
  OBVIOUS
<1>1. Example \in Text
  BY ExampleIsTag DEF Text
<1>2. IsCalls(1)
  BY <1>1 DEF Init, IsCalls
<1>3. PlayTypeOK
  <2>1. timers \in [CopyButtons \cup {"example"} -> Nat] /\ copied \subseteq CopyButtons
    BY DEF Init, NoTimers
  <2>2. \E n \in Nat \ {0} : IsCalls(n)
    BY <1>2
  <2>3. QED
    BY <1>1, <2>1, <2>2 DEF Init, PlayTypeOK
<1>4. ShowsOwn(Last)
  <2>1. Last = 1
    BY <1>2, LastIsLast
  <2>2. Pending = {1} /\ Period(1) = {1}
    BY DEF Init, Pending, Period
  <2>3. QED
    BY <2>1, <2>2 DEF ShowsOwn, Init
<1>5. CopiedIsTimed
  BY DEF Init, CopiedIsTimed
<1>6. QED
  BY <1>3, <1>4, <1>5 DEF PlayInv

LEMMA PlayInvSteps == PlayInv /\ [Next]_vars => PlayInv'
<1> SUFFICES ASSUME PlayInv, [Next]_vars PROVE PlayInv'
  OBVIOUS
<1>1. CASE UNCHANGED playVars
  <2>1. (\E n \in Nat \ {0} : IsCalls(n))' /\ ShowsOwn(Last)'
    BY <1>1, SameCalls DEF playVars
  <2>2. QED
    BY <1>1, <2>1 DEF playVars, PlayInv, PlayTypeOK, CopiedIsTimed
<1>2. ASSUME NEW text, Type(text), text \in Text \cup {Empty} PROVE PlayInv'
  <2>1. (\E n \in Nat \ {0} : IsCalls(n))' /\ ShowsOwn(Last)'
    BY <1>2, SameCalls DEF Type
  <2>2. QED
    BY <1>2, <2>1 DEF Type, PlayInv, PlayTypeOK, CopiedIsTimed
<1>3. CASE Submit
  <2>1. CASE query = Empty
    <3>1. UNCHANGED <<ui, requests>>
      BY <1>3, <2>1 DEF Submit, Resolve
    <3>2. (\E n \in Nat \ {0} : IsCalls(n))' /\ ShowsOwn(Last)'
      BY <3>1, SameCalls
    <3>3. QED
      BY <1>3, <3>1, <3>2 DEF Submit, PlayInv, PlayTypeOK, CopiedIsTimed
  <2>2. CASE query # Empty
    <3>1. query \in Text /\ Resolve(query)
      BY <1>3, <2>2 DEF Submit, PlayInv, PlayTypeOK
    <3>2. QED
      BY <1>3, <3>1, ResolveShowsOwn DEF Submit, PlayInv, PlayTypeOK, CopiedIsTimed
  <2>3. QED
    BY <2>1, <2>2
<1>4. CASE ClickExample
  <2>1. (\E n \in Nat \ {0} : IsCalls(n))' /\ ShowsOwn(Last)'
    BY <1>4, SameCalls DEF ClickExample
  <2>2. timers' = [timers EXCEPT !["example"] = @ + 1]
    BY <1>4 DEF ClickExample, Arm
  <2>3. timers' \in [CopyButtons \cup {"example"} -> Nat] /\ CopiedIsTimed'
    BY <1>4, <2>2 DEF ClickExample, PlayInv, PlayTypeOK, CopiedIsTimed, CopyButtons
  <2>4. QED
    BY <1>4, <2>1, <2>3, ExampleIsTag DEF ClickExample, PlayInv, PlayTypeOK, Text
<1>5. CASE ExampleTimer
  <2>1. Resolve(Example) /\ Example \in Text
    BY <1>5, ExampleIsTag DEF ExampleTimer, Text
  <2>2. timers["example"] > 0 /\ timers' = [timers EXCEPT !["example"] = @ - 1]
    BY <1>5 DEF ExampleTimer, Disarm
  <2>3. timers' \in [CopyButtons \cup {"example"} -> Nat] /\ CopiedIsTimed'
    BY <1>5, <2>2 DEF ExampleTimer, PlayInv, PlayTypeOK, CopiedIsTimed, CopyButtons
  <2>4. QED
    BY <1>5, <2>1, <2>3, ResolveShowsOwn DEF ExampleTimer, PlayInv, PlayTypeOK
<1>6. ASSUME NEW i, Settle(i) PROVE PlayInv'
  BY <1>6, SettleShowsOwn DEF Settle, PlayInv, PlayTypeOK, CopiedIsTimed
<1>7. ASSUME NEW b \in CopyButtons, Copy(b) PROVE PlayInv'
  <2>1. (\E n \in Nat \ {0} : IsCalls(n))' /\ ShowsOwn(Last)'
    BY <1>7, SameCalls DEF Copy
  <2>2. timers' = [timers EXCEPT ![b] = @ + 1] /\ copied' = copied \cup {b}
    BY <1>7 DEF Copy, Arm
  <2>3. timers' \in [CopyButtons \cup {"example"} -> Nat] /\ CopiedIsTimed'
    BY <2>2 DEF PlayInv, PlayTypeOK, CopiedIsTimed
  <2>4. QED
    BY <1>7, <2>1, <2>2, <2>3 DEF Copy, PlayInv, PlayTypeOK
<1>8. ASSUME NEW b \in CopyButtons, CopyTimer(b) PROVE PlayInv'
  <2>1. (\E n \in Nat \ {0} : IsCalls(n))' /\ ShowsOwn(Last)'
    BY <1>8, SameCalls DEF CopyTimer
  <2>2. timers[b] > 0 /\ timers' = [timers EXCEPT ![b] = @ - 1] /\ copied' = copied \ {b}
    BY <1>8 DEF CopyTimer, Disarm
  <2>3. timers' \in [CopyButtons \cup {"example"} -> Nat] /\ CopiedIsTimed'
    BY <2>2 DEF PlayInv, PlayTypeOK, CopiedIsTimed
  <2>4. QED
    BY <1>8, <2>1, <2>2, <2>3 DEF CopyTimer, PlayInv, PlayTypeOK
<1>9. QED
  BY <1>1, <1>2, <1>3, <1>4, <1>5, <1>6, <1>7, <1>8 DEF Next, Playground, Navbar, Diagram, vars, Text

\* Once all calls have settled the section shows the answer of a call of the
\* last busy period, and every check mark has a timer that removes it
\* (LivePlaygroundSection.tsx resolveTag, handleCopyAddress, handleCopyLink;
\* DeveloperExperienceSection.tsx handleCopy).
THEOREM ShowsLastAnswers == Spec => []PlaygroundSettles
<1>1. PlayInv => PlaygroundSettles
  BY DEF PlayInv, ShowsOwn, Period, Last, CopiedIsTimed, PlaygroundSettles
<1>2. QED
  BY <1>1, PlayInvHolds, PlayInvSteps, PTL DEF Spec

-----------------------------------------------------------------------------
(* The navigation bar: the ref never forgets a pending timer, because the  *)
(* pointer cannot leave twice without entering in between.                 *)

Bar == [group : Groups \cup {None}, popover : Groups \cup {None}, pointer : Places,
        closeTimeout : BOOLEAN, lost : {0}]

NavInv ==
  /\ nav \in Bar
  /\ MenuFollowsPointer

LEMMA MoveFollows ==
  ASSUME NavInv, NEW place \in Places, Move(place)
  PROVE  NavInv'
<1> DEFINE left == Left(nav)
<1>1. /\ left \in Bar
      /\ left.closeTimeout \/ left.group = None \/ nav.pointer = "outside"
      /\ nav.pointer # "outside" => left.closeTimeout
      /\ left.group = nav.group
  BY DEF Left, MouseLeave, NavInv, MenuFollowsPointer, Bar
<1>2. nav' = [Entered(left, place) EXCEPT !.pointer = place]
  BY DEF Move
<1>3. CASE place = "outside"
  <2>1. Entered(left, place) = left
    BY <1>3 DEF Entered, Plain
  <2>2. nav.pointer # "outside"
    BY <1>3 DEF Move
  <2>3. QED
    BY <1>1, <1>2, <1>3, <2>1, <2>2 DEF NavInv, MenuFollowsPointer, Bar
<1>4. CASE place # "outside"
  <2>1. PICK g \in Groups \cup {None} : Entered(left, place) = MouseEnter(left, g)
    BY <1>1, <1>4 DEF Entered, Places, Plain, Bar
  <2> DEFINE bar == MouseEnter(left, g)
  <2>2. bar \in Bar /\ bar.closeTimeout = FALSE
    BY <1>1 DEF MouseEnter, Bar
  <2>3. nav' = [bar EXCEPT !.pointer = place]
    BY <1>2, <2>1
  <2> HIDE DEF bar
  <2>4. nav' \in Bar /\ nav'.closeTimeout = FALSE /\ nav'.lost = 0 /\ nav'.pointer = place
    BY <2>2, <2>3 DEF Bar
  <2>5. QED
    BY <1>4, <2>4 DEF NavInv, MenuFollowsPointer
<1>5. QED
  BY <1>3, <1>4

LEMMA NavInvSteps == NavInv /\ [Next]_vars => NavInv'
<1> SUFFICES ASSUME NavInv, [Next]_vars PROVE NavInv'
  OBVIOUS
<1>1. CASE UNCHANGED nav
  BY <1>1 DEF NavInv, MenuFollowsPointer
<1>2. ASSUME NEW place \in Places, Move(place) PROVE NavInv'
  BY <1>2, MoveFollows
<1>3. CASE CloseTimer
  <2>1. nav.lost = 0
    BY DEF NavInv, Bar
  <2>2. nav.closeTimeout /\ nav' = [nav EXCEPT !.closeTimeout = FALSE, !.group = None]
    BY <1>3, <2>1 DEF CloseTimer
  <2>3. QED
    BY <2>2 DEF NavInv, MenuFollowsPointer, Bar
<1>4. CASE FollowItem
  BY <1>4 DEF FollowItem, NavInv, MenuFollowsPointer, Bar
<1>5. CASE ExitEnds
  BY <1>5 DEF ExitEnds, NavInv, MenuFollowsPointer, Places, Bar
<1>6. QED
  BY <1>1, <1>2, <1>3, <1>4, <1>5 DEF Next, Playground, Navbar, Diagram, vars

\* No menu closes under the pointer, and none stays open without it
\* (Navbar.tsx handleMouseEnter, handleMouseLeave; NavPopover.tsx).
THEOREM MenuObeysPointer == Spec => []MenuFollowsPointer
<1>1. Init => NavInv
  BY DEF Init, NavInv, MenuFollowsPointer, Places, Bar
<1>2. NavInv => MenuFollowsPointer
  BY DEF NavInv
<1>3. QED
  BY <1>1, <1>2, NavInvSteps, PTL DEF Spec

-----------------------------------------------------------------------------
(* The diagram.                                                            *)

Effect == [pc : {"import", "render", "over"}, cancelled : BOOLEAN, wrote : BOOLEAN]
Drawing(n) == [mounted : BOOLEAN, chart : {n}, shown : Nat, effects : [1 .. n -> Effect]]

\* Every effect but that of the newest chart is cancelled, and all of them
\* are when the page is gone.
DiagramInv ==
  /\ diagram \in Drawing(diagram.chart)
  /\ diagram.chart \in Nat \ {0} /\ diagram.shown <= diagram.chart
  /\ \A v \in 1 .. diagram.chart :
       v # diagram.chart \/ ~diagram.mounted => diagram.effects[v].cancelled
  /\ diagram.effects[diagram.chart].wrote => diagram.effects[diagram.chart].pc = "over"
  /\ DiagramIsNewest

LEMMA CancelledIsEffect ==
  ASSUME NEW e \in Effect
  PROVE  LET c == [e EXCEPT !.cancelled = TRUE] IN
           c \in Effect /\ c.cancelled /\ c.wrote = e.wrote /\ c.pc = e.pc
  BY DEF Effect

LEMMA NewChartIsNewest ==
  ASSUME DiagramInv, NewChart
  PROVE  DiagramInv'
<1> DEFINE n == diagram.chart + 1
           fresh == [pc |-> "import", cancelled |-> FALSE, wrote |-> FALSE]
           effects == [v \in 1 .. n |-> IF v = n THEN fresh
                                        ELSE [diagram.effects[v] EXCEPT !.cancelled = TRUE]]
<1>1. /\ diagram.mounted
      /\ diagram' = [diagram EXCEPT !.chart = n, !.effects = effects]
  BY DEF NewChart
<1>2. /\ n \in Nat \ {0} /\ diagram.shown \in Nat /\ diagram.shown <= n
      /\ 1 .. n = (1 .. diagram.chart) \cup {n} /\ n \notin 1 .. diagram.chart
  BY DEF DiagramInv, Drawing
<1>3. \A v \in 1 .. diagram.chart :
        /\ effects[v] \in Effect /\ effects[v].cancelled
        /\ effects[v].wrote = diagram.effects[v].wrote
  <2> SUFFICES ASSUME NEW v \in 1 .. diagram.chart
               PROVE  /\ effects[v] \in Effect /\ effects[v].cancelled
                      /\ effects[v].wrote = diagram.effects[v].wrote
    OBVIOUS
  <2>1. effects[v] = [diagram.effects[v] EXCEPT !.cancelled = TRUE]
    BY <1>2
  <2>2. diagram.effects[v] \in Effect
    BY DEF DiagramInv, Drawing
  <2> HIDE DEF effects
  <2>3. QED
    BY <2>1, <2>2, CancelledIsEffect
<1>4. effects[n] = fresh /\ fresh \in Effect
  BY <1>2 DEF Effect
<1>5. effects \in [1 .. n -> Effect]
  <2>1. \A v \in 1 .. n : effects[v] \in Effect
    BY <1>2, <1>3, <1>4
  <2>2. QED
    BY <2>1
<1>6. \A v \in 1 .. n : effects[v].wrote => v <= diagram.shown
  BY <1>1, <1>2, <1>3, <1>4 DEF DiagramInv, DiagramIsNewest, Drawing
<1> HIDE DEF effects
<1>7. /\ diagram' \in Drawing(n) /\ diagram'.chart = n /\ diagram'.mounted = diagram.mounted
      /\ diagram'.shown = diagram.shown /\ diagram'.effects = effects
  BY <1>1, <1>2, <1>5 DEF DiagramInv, Drawing
<1>8. ~effects[n].wrote /\ \A v \in 1 .. n : v # n => effects[v].cancelled
  BY <1>2, <1>3, <1>4
<1>9. DOMAIN effects = 1 .. n
  BY <1>5
<1>10. QED
  BY <1>1, <1>2, <1>6, <1>7, <1>8, <1>9 DEF DiagramInv, DiagramIsNewest

\* An effect goes on without drawing.
LEMMA QuietIsNewest ==
  ASSUME DiagramInv, NEW v \in DOMAIN diagram.effects, NEW pc \in {"render", "over"},
         diagram.effects[v].pc # "over",
         diagram' = [diagram EXCEPT !.effects[v].pc = pc]
  PROVE  DiagramInv'
<1> DEFINE e == [diagram.effects[v] EXCEPT !.pc = pc]
           effects == [diagram.effects EXCEPT ![v] = e]
<1>1. v \in 1 .. diagram.chart /\ diagram.effects[v] \in Effect
  BY DEF DiagramInv, Drawing
<1>2. /\ e \in Effect /\ e.cancelled = diagram.effects[v].cancelled
      /\ e.wrote = diagram.effects[v].wrote
  BY <1>1 DEF Effect
<1>3. diagram' = [diagram EXCEPT !.effects = effects]
  OBVIOUS
<1> HIDE DEF e
<1>4. /\ effects \in [1 .. diagram.chart -> Effect]
      /\ \A w \in 1 .. diagram.chart :
           /\ effects[w].cancelled = diagram.effects[w].cancelled
           /\ effects[w].wrote = diagram.effects[w].wrote
           /\ w # v => effects[w] = diagram.effects[w]
  BY <1>1, <1>2 DEF DiagramInv, Drawing
<1> HIDE DEF effects
<1>5. /\ diagram' \in Drawing(diagram.chart) /\ diagram'.chart = diagram.chart
      /\ diagram'.mounted = diagram.mounted
      /\ diagram'.shown = diagram.shown /\ diagram'.effects = effects
  BY <1>3, <1>4 DEF DiagramInv, Drawing
<1>6. ~diagram.effects[v].wrote \/ v # diagram.chart
  BY DEF DiagramInv
<1>7. DOMAIN effects = 1 .. diagram.chart /\ DOMAIN diagram.effects = 1 .. diagram.chart
  BY <1>4 DEF DiagramInv, Drawing
<1>8. QED
  BY <1>1, <1>4, <1>5, <1>6, <1>7 DEF DiagramInv, DiagramIsNewest

\* Only the effect of the newest chart draws.
LEMMA DrawnIsNewest ==
  ASSUME DiagramInv, NEW v \in DOMAIN diagram.effects, Rendered(v)
  PROVE  DiagramInv'
<1>1. CASE diagram.effects[v].cancelled \/ ~diagram.mounted
  BY <1>1, QuietIsNewest DEF Rendered
<1>2. CASE ~(diagram.effects[v].cancelled \/ ~diagram.mounted)
  <2> DEFINE e == [diagram.effects[v] EXCEPT !.pc = "over", !.wrote = TRUE]
             effects == [diagram.effects EXCEPT ![v] = e]
  <2>1. v = diagram.chart /\ diagram.mounted /\ v \in 1 .. diagram.chart
    BY <1>2 DEF DiagramInv, Drawing
  <2>2. e \in Effect /\ e.wrote /\ e.pc = "over"
    BY <2>1 DEF DiagramInv, Drawing, Effect
  <2>3. diagram' = [diagram EXCEPT !.shown = v, !.effects = effects]
    <3> DEFINE over == [diagram.effects[v] EXCEPT !.pc = "over"]
               first == [diagram.effects EXCEPT ![v] = over]
               second == [first EXCEPT ![v].wrote = TRUE]
    <3>1. diagram' = [diagram EXCEPT !.shown = v, !.effects[v].pc = "over",
                                     !.effects[v].wrote = TRUE]
      BY <1>2 DEF Rendered
    <3>2. diagram' = [diagram EXCEPT !.shown = v, !.effects = second]
      BY <3>1 DEF DiagramInv, Drawing
    <3>3. first[v] = over
      BY <2>1 DEF DiagramInv, Drawing
    <3>4. second = [diagram.effects EXCEPT ![v] = [over EXCEPT !.wrote = TRUE]]
      BY <3>3
    <3>5. e = [over EXCEPT !.wrote = TRUE]
      BY <2>1 DEF DiagramInv, Drawing, Effect
    <3>6. QED
      BY <3>2, <3>4, <3>5
  <2> HIDE DEF e
  <2>4. /\ effects \in [1 .. diagram.chart -> Effect] /\ effects[v] = e
        /\ \A w \in 1 .. diagram.chart : w # v => effects[w] = diagram.effects[w]
    BY <2>1, <2>2 DEF DiagramInv, Drawing
  <2> HIDE DEF effects
  <2>5. /\ diagram' \in Drawing(diagram.chart) /\ diagram'.chart = diagram.chart
        /\ diagram'.mounted = diagram.mounted
        /\ diagram'.shown = v /\ diagram'.effects = effects
    BY <2>1, <2>3, <2>4 DEF DiagramInv, Drawing
  <2>6. DOMAIN effects = 1 .. diagram.chart
    BY <2>4
  <2>7. QED
    BY <2>1, <2>2, <2>4, <2>5, <2>6 DEF DiagramInv, DiagramIsNewest
<1>3. QED
  BY <1>1, <1>2

LEMMA UnmountIsQuiet ==
  ASSUME DiagramInv, Unmount
  PROVE  DiagramInv'
<1> DEFINE effects == [v \in DOMAIN diagram.effects |->
                         [diagram.effects[v] EXCEPT !.cancelled = TRUE]]
<1>1. diagram' = [diagram EXCEPT !.mounted = FALSE, !.shown = 0, !.effects = effects]
  BY DEF Unmount
<1>2. DOMAIN diagram.effects = 1 .. diagram.chart
  BY DEF DiagramInv, Drawing
<1>3. \A v \in 1 .. diagram.chart :
        /\ effects[v] \in Effect /\ effects[v].cancelled
        /\ effects[v].wrote = diagram.effects[v].wrote
        /\ effects[v].pc = diagram.effects[v].pc
  <2> SUFFICES ASSUME NEW v \in 1 .. diagram.chart
               PROVE  /\ effects[v] \in Effect /\ effects[v].cancelled
                      /\ effects[v].wrote = diagram.effects[v].wrote
                      /\ effects[v].pc = diagram.effects[v].pc
    OBVIOUS
  <2>1. effects[v] = [diagram.effects[v] EXCEPT !.cancelled = TRUE]
    BY <1>2
  <2>2. diagram.effects[v] \in Effect
    BY DEF DiagramInv, Drawing
  <2> HIDE DEF effects
  <2>3. QED
    BY <2>1, <2>2, CancelledIsEffect
<1>4. effects \in [1 .. diagram.chart -> Effect]
  BY <1>2, <1>3
<1> HIDE DEF effects
<1>5. /\ diagram' \in Drawing(diagram.chart) /\ diagram'.chart = diagram.chart
      /\ ~diagram'.mounted /\ diagram'.shown = 0 /\ diagram'.effects = effects
  BY <1>1, <1>4 DEF DiagramInv, Drawing
<1>6. QED
  BY <1>3, <1>5 DEF DiagramInv, DiagramIsNewest

LEMMA DiagramInvSteps == DiagramInv /\ [Next]_vars => DiagramInv'
<1> SUFFICES ASSUME DiagramInv, [Next]_vars PROVE DiagramInv'
  OBVIOUS
<1>1. CASE UNCHANGED diagram
  BY <1>1 DEF DiagramInv, DiagramIsNewest
<1>2. CASE NewChart
  BY <1>2, NewChartIsNewest
<1>3. CASE Unmount
  BY <1>3, UnmountIsQuiet
<1>4. ASSUME NEW v \in DOMAIN diagram.effects, Imported(v) PROVE DiagramInv'
  <2>1. PICK pc \in {"render", "over"} : diagram' = [diagram EXCEPT !.effects[v].pc = pc]
    BY <1>4 DEF Imported
  <2>2. QED
    BY <1>4, <2>1, QuietIsNewest DEF Imported
<1>5. ASSUME NEW v \in DOMAIN diagram.effects, Rendered(v) PROVE DiagramInv'
  BY <1>5, DrawnIsNewest
<1>6. ASSUME NEW v \in DOMAIN diagram.effects, EffectFails(v) PROVE DiagramInv'
  BY <1>6, QuietIsNewest DEF EffectFails
<1>7. QED
  BY <1>1, <1>2, <1>3, <1>4, <1>5, <1>6 DEF Next, Playground, Navbar, Diagram, vars

\* A slower rendering of an older chart never replaces a newer diagram, and
\* none draws after the component is unmounted (mermaid.tsx: the effect, its
\* checks and its cleanup).
THEOREM NewestDiagramStays == Spec => []DiagramIsNewest
<1>1. Init => DiagramInv
  <2> SUFFICES ASSUME Init PROVE DiagramInv
    OBVIOUS
  <2> DEFINE e == [pc |-> "import", cancelled |-> FALSE, wrote |-> FALSE]
             effects == [v \in {1} |-> e]
  <2>1. diagram = [mounted |-> TRUE, chart |-> 1, shown |-> 0, effects |-> effects]
    BY DEF Init
  <2>2. e \in Effect /\ ~e.wrote
    BY DEF Effect
  <2> HIDE DEF e
  <2>3. effects \in [1 .. 1 -> Effect] /\ effects[1] = e /\ 1 .. 1 = {1}
    BY <2>2
  <2> HIDE DEF effects
  <2>4. QED
    BY <2>1, <2>2, <2>3 DEF DiagramInv, DiagramIsNewest, Drawing
<1>2. DiagramInv => DiagramIsNewest
  BY DEF DiagramInv
<1>3. QED
  BY <1>1, <1>2, DiagramInvSteps, PTL DEF Spec
=============================================================================
