---------------------------------- MODULE Menu ----------------------------------
(***************************************************************************)
(* The shell around the pages: the route, the top menu, the menu at the    *)
(* left and the search dialog, and the answer to /demo/status that decides *)
(* which screens they offer. A path is the sequence of its segments.       *)
(***************************************************************************)
EXTENDS Integers, Sequences, FiniteSets, SequencesExt

CONSTANTS
  None,
  Addresses,   \* bound: the routes the operator types by hand
  MaxSteps     \* bound: what the operator and the server do, and the polls that fail

VARIABLES
  path,      \* the router's location
  seen,      \* Shell: the path its effect ran for last
  picked,    \* Shell: the top chosen by hand, None for null
  demo,      \* useDemoStatus: "unknown", "on", "off"
  palette,   \* GlobalSearch: is the dialog open?
  steps      \* history: what is counted against MaxSteps

menuVars == <<path, seen, picked, demo, palette, steps>>

-----------------------------------------------------------------------------
Tops == <<"realtime", "incident", "inventory", "analytics", "remediation", "admin">>

Root == <<>>
Wall == <<"gpu">>
Heat == <<"map">>
Explorer == <<"explorer">>
Overview == <<"overview">>
Idle == <<"gpu", "idle">>
Browse == <<"gpu", "health">>
Login == <<"login">>   \* outside of the shell

\* The items of each top that have a screen, in order.
Items == [
  realtime    |-> <<Wall, Heat, Explorer, Overview>>,
  incident    |-> << <<"gpu", "incident">>, <<"gpu", "assistant">>, Browse,
                     <<"gpu", "ruleset">> >>,
  inventory   |-> << Idle >>,
  analytics   |-> << <<"gpu", "efficiency">>, <<"gpu", "serving">>, <<"gpu", "roadmap">> >>,
  remediation |-> << <<"gpu", "remediation">>, <<"gpu", "validation">> >>,
  admin       |-> << >>]

TopIds == ToSet(Tops)
Leaves == UNION {ToSet(Items[t]) : t \in TopIds}
Exact == {Wall}

DemoRoutes == Leaves \ {Heat, Explorer, Overview, <<"gpu", "serving">>}

\* What the router has a page for.
Routes == Leaves \cup {Root}

ASSUME MenuAssumption == Addresses \subseteq Routes /\ MaxSteps \in Nat

\* The items of a top that are offered, and the tops that offer any.
ItemsShown ==
  [inDemo \in BOOLEAN |->
     [t \in TopIds |-> SelectSeq(Items[t], LAMBDA i : inDemo => i \in DemoRoutes)]]

VisibleItems(top, inDemo) == ItemsShown[inDemo][top]

VisibleTops(inDemo) == {t \in TopIds : VisibleItems(t, inDemo) # << >>}

\* The items that match a path, the longest of them, and the top it is under.
Hits(p) == {i \in Leaves : IF i \in Exact THEN p = i ELSE IsPrefix(i, p)}

Match ==
  [p \in Routes |->
     IF Hits(p) = {} THEN None
     ELSE CHOOSE i \in Hits(p) : \A j \in Hits(p) : Len(j) <= Len(i)]

TopForPath ==
  [p \in Routes |->
     IF Match[p] = None THEN Tops[1]
     ELSE CHOOSE t \in TopIds : Match[p] \in ToSet(Items[t])]

\* What the menu at the left highlights: a test of its own, item by item.
IsLeafActive(i, p) == IF i \in Exact THEN p = i ELSE IsPrefix(i, p)

InDemo == demo = "on"
ActiveTop == IF picked = None THEN TopForPath[path] ELSE picked
SubMenu == ToSet(VisibleItems(ActiveTop, InDemo))
Highlighted == {i \in SubMenu : IsLeafActive(i, path)}

SearchItems == UNION {ToSet(VisibleItems(t, InDemo)) : t \in TopIds}

\* What the tables above say of each path, whichever top was picked: the path's top is
\* offered, its menu highlights the path's item and no other; a top leads to an item of its.
ASSUME MenuTables ==
  /\ {Wall, Idle, Explorer, Browse, Overview} \subseteq Routes /\ Login \notin Routes
  /\ None \notin TopIds
  /\ \A inDemo \in BOOLEAN :
       /\ \A p \in Routes :
            LET shown == ToSet(VisibleItems(TopForPath[p], inDemo))
            IN  /\ TopForPath[p] \in VisibleTops(inDemo)
                /\ {i \in shown : IsLeafActive(i, p)} = {Match[p]} \cap shown
       /\ \A top \in VisibleTops(inDemo) :
            LET first == VisibleItems(top, inDemo)[1]
            IN  first \in Routes \ {Root} /\ TopForPath[first] = top
       /\ \A top \in TopIds \ VisibleTops(inDemo) : ToSet(VisibleItems(top, inDemo)) = {}

-----------------------------------------------------------------------------
MenuInit ==
  /\ path \in {Root, Wall, Idle, Explorer, Browse}
  /\ seen = path /\ picked = None
  /\ demo = "unknown" /\ palette = FALSE /\ steps = 0

Step == steps < MaxSteps /\ steps' = steps + 1

\* The first page asks once for the whole life of the process; a failure counts as "off".
StatusKnown ==
  /\ demo = "unknown"
  /\ demo' \in {"on", "off"}
  /\ UNCHANGED <<path, seen, picked, palette, steps>>

\* The index route, once the status is known.
HomeRedirect ==
  /\ path = Root /\ demo # "unknown"
  /\ path' = IF InDemo THEN Wall ELSE Overview
  /\ UNCHANGED <<seen, picked, demo, palette, steps>>

\* A mutant: a plausible bug in what follows.
KeepsPick(p) == p

\* The effect of Shell that lets go of the top chosen by hand.
LetGo(p) == None

PathEffect ==
  /\ path # seen /\ path # Login
  /\ seen' = path /\ picked' = LetGo(picked)
  /\ UNCHANGED <<path, demo, palette, steps>>

SelectTop(top) ==
  /\ path = seen /\ Step
  /\ top \in VisibleTops(InDemo)
  /\ picked' = top
  /\ path' = VisibleItems(top, InDemo)[1]
  /\ UNCHANGED <<seen, demo, palette>>

\* A link of the menu at the left, or an address typed by hand.
Follow(to) ==
  /\ path = seen /\ Step
  /\ to \in SubMenu \cup Addresses
  /\ path' = to
  /\ UNCHANGED <<seen, picked, demo, palette>>

TogglePalette ==
  /\ InDemo /\ path # Login /\ Step
  /\ palette' = ~palette
  /\ UNCHANGED <<path, seen, picked, demo>>

SearchTo(to) ==
  /\ palette /\ path = seen /\ Step
  /\ to \in SearchItems
  /\ palette' = FALSE /\ path' = to
  /\ UNCHANGED <<seen, picked, demo>>

\* The client signs off: the shell gives way to the login page. (Signing on again is a new
\* beginning, and is not modelled here.)
SignOff ==
  /\ path # Login
  /\ path' = Login
  /\ UNCHANGED <<seen, picked, demo, palette, steps>>

MenuNext ==
  \/ StatusKnown \/ HomeRedirect \/ PathEffect \/ TogglePalette
  \/ \E top \in TopIds : SelectTop(top)
  \/ \E to \in Routes : Follow(to) \/ SearchTo(to)

-----------------------------------------------------------------------------
\* INVARIANT: once the effects have run, the menu stands where the page is: the top
\* shown as chosen is the path's and is offered, the one item highlighted is the page's
\* (none when the demonstration hides it), and the search offers what the menu offers.
MenuStandsAtPage ==
  path = seen =>
    /\ ActiveTop = TopForPath[path]
    /\ ActiveTop \in VisibleTops(InDemo)
    /\ Highlighted = {Match[path]} \cap SubMenu
    /\ SearchItems = UNION {ToSet(VisibleItems(t, InDemo)) : t \in VisibleTops(InDemo)}
=============================================================================
