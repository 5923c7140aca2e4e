--------------------------------- MODULE Lookups ---------------------------------
(***************************************************************************)
(* The screens that ask the store, or the node directory, about something  *)
(* the operator has selected: the metric explorer, the node panel beside   *)
(* the topology graph, the node sheet over it and the utilisation chart    *)
(* under it; and the two pages that ask about the whole fleet at each tick *)
(* of a timer. What they have in common: a selection may change while      *)
(* answers for the former one are on their way.                            *)
(*                                                                         *)
(* A lookup's requests are one call: Promise.all waits for all of them. A  *)
(* call is cancelled when the effect that sent it is cleaned up.           *)
(***************************************************************************)
EXTENDS IdleTable

CONSTANTS
  Selections,   \* the explorer: selector and range
  Tabs          \* the chart's tabs

VARIABLES
  on,       \* per lookup: what is selected, None for nothing
  data,     \* per lookup: what the data it holds is of, None for null
  refused,  \* per lookup: is its error set?
  loading,  \* the explorer's flag
  calls,    \* the calls not yet answered
  drill     \* TopologyGraph: the columns drilled into, by GPU and by provider

lookVars == <<on, data, refused, loading, calls, drill>>

Explored == {"pair"}
OfNodes  == {"panel", "sheet", "asset", "label"}
Polled   == {"panel", "sheet", "chart", "heat", "overview", "card"}
Names    == Explored \cup OfNodes \cup Polled

\* The node directory is asked with a fetch of its own, past lib/api.ts.
Directory == {"asset", "label"}

\* The page a lookup is on. The fleet pages select nothing: they ask for the whole.
Fleet == "fleet"
Home(w) == CASE w = "pair" -> Explorer [] w = "heat" -> Heat
             [] w = "overview" -> Overview [] w = "card" -> Browse [] w = "label" -> Idle
             [] OTHER -> Wall

\* The lookups whose component is rendered: the chart waits for the first snapshot.
Mounted ==
  {w \in Names : /\ Home(w) = path
                 /\ w \in OfNodes => demo # "unknown"
                 /\ w \in {"panel", "chart", "label"} => InDemo
                 /\ w = "card" => demo = "off"
                 /\ w = "chart" => state # None}

\* Cleaning up an effect sets the flag that its calls look at when they are answered.
Cancelled(cs, ws) ==
  {IF c.of \in ws THEN [c EXCEPT !.live = FALSE] ELSE c : c \in cs}

Call(w, key) == [of |-> w, key |-> key, live |-> TRUE]

\* Effects whose dependency is the selection: clean up, then ask again if there is one. A
\* poll with nothing to ask about answers null at once; the node directory, asked once for
\* a node, is forgotten at once.
Forgets(w, key) == w \in Directory \cup {"card"} \/ (w \in Polled /\ key = None)

Select(ws, key) ==
  /\ on' = [w \in Names |-> IF w \in ws THEN key ELSE on[w]]
  /\ calls' = Cancelled(calls, ws) \cup {Call(w, key) : w \in {v \in ws : key # None}}
  /\ data' = [w \in Names |-> IF w \in ws /\ Forgets(w, key) THEN None ELSE data[w]]
  /\ refused' = [w \in Names |-> refused[w] /\ ~(w \in ws /\ (Forgets(w, key) \/ w \in Explored))]
  /\ loading' = (loading \/ ws \cap Explored # {})

\* What a lookup asks when it is mounted: a page of the whole fleet asks at once.
First(w) == CASE w = "pair" -> CHOOSE s \in Selections : TRUE
              [] w = "chart" -> CHOOSE t \in Tabs : TRUE
              [] w \in OfNodes \cup {"card"} -> None
              [] OTHER -> Fleet

Asks(ws) == {Call(w, First(w)) : w \in {v \in ws : First(v) # None}}

NoDrill == [gpu |-> None, csp |-> None]

\* Those in keep stay, those in new are mounted, the others are unmounted.
Mount(keep, new) ==
  /\ on' = [w \in Names |-> IF w \in new THEN First(w) ELSE IF w \in keep THEN on[w] ELSE None]
  /\ data' = [w \in Names |-> IF w \in keep THEN data[w] ELSE None]
  /\ refused' = [w \in Names |-> w \in keep /\ refused[w]]
  /\ calls' = Cancelled(calls, Names \ keep) \cup Asks(new)
  /\ loading' = ("pair" \in new \/ ("pair" \in keep /\ loading))
  /\ drill' = IF keep = {} THEN NoDrill ELSE drill

LookInit ==
  /\ on = [w \in Names |-> IF w \in Mounted THEN First(w) ELSE None]
  /\ data = [w \in Names |-> None] /\ refused = [w \in Names |-> FALSE]
  /\ calls = Asks(Mounted)
  /\ loading = ("pair" \in Mounted)
  /\ drill = NoDrill

-----------------------------------------------------------------------------
\* What is drawn. The panel and the sheet take an answer for another node as none.
Shown(w) ==
  IF w \in OfNodes /\ data[w] # on[w] THEN None ELSE data[w]

\* The chart of the explorer gives way to a skeleton only while it is empty.
PairDrawn == data["pair"]

\* Mutants: plausible bugs in what follows.
AnswersAlways(c) == TRUE
SwallowsFailure(c) == refused

Answers(c) == c.live

RefusedAfter(c) == [refused EXCEPT ![c.of] = TRUE]

\* (An answer that was on its way when the session lapsed came before it.)
Answered(c) ==
  /\ session
  /\ c \in calls /\ calls' = calls \ {c}
  /\ IF Answers(c)
     THEN /\ data' = [data EXCEPT ![c.of] = c.key]
          /\ refused' = [refused EXCEPT ![c.of] = FALSE]
          /\ loading' = (loading /\ c.of \notin Explored)
     ELSE UNCHANGED <<data, refused, loading>>
  /\ UNCHANGED <<menuVars, wallVars, table, on, drill>>

\* Any failure but a 401 empties the explorer, and leaves the others what they have.
Refused(c) ==
  /\ Step
  /\ c \in calls /\ calls' = calls \ {c}
  /\ IF Answers(c)
     THEN /\ data' = [data EXCEPT ![c.of] = IF c.of \in Explored THEN None ELSE @]
          /\ refused' = RefusedAfter(c)
          /\ loading' = (loading /\ c.of \notin Explored)
     ELSE UNCHANGED <<data, refused, loading>>
  /\ UNCHANGED <<path, seen, picked, demo, palette, wallVars, table, on, drill>>

\* A 401 of a call that lib/api.ts makes, cancelled or not, or of the board's own poll:
\* the handler signs the client off.
Unauthorized ==
  /\ ~session
  /\ OnBoard \/ Browsing \/ \E c \in calls : c.of \notin Directory
  /\ SignOff

\* A 401 of the node directory: no reason is shown, and nobody is told.
Denied(c) ==
  /\ ~session /\ c.of \in Directory
  /\ c \in calls /\ calls' = calls \ {c}
  /\ refused' = IF Answers(c) THEN [refused EXCEPT ![c.of] = FALSE] ELSE refused
  /\ UNCHANGED <<menuVars, wallVars, table, on, data, loading, drill>>

\* The timer of a polled lookup. It does not wait for the call before. (Not told apart: a
\* call whose answer would repeat what the screen has.)
Tick(w) ==
  /\ data[w] # on[w] \/ refused[w]
  /\ w \in Polled \cap Mounted /\ on[w] # None
  /\ calls' = calls \cup {Call(w, on[w])}
  /\ UNCHANGED <<menuVars, wallVars, table, on, data, refused, loading, drill>>

-----------------------------------------------------------------------------
Chosen == UNCHANGED <<path, seen, picked, demo, palette, wallVars, table>>

\* The explorer's metric, its free input and its range.
Explore(s) ==
  /\ path = Explorer /\ Step /\ s \in Selections \ {on["pair"]}
  /\ Select({"pair"}, s) /\ Chosen /\ UNCHANGED drill

ChartTab(t) ==
  /\ "chart" \in Mounted /\ Step /\ t \in Tabs \ {on["chart"]}
  /\ Select({"chart"}, t) /\ Chosen /\ UNCHANGED drill

-----------------------------------------------------------------------------
\* TopologyGraph, of three of its columns: GPU, node, provider. What is chosen in a column
\* cuts those to its right.
InScope == {c \in Filtered : drill.gpu \in {None, c.gpu}}

Graphed == OnBoard /\ InDemo /\ cells # None /\ Filtered # {}

\* A node of the graph toggles the panel; a choice further left lets go of those after it.
PickNode(n) ==
  /\ Graphed /\ Step /\ n \in {NodeOf[c.gpu] : c \in InScope}
  /\ Select({"panel"}, IF on["panel"] = n THEN None ELSE n)
  /\ Chosen /\ UNCHANGED drill

DrillGpu(g) ==
  /\ Graphed /\ Step /\ g \in {c.gpu : c \in Filtered}
  /\ drill' = [gpu |-> IF drill.gpu = g THEN None ELSE g, csp |-> None]
  /\ Chosen /\ UNCHANGED <<on, data, refused, loading, calls>>

DrillCsp(k) ==
  /\ Graphed /\ Step /\ k \in {Label(c, "csp") : c \in InScope}
  /\ drill' = [drill EXCEPT !.csp = IF drill.csp = k THEN None ELSE k]
  /\ Chosen /\ UNCHANGED <<on, data, refused, loading, calls>>

\* The whole graph again; the button of the toolbar lets go of the node only.
ClearGraph(all) ==
  /\ Graphed /\ Step
  /\ drill' = IF all THEN NoDrill ELSE drill
  /\ Select({"panel"}, None) /\ Chosen

\* From a cell of the map, a row of the list or the panel's button.
OpenSheet(n) ==
  /\ "sheet" \in Mounted /\ on["sheet"] = None /\ Step
  /\ n \in {NodeOf[c.gpu] : c \in Filtered} \cup ({on["panel"]} \ {None})
  /\ Select({"sheet", "asset"}, n) /\ Chosen /\ UNCHANGED drill

CloseSheet ==
  /\ on["sheet"] # None /\ Step
  /\ Select({"sheet", "asset"}, None) /\ Chosen /\ UNCHANGED drill

LookNext ==
  \/ \E c \in calls : Answered(c) \/ Refused(c) \/ Denied(c)
  \/ \E w \in Names : Tick(w)
  \/ \E s \in Selections : Explore(s)
  \/ \E t \in Tabs : ChartTab(t)
  \/ \E n \in Node : PickNode(n) \/ OpenSheet(n)
  \/ \E g \in Gpu : DrillGpu(g)
  \/ \E k \in Csp : DrillCsp(k)
  \/ \E all \in BOOLEAN : ClearGraph(all)
  \/ CloseSheet
=============================================================================
