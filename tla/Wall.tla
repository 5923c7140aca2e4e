---------------------------------- MODULE Wall ----------------------------------
(***************************************************************************)
(* The fleet board (GpuOverview): cells come from two polls of different   *)
(* age, the series in the store (useFleet) and the snapshot of the         *)
(* demonstration server (GpuLayout). Everything else on the board is       *)
(* computed from the two, under the filters.                               *)
(*                                                                         *)
(* srv is the server: the nodes whose agent is missing, the nodes with     *)
(* series in the query's window, the scenario's phase, faults, idle GPUs.  *)
(* A poll is one step: how long its answer took is the age of what it      *)
(* brings, and what it brings grows older in the steps after it.           *)
(***************************************************************************)
EXTENDS Menu

CONSTANTS
  Gpu, Node, Csp,
  NodeOf,        \* of a GPU its node
  LabelOf,       \* of an axis and a GPU its label, None for the empty string
  Pooled,        \* the GPUs that carry a pool label
  Victim,        \* the scenario's node
  FleetAlerts,   \* the alerts that name no node
  TopRows,       \* bound of the code: the rows a ranking shows
  All            \* a filter that is not set

\* The fields of the filter bar: labels of the cells, their status, and one that is of the
\* alerts only.
Axes       == {"workload", "csp", "region", "cluster", "tenant", "model"}
CellFields == Axes \cup {"status"}
Fields     == CellFields \cup {"severity"}

Workloads  == {"training", "inference"}
Severities == {"critical", "major", "warning", "info"}

ASSUME WallAssumption ==
  /\ IsFiniteSet(Gpu) /\ IsFiniteSet(Csp)
  /\ NodeOf \in [Gpu -> Node]
  /\ \A g \in Gpu : LabelOf["csp"][g] \in Csp \cup {None}
  /\ Pooled \subseteq Gpu /\ Victim \in Node
  /\ IsFiniteSet(FleetAlerts)
  /\ FleetAlerts \subseteq [of : {None}, node : {None}, severity : Severities, acked : BOOLEAN]
  /\ TopRows \in Nat \ {0}

VARIABLES
  srv,        \* the server
  cells,      \* useFleet: the GPUs of the last answer, None for null
  state,      \* GpuLayout: the last snapshot, None for null
  error,      \* useFleet: did its last query fail?
  filter,     \* GpuOverview: by field, All for none
  session     \* does the server still know the session of the cookie?

wallVars == <<srv, cells, state, error, filter, session>>

Statuses   == {"normal", "degraded", "fault", "isolated", "recovering"}
NodeStates == {"ready", "degraded", "cordoned", "draining", "offline"}
Verdicts   == {"idle", "validating", "ready", "failed"}

Isolating  == {"draining", "replacing"}
Recovering == {"burnin-1", "burnin-failed", "burnin-2", "ready-to-return"}
Cordoned   == {"replacing", "burnin-1", "burnin-failed", "burnin-2", "ready-to-return"}
\* The phases before the isolation and after the return differ in nothing here.
Phases     == {"normal"} \cup Isolating \cup Recovering

\* The states of the server.
WallSrv ==
  [missing : SUBSET Node, series : SUBSET Node, phase : Phases, faults : SUBSET Gpu,
   hot : SUBSET Gpu, idle : UNION {[S -> Verdicts] : S \in SUBSET Pooled}]

ASSUME ServerAssumption == None \notin WallSrv

ASSUME FilterAssumption ==
  /\ All \notin Workloads \cup Statuses \cup Severities \cup Verdicts
  /\ \A x \in Axes, g \in Gpu : LabelOf[x][g] # All

GpusOf(nodes) == {g \in Gpu : NodeOf[g] \in nodes}

-----------------------------------------------------------------------------
NoFilter == [x \in Fields |-> All]

MissingGpus == IF state = None THEN {} ELSE GpusOf(state.missing)
WallCells   == IF cells = None THEN {} ELSE cells

\* A cell of the wall is real, or stands for a GPU of which nothing is collected.
Real == [gpu : WallCells, measured : {TRUE}]

Present == {NodeOf[g] : g \in WallCells}

\* Mutants: plausible bugs in what follows.
AddedAnyway(present) == [gpu : MissingGpus, measured : {FALSE}]
OnlyBeforeTheWall(present) ==
  [gpu : {g \in MissingGpus : present = {}}, measured : {FALSE}]

Synthetic(present) ==
  [gpu : {g \in MissingGpus : NodeOf[g] \notin present}, measured : {FALSE}]

Merged == Real \cup Synthetic(Present)

StatusOf(g) ==
  IF state = None THEN "normal"
  ELSE IF g \in state.faults THEN "fault"
  ELSE IF NodeOf[g] = Victim /\ state.phase \in Isolating THEN "isolated"
  ELSE IF NodeOf[g] = Victim /\ state.phase \in Recovering THEN "recovering"
  ELSE IF g \in state.hot THEN "degraded"
  ELSE "normal"

\* What a cell is told apart by. One that stands for a GPU has no model; its other labels
\* are those of the inventory.
Label(c, x) ==
  CASE x = "node" -> NodeOf[c.gpu]
    [] x = "status" -> StatusOf(c.gpu)
    [] x = "model" /\ ~c.measured -> None
    [] OTHER -> LabelOf[x][c.gpu]

FilteredBy(f) == {c \in Merged : \A x \in CellFields : f[x] = All \/ f[x] = Label(c, x)}

Filtered == FilteredBy(filter)

\* The filter bar offers fixed words, or what the answer of the store has, not what the
\* merge added.
Options(x) ==
  CASE x = "workload" -> Workloads
    [] x = "status" -> Statuses
    [] x = "severity" -> Severities
    [] OTHER -> {LabelOf[x][g] : g \in WallCells} \ {None}

-----------------------------------------------------------------------------
\* deriveFleetFacts.
CellsWith(x, k) == {c \in Filtered : Label(c, x) = k}

\* A strip of states shows the sum of its counts as its total.
StripTotal(counts) == SumFunction(counts)

GpusIn(status) == Cardinality(CellsWith("status", status))

Nodes == {NodeOf[c.gpu] : c \in Filtered}

NodeState(n) ==
  IF state # None /\ n \in state.missing THEN "offline"
  ELSE IF state # None /\ n = Victim /\ state.phase = "draining" THEN "draining"
  ELSE IF state # None /\ n = Victim /\ state.phase \in Cordoned THEN "cordoned"
  ELSE IF \E c \in Filtered : NodeOf[c.gpu] = n /\ StatusOf(c.gpu) \in {"fault", "degraded"}
    THEN "degraded"
  ELSE "ready"

NodesIn(s) == Cardinality({n \in Nodes : NodeState(n) = s})

CspFacts(csp) ==
  LET mine == CellsWith("csp", csp)
  IN [gpuTotal  |-> Cardinality(mine),
      allocated |-> Cardinality({c \in mine : c.gpu \in Pooled}),
      faulted   |-> Cardinality({c \in mine : StatusOf(c.gpu) = "fault"})]

Allocated == Cardinality({c \in Filtered : c.gpu \in Pooled})

\* The models' bars, of the cells that name one.
Models ==
  [m \in {Label(c, "model") : c \in Filtered} \ {None} |-> Cardinality(CellsWith("model", m))]

\* The alerts the server derives: one of each fault and of each hot GPU, and those that name
\* no node. Those out of sight are dropped, those of no node are not.
Alert(g, severity) == [of |-> g, node |-> NodeOf[g], severity |-> severity, acked |-> FALSE]

Alerts ==
  IF state = None THEN {}
  ELSE {Alert(g, "critical") : g \in state.faults} \cup {Alert(g, "warning") : g \in state.hot}
       \cup FleetAlerts

AlertList(f) ==
  LET nodes == {NodeOf[c.gpu] : c \in FilteredBy(f)}
  IN {a \in Alerts : a.node \in nodes \cup {None} /\ f["severity"] \in {All, a.severity}}

\* The strip of alerts leaves out the acknowledged ones, and has no place for "info".
AlertsOf(severity) ==
  Cardinality({a \in AlertList(filter) : ~a.acked /\ a.severity = severity})

\* The tables and the graph group the same cells by an axis.
GroupSizes(x) ==
  [k \in {Label(c, x) : c \in Filtered} |-> Cardinality(CellsWith(x, k))]

\* What a ranking shows of its rows: the first ones, by a utilisation that is anything here.
Cuts(rows) ==
  {T \in SUBSET rows :
     Cardinality(T) = IF Cardinality(rows) < TopRows THEN Cardinality(rows) ELSE TopRows}

\* Only what was measured is ranked.
Ranked == {c \in Filtered : c.measured}

-----------------------------------------------------------------------------
OnBoard  == path = Wall
Browsing == path = Browse /\ demo = "off"
InLayout == path # Root /\ path[1] = "gpu"

WallInit ==
  /\ srv = [missing |-> {}, series |-> Node, phase |-> "normal", faults |-> {}, hot |-> {},
            idle |-> [g \in Pooled |-> "idle"]]
  /\ cells = None /\ state = None /\ error = FALSE
  /\ filter = NoFilter /\ session = TRUE

\* External: the demonstration server. A scenario drains, replaces and tests its node, an
\* agent stops and comes back, GPUs fail, run hot, are found idle or are put to use. (What
\* nobody looks at changes as well once somebody does: each changes on its own screen.)
AgentTurns == {[srv EXCEPT !.missing = {n}] : n \in Node} \cup {[srv EXCEPT !.missing = {}]}

BoardTurns ==
  {[srv EXCEPT !.phase = p] : p \in Phases}
  \cup AgentTurns
  \cup {[srv EXCEPT !.faults = {g}] : g \in Gpu} \cup {[srv EXCEPT !.hot = {g}] : g \in Gpu}

Without(f, g) == [h \in DOMAIN f \ {g} |-> f[h]]

IdleTurns ==
  {[srv EXCEPT !.idle[g] = v] : g \in DOMAIN srv.idle, v \in Verdicts}
  \cup {[srv EXCEPT !.idle = Without(@, g)] : g \in DOMAIN srv.idle}

Turn ==
  /\ Step
  /\ srv' \in (CASE OnBoard -> BoardTurns [] Browsing -> AgentTurns [] path = Idle -> IdleTurns
               [] OTHER -> {}) \ {srv}
  /\ UNCHANGED <<path, seen, picked, demo, palette, cells, state, error, filter, session>>

\* External: a series leaves the query's window some time after its agent stopped, and
\* comes back some time after it was restarted.
SeriesFollow(n) ==
  /\ (n \in srv.missing) = (n \in srv.series)
  /\ srv' = [srv EXCEPT !.series = IF n \in srv.missing THEN @ \ {n} ELSE @ \cup {n}]
  /\ UNCHANGED <<menuVars, cells, state, error, filter, session>>

\* External: the session lapses, or the server that knew it restarts.
Lapse ==
  /\ session /\ Step /\ session' = FALSE
  /\ UNCHANGED <<path, seen, picked, demo, palette, srv, cells, state, error, filter>>

\* Every 30 s: the cells are replaced as a whole, or kept when the query fails.
FleetPoll ==
  /\ OnBoard \/ Browsing
  /\ session
  /\ cells' = GpusOf(srv.series) /\ error' = FALSE
  /\ UNCHANGED <<menuVars, srv, state, filter, session>>

FleetPollFails ==
  /\ OnBoard \/ Browsing
  /\ Step
  /\ error' = TRUE
  /\ UNCHANGED <<path, seen, picked, demo, palette, srv, cells, state, filter, session>>

\* Every few seconds, under GpuLayout. Whatever its failure, a 401 too, it changes nothing.
StatePoll ==
  /\ InLayout /\ InDemo /\ session
  /\ state' = srv
  /\ UNCHANGED <<menuVars, srv, cells, error, filter, session>>

\* The filter bar: one field at a time, or all of them reset.
SetFilter(f) ==
  /\ f # filter /\ Step
  /\ filter' = f
  /\ UNCHANGED <<path, seen, picked, demo, palette, srv, cells, state, error, session>>

FilterBy ==
  /\ OnBoard /\ demo # "unknown"
  /\ \/ \E x \in Fields : \E v \in Options(x) \cup {All} : SetFilter([filter EXCEPT ![x] = v])
     \/ SetFilter(NoFilter)

\* Unmounting a page forgets its cells and filters, leaving /gpu the snapshot too.
LeaveBoard(to) ==
  /\ cells' = IF to = path THEN cells ELSE None
  /\ filter' = IF to = path THEN filter ELSE NoFilter
  /\ state' = IF to # Root /\ to[1] = "gpu" THEN state ELSE None
  /\ error' = (to = path /\ error)
  /\ UNCHANGED <<srv, session>>

WallNext ==
  \/ Turn \/ Lapse \/ FleetPoll \/ FleetPollFails \/ StatePoll \/ FilterBy
  \/ \E n \in Node : SeriesFollow(n)

-----------------------------------------------------------------------------
\* The cells left when a field is not set, and those of them that none of its values leaves.
Whole(x) == FilteredBy([filter EXCEPT ![x] = All])
Rest(x)  == {c \in Whole(x) : Label(c, x) \notin Options(x)}

\* INVARIANT: whatever the ages of the two answers, a GPU that either of them names has
\* one cell and no more, and every figure of the board counts that one cell. The values a
\* field of the filter bar offers part the cells, but for those whose label is empty or is
\* on no cell of the store's answer: the statuses leave none; where the agents name every
\* model, the models leave exactly the cells that stand for a GPU, and the models' bars
\* add up to the others. The strips add up to the cells and the nodes, and so do the cards
\* of the providers the snapshot lists, where every GPU names its own. The severities part
\* the alerts, and the strip of alerts counts the unacknowledged ones other than "info".
\* The rows of a grouping add up to the cells if and only if no group is cut off.
CountedOnce ==
  OnBoard =>
    /\ \A g \in Gpu : Cardinality({c \in Merged : c.gpu = g})
                      = IF g \in WallCells \cup MissingGpus THEN 1 ELSE 0
    /\ \A x \in CellFields :
         SumFunction([v \in Options(x) |-> Cardinality(FilteredBy([filter EXCEPT ![x] = v]))])
         = Cardinality(Whole(x) \ Rest(x))
    /\ Rest("status") = {}
    /\ (\A g \in Gpu : LabelOf["model"][g] # None) =>
         /\ Rest("model") = {c \in Whole("model") : ~c.measured}
         /\ SumFunction(Models) = Cardinality(Ranked)
    /\ StripTotal([s \in Statuses |-> GpusIn(s)]) = Cardinality(Filtered)
    /\ StripTotal([s \in NodeStates |-> NodesIn(s)]) = Cardinality(Nodes)
    /\ state # None /\ (\A g \in Gpu : LabelOf["csp"][g] # None) =>
         /\ SumFunction([k \in Csp |-> CspFacts(k).gpuTotal]) = Cardinality(Filtered)
         /\ SumFunction([k \in Csp |-> CspFacts(k).allocated]) = Allocated
         /\ SumFunction([k \in Csp |-> CspFacts(k).faulted]) = GpusIn("fault")
    /\ LET sizes == GroupSizes("node")
       IN \A T \in Cuts(Nodes) :
            LET shown == SumFunction([n \in T |-> sizes[n]])
            IN /\ shown <= Cardinality(Filtered)
               /\ shown = Cardinality(Filtered) <=> Cardinality(Nodes) <= TopRows
    /\ {c.gpu : c \in Ranked} \subseteq WallCells
    /\ SumFunction([v \in Severities |->
                      Cardinality(AlertList([filter EXCEPT !["severity"] = v]))])
       = Cardinality(AlertList([filter EXCEPT !["severity"] = All]))
    /\ StripTotal([s \in Severities \ {"info"} |-> AlertsOf(s)])
       = Cardinality({a \in AlertList(filter) : ~a.acked /\ a.severity # "info"})

\* PROPERTY: when the server comes to rest, the board comes to show every GPU of the
\* inventory, the ones nothing is collected of included, and goes on showing them.
WallIsWhole ==
  <>[](OnBoard /\ InDemo => {c.gpu : c \in Merged} = Gpu)
=============================================================================
