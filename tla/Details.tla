-------------------------------- MODULE Details --------------------------------
(***************************************************************************)
(* Two lookups whose selection is computed from what a poll brought: the   *)
(* browser of GpuHealth, which without the demonstration shows the charts  *)
(* of one GPU, and the drawer of GpuIdle, which asks the node directory    *)
(* about the GPU of a row. What was chosen may vanish and come back.       *)
(***************************************************************************)
EXTENDS Lookups

CONSTANTS
  DeviceOf,   \* of a GPU its device, which other nodes have as well
  ByName      \* the GPUs, by their node's name

ASSUME DetailAssumption == DeviceOf \in [Gpu -> STRING] /\ ToSet(ByName) = Gpu

VARIABLES
  chosen,   \* BrowserHealthView: instanceSel and deviceSel, None for the empty string
  row       \* GpuIdle: the GPU of the drawer, None for null

detailVars == <<chosen, row>>

NoChoice == [node |-> None, device |-> None]

DetailsInit == chosen = NoChoice /\ row = None

-----------------------------------------------------------------------------
FirstOf(S) == Kept(ByName, S)[1]

\* The choice is kept but counts only while the wall has it; else the first one does.
ShownNode == IF chosen.node \in Present THEN chosen.node ELSE NodeOf[FirstOf(WallCells)]

DevicesOf(n) == {DeviceOf[g] : g \in {h \in WallCells : NodeOf[h] = n}}

BrowserGpu ==
  IF WallCells = {} THEN None
  ELSE LET mine == {g \in WallCells : NodeOf[g] = ShownNode}
           them == {g \in mine : DeviceOf[g] = chosen.device}
       IN FirstOf(IF them = {} THEN mine ELSE them)

\* Either of the two charts: a card is keyed by its GPU.
CardDrawn == IF on["card"] = BrowserGpu THEN data["card"] ELSE None

\* The row's GPU, while the list has it.
DrawerGpu == IF row # None /\ row \in DOMAIN IdleList THEN row ELSE None

DrawerNode == IF DrawerGpu = None THEN None ELSE NodeOf[DrawerGpu]

-----------------------------------------------------------------------------
Selected == Step /\ UNCHANGED <<path, seen, picked, demo, palette, wallVars, table, lookVars>>

PickInstance(n) ==
  /\ Browsing /\ WallCells # {} /\ n \in Present \ {ShownNode} /\ Selected
  /\ chosen' = [node |-> n, device |-> None]
  /\ UNCHANGED row

PickDevice(d) ==
  /\ Browsing /\ WallCells # {} /\ d \in DevicesOf(ShownNode) \ {DeviceOf[BrowserGpu]} /\ Selected
  /\ chosen' = [chosen EXCEPT !.device = d]
  /\ UNCHANGED row

\* Only a click on a row chooses, and the drawer covers the rows.
OpenDrawer(g) ==
  /\ path = Idle /\ InDemo /\ DrawerGpu = None /\ g \in ToSet(Visible(table)) \ {row} /\ Selected
  /\ row' = g
  /\ UNCHANGED chosen

CloseDrawer ==
  /\ DrawerGpu # None /\ Selected
  /\ row' = None
  /\ UNCHANGED chosen

\* A new GPU has new cards, which ask for themselves; the drawer's effect depends on the
\* node alone.
Follows(w, key) ==
  /\ w \in Mounted /\ on[w] # key
  /\ Select({w}, key)
  /\ UNCHANGED <<menuVars, wallVars, table, drill, detailVars>>

Effects == Follows("card", BrowserGpu) \/ Follows("label", DrawerNode)

DetailsNext ==
  \/ \E n \in Node : PickInstance(n)
  \/ \E d \in {DeviceOf[g] : g \in Gpu} : PickDevice(d)
  \/ \E g \in Gpu : OpenDrawer(g)
  \/ CloseDrawer \/ Effects

-----------------------------------------------------------------------------
Filled(w) == Shown(w) = on[w] \/ refused[w]

\* PROPERTY: an answer for a former selection never takes the place of the present one's,
\* on any screen; when the explorer is not loading, its chart and its table are of what is
\* selected, or there is an error in their place; and the cards of the health browser are
\* of the GPU its selectors show, though polls move the selectors.
AnswersKeepToSelection ==
  /\ [][\A w \in Names : on'[w] = on[w] /\ on[w] # None /\ data[w] = on[w] =>
          data'[w] = on[w] \/ (w \in Explored /\ data'[w] = None /\ refused'[w])]_lookVars
  /\ [](path = Explorer /\ ~loading =>
          \/ PairDrawn = on["pair"]
          \/ PairDrawn = None /\ refused["pair"])
  /\ [](Browsing => CardDrawn \in {None, BrowserGpu})

\* PROPERTY: what was asked for is answered, or given up with an error: the node whose
\* sheet stays open gets its figures, and its entry in the directory or the reason why not,
\* and the drawer, which another page has, its entry. A session that lapses takes the sheet
\* away, because the board's polls notice it. Nothing on the drawer's page does: its
\* skeleton stays.
SheetIsFilled ==
  on["sheet"] # None \/ on["label"] # None
  ~> /\ on["sheet"] # None => Shown("sheet") = on["sheet"] /\ Filled("asset")
     /\ Filled("label") \/ ~session
=============================================================================
