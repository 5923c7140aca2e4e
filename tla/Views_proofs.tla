------------------------------ MODULE Views_proofs ------------------------------
(***************************************************************************)
(* What holds of the screens that only look, for any fleet, any selections *)
(* and any number of calls on their way.                                   *)
(***************************************************************************)
EXTENDS Views, FiniteSetTheorems, SequenceTheorems, TLAPS

(***************************************************************************)
(* The inductive invariant. Of the board: the server's state, the snapshot *)
(* and cells that are those of whole nodes. Of the lookups: a call that is *)
(* not cancelled asks for what is selected, only what is mounted has a     *)
(* selection, and what a lookup holds is of the present one where an       *)
(* answer for a former one would be taken for it.                          *)
(***************************************************************************)
WallInv ==
  /\ srv \in WallSrv /\ state \in WallSrv \cup {None}
  /\ \E nodes \in SUBSET Node : WallCells = GpusOf(nodes)

LookTypes ==
  /\ on = [w \in Names |-> on[w]] /\ data = [w \in Names |-> data[w]]
  /\ refused \in [Names -> BOOLEAN] /\ loading \in BOOLEAN
  /\ \A c \in calls : /\ c = [of |-> c.of, key |-> c.key, live |-> c.live]
                      /\ c.of \in Names /\ c.key # None

LiveInv    == \A c \in calls : c.live => c.key = on[c.of]
MountedInv == \A w \in Names : on[w] # None => w \in Mounted
SheetInv   == on["sheet"] = on["asset"]
ForgetInv  == \A w \in {"asset", "label", "card"} : data[w] \in {None, on[w]}
PairInv ==
  path = Explorer =>
    loading \/ data["pair"] = on["pair"] \/ (data["pair"] = None /\ refused["pair"])

LookInv == LookTypes /\ LiveInv /\ MountedInv /\ SheetInv /\ ForgetInv /\ PairInv

IInv == WallInv /\ LookInv

\* An answer in its place stays there as long as its selection does.
Keeps ==
  \A w \in Names :
    on'[w] = on[w] /\ on[w] # None /\ data[w] = on[w] =>
      data'[w] = on[w] \/ (w \in Explored /\ data'[w] = None /\ refused'[w])

-----------------------------------------------------------------------------
(* The board.                                                               *)

LEMMA PhaseStays ==
  ASSUME NEW s \in WallSrv
  PROVE  /\ \A p \in Phases : [s EXCEPT !.phase = p] \in WallSrv
         /\ \A S \in SUBSET Node : [s EXCEPT !.missing = S] \in WallSrv
         /\ \A S \in SUBSET Node : [s EXCEPT !.series = S] \in WallSrv
         /\ \A S \in SUBSET Gpu : [s EXCEPT !.faults = S] \in WallSrv
         /\ \A S \in SUBSET Gpu : [s EXCEPT !.hot = S] \in WallSrv
         /\ s.missing \in SUBSET Node /\ s.series \in SUBSET Node
BY DEF WallSrv

LEMMA IdleStays ==
  ASSUME NEW s \in WallSrv, NEW g \in DOMAIN s.idle
  PROVE  /\ \A v \in Verdicts : [s EXCEPT !.idle[g] = v] \in WallSrv
         /\ [s EXCEPT !.idle = Without(@, g)] \in WallSrv
<1>1. PICK S \in SUBSET Pooled : s.idle \in [S -> Verdicts]
  BY DEF WallSrv
<1>2. \A f : f \in [S -> Verdicts] \/ f \in [S \ {g} -> Verdicts] => [s EXCEPT !.idle = f] \in WallSrv
  BY DEF WallSrv
<1>3. \A v \in Verdicts : [s.idle EXCEPT ![g] = v] \in [S -> Verdicts]
  BY <1>1
<1>4. Without(s.idle, g) \in [S \ {g} -> Verdicts]
  BY <1>1 DEF Without
<1>5. \A v \in Verdicts : [s EXCEPT !.idle[g] = v] = [s EXCEPT !.idle = [s.idle EXCEPT ![g] = v]]
  BY DEF WallSrv
<1>6. [s EXCEPT !.idle = Without(@, g)] = [s EXCEPT !.idle = Without(s.idle, g)]
  BY DEF WallSrv
<1>. QED
  BY <1>2, <1>3, <1>4, <1>5, <1>6

\* What is mounted stays so while the page is the same, but for the first snapshot.
LEMMA MenuMounts ==
  ASSUME WallInv, MenuNext \/ Unauthorized, LeaveBoard(path')
  PROVE  WallInv' /\ (path' = path => Mounted \subseteq Mounted')
<1>1. demo # "unknown" => demo' = demo
  BY DEF MenuNext, StatusKnown, HomeRedirect, PathEffect, TogglePalette, SelectTop, Follow, SearchTo,
     Unauthorized, SignOff
<1>2. srv' = srv /\ state' \in {state, None} /\ cells' \in {cells, None}
  BY DEF LeaveBoard
<1>3. WallInv'
  <2>1. WallCells' = WallCells \/ WallCells' = GpusOf({})
    BY <1>2 DEF WallCells, GpusOf
  <2>2. \E nodes \in SUBSET Node : WallCells' = GpusOf(nodes)
    BY <2>1 DEF WallInv
  <2>. QED
    BY <1>2, <2>2 DEF WallInv, GpusOf
<1>4. ASSUME path' = path PROVE Mounted \subseteq Mounted'
  <2>1. path = Wall => state' = state
    BY <1>4 DEF LeaveBoard, Wall, Root
  <2>2. Home("chart") = Wall
    BY DEF Home
  <2>3. ASSUME NEW w \in Mounted PROVE w \in Mounted'
    BY <1>1, <1>4, <2>1, <2>2, <2>3 DEF Mounted, InDemo
  <2>. QED
    BY <2>3
<1>. QED
  BY <1>3, <1>4

LEMMA WallMounts ==
  ASSUME WallInv, WallNext
  PROVE  WallInv' /\ path' = path /\ Mounted \subseteq Mounted'
<1>1. path' = path /\ demo' = demo
  BY DEF WallNext, Turn, Lapse, FleetPoll, FleetPollFails, StatePoll, FilterBy, SetFilter,
     SeriesFollow, menuVars
<1>2. srv' \in WallSrv
  <2>1. CASE Turn
    <3>1. srv' \in BoardTurns \cup AgentTurns \cup IdleTurns
      BY <2>1 DEF Turn
    <3>2. AgentTurns \subseteq WallSrv
      BY PhaseStays DEF AgentTurns, WallInv
    <3>3. IdleTurns \subseteq WallSrv
      <4>2. IdleTurns = {[srv EXCEPT !.idle[g] = v] : g \in DOMAIN srv.idle, v \in Verdicts}
                        \cup {[srv EXCEPT !.idle = Without(@, g)] : g \in DOMAIN srv.idle}
        BY DEF IdleTurns
      <4>3. ASSUME NEW t \in IdleTurns PROVE t \in WallSrv
        <5>1. \/ \E g \in DOMAIN srv.idle : \E v \in Verdicts : t = [srv EXCEPT !.idle[g] = v]
              \/ \E g \in DOMAIN srv.idle : t = [srv EXCEPT !.idle = Without(@, g)]
          BY <4>2
        <5>2. ASSUME NEW g \in DOMAIN srv.idle, NEW v \in Verdicts, t = [srv EXCEPT !.idle[g] = v]
              PROVE  t \in WallSrv
          BY <5>2, IdleStays DEF WallInv
        <5>3. ASSUME NEW g \in DOMAIN srv.idle, t = [srv EXCEPT !.idle = Without(@, g)]
              PROVE  t \in WallSrv
          BY <5>3, IdleStays DEF WallInv
        <5>. QED
          BY <5>1, <5>2, <5>3, Zenon
      <4>. QED
        BY <4>3
    <3>4. BoardTurns \subseteq WallSrv
      BY <3>2, PhaseStays DEF BoardTurns, WallInv
    <3>. QED
      BY <3>1, <3>2, <3>3, <3>4
  <2>2. CASE \E n \in Node : SeriesFollow(n)
    <3>1. PICK n \in Node : srv' = [srv EXCEPT !.series = IF n \in srv.missing THEN srv.series \ {n}
                                                                ELSE srv.series \cup {n}]
      BY <2>2 DEF SeriesFollow, WallInv, WallSrv
    <3>. QED
      BY <3>1, PhaseStays DEF WallInv
  <2>. QED
    BY <2>1, <2>2 DEF WallNext, Lapse, FleetPoll, FleetPollFails, StatePoll, FilterBy, SetFilter, WallInv
<1>3. state' \in {state, srv} /\ (state # None => state' # None)
  BY ServerAssumption DEF WallNext, Turn, Lapse, FleetPoll, FleetPollFails, StatePoll, FilterBy,
                          SetFilter, SeriesFollow, WallInv
<1>4. cells' \in {cells, GpusOf(srv.series)}
  BY DEF WallNext, Turn, Lapse, FleetPoll, FleetPollFails, StatePoll, FilterBy, SetFilter, SeriesFollow
<1>5. \E nodes \in SUBSET Node : WallCells' = GpusOf(nodes)
  <2>1. WallCells' = WallCells \/ WallCells' = GpusOf(srv.series) \/ WallCells' = GpusOf({})
    BY <1>4 DEF WallCells, GpusOf
  <2>. QED
    BY <2>1, PhaseStays DEF WallInv
<1>6. Mounted \subseteq Mounted'
  BY <1>1, <1>3 DEF Mounted, InDemo
<1>. QED
  BY <1>1, <1>2, <1>3, <1>5, <1>6 DEF WallInv, GpusOf

-----------------------------------------------------------------------------
(* The lookups.                                                             *)

\* A cancelled call is the same but for that.
LEMMA CancelledIs ==
  ASSUME LookTypes, NEW d \in calls
  PROVE  [d EXCEPT !.live = FALSE] = [of |-> d.of, key |-> d.key, live |-> FALSE]
<1> DEFINE e == [d EXCEPT !.live = FALSE]
           R == [of : {d.of}, key : {d.key}, live : {d.live, FALSE}]
<1>1. d = [of |-> d.of, key |-> d.key, live |-> d.live]
  BY DEF LookTypes
<1>2. d \in R
  BY <1>1
<1>3. e \in R /\ e.live = FALSE
  BY <1>2
<1>. HIDE DEF e
<1>4. e = [of |-> e.of, key |-> e.key, live |-> e.live] /\ e.of = d.of /\ e.key = d.key
  BY <1>3
<1>. QED
  BY <1>3, <1>4 DEF e

\* An effect that selects, lookup by lookup.
LEMMA SelectIs ==
  ASSUME LookTypes, NEW ws \in SUBSET Names, NEW key, Select(ws, key)
  PROVE  /\ LookTypes'
         /\ \A w \in Names :
              /\ on'[w] = IF w \in ws THEN key ELSE on[w]
              /\ data'[w] = IF w \in ws /\ Forgets(w, key) THEN None ELSE data[w]
              /\ w \notin ws => refused'[w] = refused[w]
         /\ loading \/ ws \cap Explored # {} => loading'
         /\ \A c \in calls' : c.live => \/ c \in calls /\ c.of \notin ws
                                        \/ c.of \in ws /\ c.key = key
<1>1. /\ on' = [w \in Names |-> IF w \in ws THEN key ELSE on[w]]
      /\ data' = [w \in Names |-> IF w \in ws /\ Forgets(w, key) THEN None ELSE data[w]]
      /\ refused' = [w \in Names |-> refused[w] /\ ~(w \in ws /\ (Forgets(w, key) \/ w \in Explored))]
      /\ loading' = (loading \/ ws \cap Explored # {})
      /\ calls' = Cancelled(calls, ws) \cup {Call(w, key) : w \in {v \in ws : key # None}}
  BY DEF Select
<1>2. \A c \in calls' : \/ c \in calls /\ c.of \notin ws
                        \/ \E d \in calls : /\ d.of \in ws
                                            /\ c = [of |-> d.of, key |-> d.key, live |-> FALSE]
                        \/ \E w \in ws : key # None /\ c = [of |-> w, key |-> key, live |-> TRUE]
  <2>. QED
    BY <1>1, CancelledIs DEF Cancelled, Call
<1>3. \A w \in Names : /\ on'[w] = IF w \in ws THEN key ELSE on[w]
                       /\ data'[w] = IF w \in ws /\ Forgets(w, key) THEN None ELSE data[w]
                       /\ w \notin ws => refused'[w] = refused[w]
  <2>1. \A w \in Names : refused[w] \in BOOLEAN
    BY DEF LookTypes
  <2>. QED
    BY <1>1, <2>1
<1>4. on' = [w \in Names |-> on'[w]] /\ data' = [w \in Names |-> data'[w]]
  BY <1>1
<1>5. refused' \in [Names -> BOOLEAN] /\ loading' \in BOOLEAN
  BY <1>1
<1>6. \A c \in calls' : /\ c = [of |-> c.of, key |-> c.key, live |-> c.live]
                        /\ c.of \in Names /\ c.key # None
  BY <1>2 DEF LookTypes
<1>7. LookTypes'
  BY <1>4, <1>5, <1>6 DEF LookTypes
<1>8. loading \/ ws \cap Explored # {} => loading'
  BY <1>1
<1>9. \A c \in calls' : c.live => \/ c \in calls /\ c.of \notin ws
                                  \/ c.of \in ws /\ c.key = key
  BY <1>2
<1>. QED
  BY <1>3, <1>7, <1>8, <1>9

LEMMA SameMounted == UNCHANGED <<path, demo, state>> => Mounted' = Mounted
BY DEF Mounted, InDemo

\* Nothing is selected again that is selected, and only what is mounted.
LEMMA SelectKeeps ==
  ASSUME LookInv, UNCHANGED <<path, demo, state>>, NEW ws \in SUBSET Names, NEW key, Select(ws, key),
         ws \subseteq Mounted \/ key = None, "sheet" \in ws <=> "asset" \in ws,
         \A w \in ws : on[w] # key \/ on[w] = None
  PROVE  LookInv' /\ Keeps
<1>1. /\ LookTypes'
      /\ \A w \in Names :
           /\ on'[w] = IF w \in ws THEN key ELSE on[w]
           /\ data'[w] = IF w \in ws /\ Forgets(w, key) THEN None ELSE data[w]
           /\ w \notin ws => refused'[w] = refused[w]
      /\ loading \/ ws \cap Explored # {} => loading'
      /\ \A c \in calls' : c.live => \/ c \in calls /\ c.of \notin ws
                                     \/ c.of \in ws /\ c.key = key
  BY SelectIs DEF LookInv
<1>2. LiveInv'
  BY <1>1 DEF LookInv, LiveInv, LookTypes
<1>3. MountedInv'
  BY <1>1, SameMounted DEF LookInv, MountedInv
<1>4. SheetInv'
  BY <1>1 DEF LookInv, SheetInv, Names, OfNodes
<1>5. ForgetInv'
  BY <1>1 DEF LookInv, ForgetInv, Names, OfNodes, Polled, Forgets, Directory
<1>6. PairInv'
  <2>1. "pair" \in Names /\ Explored = {"pair"}
    BY DEF Names, Explored
  <2>2. CASE "pair" \in ws
    BY <1>1, <2>1, <2>2 DEF PairInv
  <2>3. CASE "pair" \notin ws
    BY <1>1, <2>1, <2>3 DEF LookInv, PairInv
  <2>. QED
    BY <2>2, <2>3
<1>7. Keeps
  BY <1>1 DEF Keeps
<1>. QED
  BY <1>1, <1>2, <1>3, <1>4, <1>5, <1>6, <1>7 DEF LookInv

\* An answer of a call that is not cancelled is of what is selected.
LEMMA AnswerKeeps ==
  ASSUME LookInv, NEW c \in calls, Answered(c) \/ Refused(c) \/ Denied(c)
  PROVE  LookInv' /\ Keeps /\ UNCHANGED <<path, srv, cells, state>>
<1>1. /\ c.of \in Names /\ c.key # None /\ (c.live => c.key = on[c.of])
      /\ on = [w \in Names |-> on[w]] /\ data = [w \in Names |-> data[w]]
      /\ refused \in [Names -> BOOLEAN] /\ loading \in BOOLEAN
  BY DEF LookInv, LookTypes, LiveInv
<1>2. UNCHANGED <<on, path, demo, srv, cells, state>> /\ calls' = calls \ {c}
  BY DEF Answered, Refused, Denied, menuVars, wallVars
<1>3. \/ UNCHANGED <<data, refused, loading>>
      \/ /\ c.live /\ data' = [data EXCEPT ![c.of] = c.key]
         /\ refused' = [refused EXCEPT ![c.of] = FALSE]
         /\ loading' = (loading /\ c.of \notin Explored)
      \/ /\ c.live /\ c.of \in Explored /\ data' = [data EXCEPT ![c.of] = None]
         /\ refused' = [refused EXCEPT ![c.of] = TRUE]
         /\ loading' = (loading /\ c.of \notin Explored)
      \/ /\ c.live /\ c.of \notin Explored /\ data' = [data EXCEPT ![c.of] = data[c.of]]
         /\ refused' = [refused EXCEPT ![c.of] = TRUE]
         /\ loading' = (loading /\ c.of \notin Explored)
      \/ /\ c.of \notin Explored /\ UNCHANGED <<data, loading>>
         /\ refused' = [refused EXCEPT ![c.of] = FALSE]
  BY DEF Answered, Refused, Denied, Answers, RefusedAfter, Directory, Explored
<1>4. \A w \in Names : w # c.of => data'[w] = data[w] /\ refused'[w] = refused[w]
  BY <1>1, <1>3
<1>5. \/ UNCHANGED <<data, refused, loading>>
      \/ c.live /\ data'[c.of] = on[c.of]
      \/ c.of \in Explored /\ data'[c.of] = None /\ refused'[c.of]
      \/ c.of \notin Explored /\ data'[c.of] = data[c.of]
  BY <1>1, <1>3
<1>6. c.of \notin Explored => loading' = loading
  BY <1>1, <1>3
<1>7. LookTypes'
  <2>1. /\ data' = [w \in Names |-> data'[w]]
        /\ refused' \in [Names -> BOOLEAN]
    BY <1>1, <1>3
  <2>2. loading' \in BOOLEAN
    BY <1>1, <1>3
  <2>. QED
    BY <1>1, <1>2, <2>1, <2>2 DEF LookInv, LookTypes
<1>8. LiveInv' /\ SheetInv'
  BY <1>2 DEF LookInv, LiveInv, SheetInv
<1>9. MountedInv'
  BY <1>2, SameMounted DEF LookInv, MountedInv
<1>10. ForgetInv'
  BY <1>2, <1>4, <1>5 DEF LookInv, ForgetInv, Names, OfNodes, Polled, Explored
<1>11. PairInv'
  <2>1. "pair" \in Names /\ Explored = {"pair"}
    BY DEF Names, Explored
  <2>2. CASE c.of = "pair"
    BY <1>2, <1>5, <2>1, <2>2 DEF LookInv, PairInv
  <2>3. CASE c.of # "pair"
    BY <1>2, <1>4, <1>6, <2>1, <2>3 DEF LookInv, PairInv
  <2>. QED
    BY <2>2, <2>3
<1>12. Keeps
  BY <1>4, <1>5 DEF Keeps
<1>. QED
  BY <1>2, <1>7, <1>8, <1>9, <1>10, <1>11, <1>12 DEF LookInv

LEMMA TickKeeps ==
  ASSUME LookInv, NEW w \in Names, Tick(w)
  PROVE  LookInv' /\ Keeps /\ UNCHANGED <<path, srv, cells, state>>
<1>1. /\ UNCHANGED <<path, demo, srv, cells, state, on, data, refused, loading>> /\ on[w] # None
      /\ calls' = calls \cup {[of |-> w, key |-> on[w], live |-> TRUE]}
  BY DEF Tick, menuVars, wallVars, Call
<1>2. LookTypes' /\ LiveInv'
  BY <1>1 DEF LookInv, LookTypes, LiveInv
<1>3. MountedInv'
  BY <1>1, SameMounted DEF LookInv, MountedInv
<1>. QED
  BY <1>1, <1>2, <1>3 DEF LookInv, SheetInv, ForgetInv, PairInv, Keeps

-----------------------------------------------------------------------------
(* Mounting.                                                                *)

\* The sheet and its entry in the directory are mounted together.
LEMMA SheetMounts == "sheet" \in Mounted <=> "asset" \in Mounted
BY DEF Mounted, Home, Names, OfNodes, Polled, Explored

\* A route mounts what it reaches anew and keeps, on the same page, what was there.
LEMMA MountKeeps ==
  ASSUME LookInv, Remounts, path' = path => Mounted \subseteq Mounted'
  PROVE  LookInv' /\ Keeps
<1> DEFINE keep == Keep
           new  == Mounted' \ Keep
<1>1. /\ on' = [w \in Names |-> IF w \in new THEN First(w) ELSE IF w \in keep THEN on[w] ELSE None]
      /\ data' = [w \in Names |-> IF w \in keep THEN data[w] ELSE None]
      /\ refused' = [w \in Names |-> w \in keep /\ refused[w]]
      /\ calls' = Cancelled(calls, Names \ keep) \cup Asks(new)
      /\ loading' = ("pair" \in new \/ ("pair" \in keep /\ loading))
  BY DEF Remounts, Mount
<1>2. /\ keep \subseteq Mounted' /\ new \subseteq Mounted' /\ Mounted' \subseteq Names
      /\ keep = IF path' = path THEN Mounted ELSE {}
      /\ \A w : w \in Mounted' => w \in keep \/ w \in new
      /\ \A w \in new : w \notin keep
  BY DEF Keep, Mounted
<1>3. \A w \in new : on[w] = None
  <2>. SUFFICES ASSUME NEW w \in new, on[w] # None PROVE FALSE
    OBVIOUS
  <2>1. w \in Mounted /\ w \in Mounted' /\ w \notin keep
    BY <1>2 DEF LookInv, MountedInv
  <2>2. path' # path
    BY <1>2, <2>1
  <2>3. Home(w) = path /\ Home(w) = path'
    BY <2>1 DEF Mounted, Home
  <2>. QED
    BY <2>2, <2>3
<1>4. /\ ("sheet" \in keep <=> "asset" \in keep) /\ ("sheet" \in new <=> "asset" \in new)
      /\ path' = Explorer => "pair" \in new \/ ("pair" \in keep /\ path = Explorer)
  <2>1. "sheet" \in Mounted' <=> "asset" \in Mounted'
    BY DEF Mounted, Home, Names, OfNodes, Polled, Explored
  <2>2. path' = Explorer => "pair" \in Mounted'
    BY DEF Mounted, Home, Names, OfNodes, Explored
  <2>. QED
    BY <1>2, <2>1, <2>2, SheetMounts
<1>. HIDE DEF keep, new
<1>5. \A w \in Names : /\ on'[w] = IF w \in new THEN First(w) ELSE IF w \in keep THEN on[w] ELSE None
                       /\ data'[w] = IF w \in keep THEN data[w] ELSE None
                       /\ w \in keep => refused'[w] = refused[w]
  <2>1. \A w \in Names : refused[w] \in BOOLEAN
    BY DEF LookInv, LookTypes
  <2>. QED
    BY <1>1, <2>1
<1>6. \A c \in calls' : \/ c \in calls /\ c.of \notin Names \ keep
                        \/ \E d \in calls : c = [of |-> d.of, key |-> d.key, live |-> FALSE]
                        \/ \E w \in new : /\ First(w) # None
                                          /\ c = [of |-> w, key |-> First(w), live |-> TRUE]
  <2>2. \A c \in Asks(new) : \E w \in new : /\ First(w) # None
                                            /\ c = [of |-> w, key |-> First(w), live |-> TRUE]
    BY DEF Asks, Call
  <2>3. \A c \in Cancelled(calls, Names \ keep) :
          \/ c \in calls /\ c.of \notin Names \ keep
          \/ \E d \in calls : c = [of |-> d.of, key |-> d.key, live |-> FALSE]
    BY CancelledIs DEF Cancelled, LookInv
  <2>. QED
    BY <1>1, <2>2, <2>3
<1>7. LookTypes'
  <2>1. on' = [w \in Names |-> on'[w]] /\ data' = [w \in Names |-> data'[w]]
    BY <1>1
  <2>2. refused' \in [Names -> BOOLEAN]
    BY <1>1
  <2>3. loading' \in BOOLEAN
    BY <1>1
  <2>4. \A c \in calls' : /\ c = [of |-> c.of, key |-> c.key, live |-> c.live]
                          /\ c.of \in Names /\ c.key # None
    BY <1>2, <1>6 DEF LookInv, LookTypes
  <2>. QED
    BY <2>1, <2>2, <2>3, <2>4 DEF LookTypes
<1>8. LiveInv'
  <2>. SUFFICES ASSUME NEW c \in calls', c.live PROVE c.key = on'[c.of]
    BY DEF LiveInv
  <2>1. c.of \in Names
    BY <1>7 DEF LookTypes
  <2>2. CASE c \in calls /\ c.of \notin Names \ keep
    <3>1. c.of \in keep /\ c.of \notin new /\ c.key = on[c.of]
      BY <1>2, <2>1, <2>2 DEF LookInv, LiveInv
    <3>. QED
      BY <1>5, <2>1, <3>1
  <2>3. CASE \E w \in new : c = [of |-> w, key |-> First(w), live |-> TRUE]
    BY <1>5, <2>1, <2>3
  <2>. QED
    BY <1>6, <2>2, <2>3
<1>9. MountedInv'
  BY <1>2, <1>5 DEF MountedInv
<1>10. SheetInv'
  <2>1. {"sheet", "asset"} \subseteq Names /\ First("sheet") = None /\ First("asset") = None
    BY DEF Names, OfNodes, First
  <2>. QED
    BY <1>4, <1>5, <2>1 DEF LookInv, SheetInv
<1>11. ForgetInv'
  <2>1. {"asset", "label", "card"} \subseteq Names
    BY DEF Names, OfNodes, Polled
  <2>. QED
    BY <1>2, <1>5, <2>1 DEF LookInv, ForgetInv
<1>12. PairInv'
  <2>1. "pair" \in Names
    BY DEF Names, Explored
  <2>2. CASE "pair" \in new
    BY <1>1, <2>2 DEF PairInv
  <2>3. CASE "pair" \in keep /\ path = Explorer
    <3>1. "pair" \notin new
      BY <1>2, <2>3
    <3>2. loading' = loading
      BY <1>1, <2>3, <3>1 DEF LookInv, LookTypes
    <3>. QED
      BY <1>5, <2>1, <2>3, <3>1, <3>2 DEF LookInv, PairInv
  <2>. QED
    BY <1>4, <2>2, <2>3 DEF PairInv
<1>13. Keeps
  BY <1>2, <1>3, <1>5 DEF Keeps
<1>. QED
  BY <1>7, <1>8, <1>9, <1>10, <1>11, <1>12, <1>13 DEF LookInv

-----------------------------------------------------------------------------
(* Steps.                                                                   *)

\* Every effect of a selection asks for something else than before.
LEMMA LookKeeps ==
  ASSUME IInv, LookNext
  PROVE  LookInv' /\ Keeps /\ UNCHANGED <<path, srv, cells, state>>
<1>0. LookInv
  BY DEF IInv
<1>1. ASSUME NEW c \in calls, Answered(c) \/ Refused(c) \/ Denied(c)
      PROVE  LookInv' /\ Keeps /\ UNCHANGED <<path, srv, cells, state>>
  BY <1>0, <1>1, AnswerKeeps
<1>2. ASSUME NEW w \in Names, Tick(w)
      PROVE  LookInv' /\ Keeps /\ UNCHANGED <<path, srv, cells, state>>
  BY <1>0, <1>2, TickKeeps
<1>3. {"pair", "panel", "sheet", "asset", "chart"} \subseteq Names
  BY DEF Names, Explored, OfNodes, Polled
<1>4. \A s : Explore(s) => LookInv' /\ Keeps /\ UNCHANGED <<path, srv, cells, state>>
  <2>. SUFFICES ASSUME NEW s, Explore(s)
                PROVE  LookInv' /\ Keeps /\ UNCHANGED <<path, srv, cells, state>>
    OBVIOUS
  <2>1. UNCHANGED <<path, demo, srv, cells, state>> /\ Select({"pair"}, s) /\ on["pair"] # s
    BY DEF Explore, Chosen, wallVars
  <2>2. "pair" \in Mounted
    BY <1>3 DEF Explore, Mounted, Home, OfNodes
  <2>. QED
    BY <1>0, <1>3, <2>1, <2>2, SelectKeeps
<1>5. \A t : ChartTab(t) => LookInv' /\ Keeps /\ UNCHANGED <<path, srv, cells, state>>
  <2>. SUFFICES ASSUME NEW t, ChartTab(t)
                PROVE  LookInv' /\ Keeps /\ UNCHANGED <<path, srv, cells, state>>
    OBVIOUS
  <2>1. /\ UNCHANGED <<path, demo, srv, cells, state>> /\ Select({"chart"}, t) /\ on["chart"] # t
        /\ "chart" \in Mounted
    BY DEF ChartTab, Chosen, wallVars
  <2>. QED
    BY <1>0, <1>3, <2>1, SelectKeeps
<1>6. \A n : PickNode(n) => LookInv' /\ Keeps /\ UNCHANGED <<path, srv, cells, state>>
  <2>. SUFFICES ASSUME NEW n, PickNode(n)
                PROVE  LookInv' /\ Keeps /\ UNCHANGED <<path, srv, cells, state>>
    OBVIOUS
  <2> DEFINE key == IF on["panel"] = n THEN None ELSE n
  <2>1. /\ UNCHANGED <<path, demo, srv, cells, state>> /\ Select({"panel"}, key)
        /\ on["panel"] # key \/ on["panel"] = None
    BY DEF PickNode, Chosen, wallVars
  <2>2. "panel" \in Mounted
    <3>1. path = Wall /\ demo = "on"
      BY DEF PickNode, Graphed, OnBoard, InDemo
    <3>2. Home("panel") = Wall
      BY DEF Home
    <3>. QED
      BY <1>3, <3>1, <3>2 DEF Mounted, InDemo
  <2>. HIDE DEF key
  <2>. QED
    BY <1>0, <1>3, <2>1, <2>2, SelectKeeps
<1>7. \A n : OpenSheet(n) => LookInv' /\ Keeps /\ UNCHANGED <<path, srv, cells, state>>
  <2>. SUFFICES ASSUME NEW n, OpenSheet(n)
                PROVE  LookInv' /\ Keeps /\ UNCHANGED <<path, srv, cells, state>>
    OBVIOUS
  <2>1. /\ UNCHANGED <<path, demo, srv, cells, state>> /\ Select({"sheet", "asset"}, n)
        /\ on["sheet"] = None /\ on["asset"] = None /\ "sheet" \in Mounted
    BY <1>0 DEF OpenSheet, Chosen, wallVars, LookInv, SheetInv
  <2>. QED
    BY <1>0, <1>3, <2>1, SheetMounts, SelectKeeps
<1>8. CloseSheet => LookInv' /\ Keeps /\ UNCHANGED <<path, srv, cells, state>>
  <2>. SUFFICES ASSUME CloseSheet
                PROVE  LookInv' /\ Keeps /\ UNCHANGED <<path, srv, cells, state>>
    OBVIOUS
  <2>1. UNCHANGED <<path, demo, srv, cells, state>> /\ Select({"sheet", "asset"}, None)
    BY DEF CloseSheet, Chosen, wallVars
  <2>2. \A w \in {"sheet", "asset"} : on[w] # None \/ on[w] = None
    OBVIOUS
  <2>. QED
    BY <1>0, <1>3, <2>1, <2>2, SelectKeeps
<1>9. \A all : ClearGraph(all) => LookInv' /\ Keeps /\ UNCHANGED <<path, srv, cells, state>>
  <2>. SUFFICES ASSUME NEW all, ClearGraph(all)
                PROVE  LookInv' /\ Keeps /\ UNCHANGED <<path, srv, cells, state>>
    OBVIOUS
  <2>1. UNCHANGED <<path, demo, srv, cells, state>> /\ Select({"panel"}, None)
    BY DEF ClearGraph, Chosen, wallVars
  <2>. QED
    BY <1>0, <1>3, <2>1, SelectKeeps
<1>10. ASSUME UNCHANGED <<path, demo, srv, cells, state, on, data, refused, loading, calls>>
       PROVE  LookInv' /\ Keeps
  <2>1. MountedInv'
    BY <1>0, <1>10, SameMounted DEF LookInv, MountedInv
  <2>. QED
    BY <1>0, <1>10, <2>1 DEF LookInv, LookTypes, LiveInv, SheetInv, ForgetInv, PairInv, Keeps
<1>11. ASSUME NEW g, DrillGpu(g) \/ DrillCsp(g)
       PROVE  LookInv' /\ Keeps /\ UNCHANGED <<path, srv, cells, state>>
  BY <1>10, <1>11 DEF DrillGpu, DrillCsp, Chosen, wallVars
<1>. QED
  BY <1>1, <1>2, <1>4, <1>5, <1>6, <1>7, <1>8, <1>9, <1>11 DEF LookNext

LEMMA SameLook ==
  ASSUME LookInv, UNCHANGED lookVars, UNCHANGED <<path, demo, state>>
  PROVE  LookInv' /\ Keeps
<1>1. MountedInv'
  BY SameMounted DEF LookInv, MountedInv, lookVars
<1>. QED
  BY <1>1 DEF LookInv, LookTypes, LiveInv, SheetInv, ForgetInv, PairInv, Keeps, lookVars

LEMMA SameWall == WallInv /\ UNCHANGED <<srv, cells, state>> => WallInv'
BY DEF WallInv, WallCells, GpusOf

LEMMA DetailsKeep ==
  ASSUME IInv, DetailsNext
  PROVE  LookInv' /\ Keeps /\ UNCHANGED <<path, srv, cells, state>>
<1>1. LookInv
  BY DEF IInv
<1>2. CASE Effects
  <2>1. PICK w \in {"card", "label"}, key \in {BrowserGpu, DrawerNode} : Follows(w, key)
    BY <1>2 DEF Effects
  <2>2. /\ UNCHANGED <<path, demo, srv, cells, state>> /\ Select({w}, key) /\ on[w] # key
        /\ w \in Mounted /\ w \in Names
    BY <2>1 DEF Follows, menuVars, wallVars, Names, OfNodes, Polled
  <2>. QED
    BY <1>1, <2>2, SelectKeeps
<1>3. CASE UNCHANGED lookVars /\ UNCHANGED <<path, demo, srv, cells, state>>
  BY <1>1, <1>3, SameLook
<1>. QED
  BY <1>2, <1>3 DEF DetailsNext, PickInstance, PickDevice, OpenDrawer, CloseDrawer, Selected, wallVars

LEMMA InvInit == ViewsInit => IInv
<1>. SUFFICES ASSUME ViewsInit PROVE IInv
  OBVIOUS
<1>1. WallInv
  <2>1. [g \in Pooled |-> "idle"] \in [Pooled -> Verdicts]
    BY DEF Verdicts
  <2>2. srv \in WallSrv
    BY <2>1 DEF ViewsInit, WallInit, WallSrv, Phases
  <2>3. WallCells = GpusOf({}) /\ state = None
    BY DEF ViewsInit, WallInit, WallCells, GpusOf
  <2>. QED
    BY <2>2, <2>3 DEF WallInv
<1>2. /\ on = [w \in Names |-> IF w \in Mounted THEN First(w) ELSE None]
      /\ data = [w \in Names |-> None] /\ refused = [w \in Names |-> FALSE]
      /\ calls = Asks(Mounted) /\ loading = ("pair" \in Mounted)
  BY DEF ViewsInit, LookInit
<1>3. \A c \in calls : \E w \in Mounted : /\ First(w) # None
                                          /\ c = [of |-> w, key |-> First(w), live |-> TRUE]
  BY <1>2 DEF Asks, Call
<1>4. Mounted \subseteq Names
  BY DEF Mounted
<1>5. LookTypes /\ LiveInv
  BY <1>2, <1>3, <1>4 DEF LookTypes, LiveInv
<1>6. MountedInv /\ ForgetInv
  BY <1>2 DEF MountedInv, ForgetInv, Names, OfNodes, Polled
<1>7. SheetInv
  <2>1. {"sheet", "asset"} \subseteq Names /\ First("sheet") = None /\ First("asset") = None
    BY DEF Names, OfNodes, First
  <2>. QED
    BY <1>2, <2>1 DEF SheetInv
<1>8. PairInv
  <2>1. path = Explorer => "pair" \in Mounted
    BY DEF Mounted, Home, Names, OfNodes, Explored
  <2>. QED
    BY <1>2, <2>1 DEF PairInv
<1>. QED
  BY <1>1, <1>5, <1>6, <1>7, <1>8 DEF IInv, LookInv

LEMMA InvStep == IInv /\ [Next]_vars => IInv' /\ Keeps
<1>. SUFFICES ASSUME IInv, [Next]_vars PROVE IInv' /\ Keeps
  OBVIOUS
<1>1. WallInv /\ LookInv
  BY DEF IInv
<1>2. CASE (MenuNext \/ Unauthorized) /\ Routed
  BY <1>1, <1>2, MenuMounts, MountKeeps DEF Routed, IInv
<1>3. CASE WallNext /\ Rendered
  BY <1>1, <1>3, WallMounts, MountKeeps DEF Rendered, IInv
<1>4. CASE TableNext /\ DrawerGpu = None /\ UNCHANGED <<lookVars, detailVars>>
  <2>1. UNCHANGED <<path, demo, srv, cells, state>>
    BY <1>4 DEF TableNext, Edit, TurnPage, SetTable, wallVars
  <2>. QED
    BY <1>1, <1>4, <2>1, SameLook, SameWall DEF IInv
<1>5. CASE LookNext /\ UNCHANGED detailVars
  BY <1>1, <1>5, LookKeeps, SameWall DEF IInv
<1>6. CASE DetailsNext
  BY <1>1, <1>6, DetailsKeep, SameWall DEF IInv
<1>7. CASE UNCHANGED vars
  <2>1. UNCHANGED lookVars /\ UNCHANGED <<path, demo, srv, cells, state>>
    BY <1>7 DEF vars, menuVars, wallVars
  <2>. QED
    BY <1>1, <2>1, SameLook, SameWall DEF IInv
<1>. QED
  BY <1>2, <1>3, <1>4, <1>5, <1>6, <1>7 DEF Next

\* The inductive invariant holds of every behaviour of the screens.
LEMMA Invariance == Spec => []IInv
<1>1. IInv /\ [Next]_vars => IInv'
  BY InvStep
<1>. QED
  BY <1>1, InvInit, PTL DEF Spec

-----------------------------------------------------------------------------
\* THEOREM: an answer for a former selection never takes the place of the present one's,
\* on any screen; the explorer at rest shows what is selected or has an error in its place;
\* the cards of the health browser are of the GPU its selectors show.
THEOREM AnswersAreOfTheSelection == Spec => AnswersKeepToSelection
<1>1. IInv /\ [Next]_vars =>
        [\A w \in Names : on'[w] = on[w] /\ on[w] # None /\ data[w] = on[w] =>
           data'[w] = on[w] \/ (w \in Explored /\ data'[w] = None /\ refused'[w])]_lookVars
  BY InvStep DEF Keeps
<1>2. IInv => (path = Explorer /\ ~loading =>
                 \/ PairDrawn = on["pair"]
                 \/ PairDrawn = None /\ refused["pair"])
  BY DEF IInv, LookInv, PairInv, PairDrawn
<1>3. IInv => (Browsing => CardDrawn \in {None, BrowserGpu})
  BY DEF IInv, LookInv, ForgetInv, CardDrawn
<1>. QED
  BY <1>1, <1>2, <1>3, Invariance, PTL DEF Spec, AnswersKeepToSelection

-----------------------------------------------------------------------------
(* Sums over finite sets: the parts of a finite set add up to it.            *)

LEMMA LeastNat ==
  ASSUME NEW S \in SUBSET Nat, S # {}
  PROVE  \E n \in S : \A m \in S : n <= m
<1> DEFINE R == {p \in Nat \X Nat : p[1] < p[2]}
<1>1. IsWellFoundedOn(R, Nat)
  BY NatLessThanWellFounded DEF OpToRel
<1>. HIDE DEF R
<1>2. PICK n \in S : \A m \in S : <<m, n>> \notin R
  BY <1>1, WFMin
<1>3. ASSUME NEW m \in S PROVE n <= m
  <2>1. m \in Nat /\ n \in Nat /\ <<m, n>> \notin R
    BY <1>2
  <2>2. ~ (m < n)
    BY <2>1 DEF R
  <2>. QED
    BY <2>1, <2>2
<1>. QED
  BY <1>3

LEMMA DisjointUnion ==
  ASSUME NEW A, IsFiniteSet(A), NEW B, IsFiniteSet(B), A \cap B = {}
  PROVE  Cardinality(A \cup B) = Cardinality(A) + Cardinality(B)
<1>1. Cardinality(A \cup B) = Cardinality(A) + Cardinality(B) - Cardinality(A \cap B)
  BY FS_Union
<1>2. Cardinality(A) \in Nat /\ Cardinality(B) \in Nat
  BY FS_CardinalityType
<1>3. Cardinality(A \cap B) = 0
  BY FS_EmptySet
<1>. QED
  BY <1>1, <1>2, <1>3

\* How many of S the function part puts at a key of s.
Share(S, part, s) == Cardinality({x \in S : part[x] \in s})

LEMMA ShareIs ==
  ASSUME NEW S, IsFiniteSet(S), NEW part
  PROVE  Share(S, part, {}) = 0 /\ \A s : Share(S, part, s) \in Nat
<1>1. \A s : IsFiniteSet({x \in S : part[x] \in s})
  BY FS_Subset
<1>. QED
  BY <1>1, FS_EmptySet, FS_CardinalityType DEF Share

LEMMA ShareAdds ==
  ASSUME NEW S, IsFiniteSet(S), NEW part, NEW s, NEW k \in s
  PROVE  Share(S, part, s) = Cardinality({x \in S : part[x] = k}) + Share(S, part, s \ {k})
<1> DEFINE A == {x \in S : part[x] = k}
           B == {x \in S : part[x] \in s \ {k}}
<1>1. IsFiniteSet(A) /\ IsFiniteSet(B)
  BY FS_Subset
<1>2. A \cap B = {} /\ {x \in S : part[x] \in s} = A \cup B
  OBVIOUS
<1>3. Cardinality(A \cup B) = Cardinality(A) + Cardinality(B)
  <2>. HIDE DEF A, B
  <2>. QED
    BY <1>1, <1>2, DisjointUnion
<1>. QED
  BY <1>2, <1>3 DEF Share

\* The parts of a finite set add up to it.
LEMMA SumOfParts ==
  ASSUME NEW S, IsFiniteSet(S), NEW K, IsFiniteSet(K),
         NEW part, \A x \in S : part[x] \in K,
         NEW f, DOMAIN f = K, \A k \in K : f[k] = Cardinality({x \in S : part[x] = k})
  PROVE  SumFunction(f) = Cardinality(S)
<1> DEFINE one(s) == CHOOSE x \in s : TRUE
           next(g, s) == IF s = {} THEN 0 ELSE f[one(s)] + g[s \ {one(s)}]
           Unfolds(g) == g = [s \in SUBSET K |-> next(g, s)]
           h == [s \in SUBSET K |-> Share(S, part, s)]
\* The sum is what a function on the sets of keys gives, one key after the other.
<1>1. \E iter : iter = (CHOOSE g : Unfolds(g)) /\ SumFunction(f) = iter[K]
  BY DEF SumFunction, SumFunctionOnSet, FoldFunctionOnSet, MapThenFoldSet
<1>2. \A s \in SUBSET K : s # {} => one(s) \in s /\ one(s) \in K /\ s \ {one(s)} \in SUBSET K
  OBVIOUS
<1>. HIDE DEF one
<1>3. \A s \in SUBSET K : h[s] = next(h, s)
  <2>1. ASSUME NEW s \in SUBSET K, s # {}
        PROVE  h[s] = f[one(s)] + h[s \ {one(s)}]
    <3>1. Share(S, part, s)
          = Cardinality({x \in S : part[x] = one(s)}) + Share(S, part, s \ {one(s)})
      BY <1>2, <2>1, ShareAdds
    <3>. QED
      BY <1>2, <2>1, <3>1
  <2>2. h[{}] = 0
    BY ShareIs
  <2>. QED
    BY <2>1, <2>2
<1>4. Unfolds(h)
  <2>1. h = [s \in SUBSET K |-> h[s]]
    OBVIOUS
  <2>. HIDE DEF h, next
  <2>. QED
    BY <1>3, <2>1
<1>5. \A s \in SUBSET K : h[s] \in Nat
  BY ShareIs
<1>. HIDE DEF h
<1>6. ASSUME NEW g, Unfolds(g), NEW s \in SUBSET K
      PROVE  g[s] = h[s]
  <2> DEFINE bad == {Cardinality(r) : r \in {q \in SUBSET K : g[q] # h[q]}}
  <2>. SUFFICES ASSUME g[s] # h[s] PROVE FALSE
    OBVIOUS
  <2>1. \A r \in SUBSET K : IsFiniteSet(r) /\ Cardinality(r) \in Nat
    BY FS_Subset, FS_CardinalityType
  <2>2. bad \in SUBSET Nat /\ bad # {}
    BY <2>1
  <2>3. PICK r \in SUBSET K : /\ g[r] # h[r]
                              /\ \A q \in SUBSET K : g[q] # h[q] => Cardinality(r) <= Cardinality(q)
    <3>1. PICK n \in bad : \A m \in bad : n <= m
      BY <2>2, LeastNat
    <3>. QED
      BY <3>1
  <2>4. g[r] = next(g, r) /\ h[r] = next(h, r)
    BY <1>3, <1>6
  <2>5. r # {} /\ g[r \ {one(r)}] # h[r \ {one(r)}]
    BY <2>3, <2>4
  <2>6. Cardinality(r \ {one(r)}) = Cardinality(r) - 1
    BY <1>2, <2>1, <2>5, FS_RemoveElement
  <2>7. Cardinality(r) <= Cardinality(r \ {one(r)})
    BY <1>2, <2>3, <2>5
  <2>8. Cardinality(r) \in Nat
    BY <2>1
  <2>. QED
    BY <2>6, <2>7, <2>8
<1>7. PICK iter : iter = (CHOOSE g : Unfolds(g)) /\ SumFunction(f) = iter[K]
  BY <1>1
<1>. HIDE DEF Unfolds
<1>8. Unfolds(iter)
  BY <1>4, <1>7
<1>9. SumFunction(f) = h[K]
  BY <1>6, <1>7, <1>8
<1>10. {x \in S : part[x] \in K} = S
  OBVIOUS
<1>. QED
  BY <1>9, <1>10 DEF Share, h

\* ... and those at some of the keys add up to what is at those.
LEMMA SumOfSome ==
  ASSUME NEW S, IsFiniteSet(S), NEW K, IsFiniteSet(K), NEW part,
         NEW f, DOMAIN f = K, \A k \in K : f[k] = Cardinality({x \in S : part[x] = k})
  PROVE  SumFunction(f) = Cardinality({x \in S : part[x] \in K})
<1> DEFINE T == {x \in S : part[x] \in K}
<1>1. IsFiniteSet(T) /\ \A x \in T : part[x] \in K
  BY FS_Subset
<1>2. \A k \in K : {x \in S : part[x] = k} = {x \in T : part[x] = k}
  OBVIOUS
<1>3. \A k \in K : f[k] = Cardinality({x \in T : part[x] = k})
  BY <1>2
<1>. HIDE DEF T
<1>4. SumFunction(f) = Cardinality(T)
  BY <1>1, <1>3, SumOfParts
<1>. QED
  BY <1>4 DEF T

-----------------------------------------------------------------------------
(* The figures of the board.                                               *)

Values ==
  {All} \cup Workloads \cup Statuses \cup Severities \cup {LabelOf[x][g] : x \in Axes, g \in Gpu}

FilterInv == filter \in [Fields -> Values]

\* The cells are those of whole nodes, and what is missing is added by nodes.
LEMMA OneCell ==
  ASSUME WallInv, NEW g \in Gpu
  PROVE  Cardinality({c \in Merged : c.gpu = g})
         = IF g \in WallCells \cup MissingGpus THEN 1 ELSE 0
<1>1. PICK nodes \in SUBSET Node : WallCells = GpusOf(nodes)
  BY DEF WallInv
<1>2. g \in WallCells <=> NodeOf[g] \in Present
  BY <1>1 DEF GpusOf, Present
<1> DEFINE R(h) == [gpu |-> h, measured |-> TRUE]
           M(h) == [gpu |-> h, measured |-> FALSE]
           added == {h \in MissingGpus : NodeOf[h] \notin Present}
<1>3. {c \in Merged : c.gpu = g}
      = (IF g \in WallCells THEN {R(g)} ELSE {}) \cup (IF g \in added THEN {M(g)} ELSE {})
  <2>1. ASSUME NEW c \in Real PROVE c = R(c.gpu)
    BY Zenon DEF Real
  <2>2. ASSUME NEW c \in Synthetic(Present) PROVE c = M(c.gpu)
    BY Zenon DEF Synthetic
  <2>3. ASSUME NEW c \in Real PROVE c.gpu \in WallCells
    BY DEF Real
  <2>4. ASSUME NEW c \in Synthetic(Present) PROVE c.gpu \in added
    BY DEF Synthetic
  <2>5. g \in WallCells => R(g) \in Real
    BY Zenon DEF Real
  <2>6. g \in added => M(g) \in Synthetic(Present)
    BY Zenon DEF Synthetic
  <2>7. R(g).gpu = g /\ M(g).gpu = g
    BY Zenon
  <2> HIDE DEF R, M, added
  <2>. QED
    BY <2>1, <2>2, <2>3, <2>4, <2>5, <2>6, <2>7 DEF Merged
<1>4. {c \in Merged : c.gpu = g} =
        IF g \in WallCells THEN {R(g)} ELSE IF g \in MissingGpus THEN {M(g)} ELSE {}
  BY <1>2, <1>3
<1>. QED
  BY <1>4, FS_Singleton, FS_EmptySet

\* The board's cells are of the fleet's GPUs, and of each GPU and node it is known where it
\* belongs.
LEMMA BoardIs ==
  ASSUME WallInv
  PROVE  /\ MissingGpus \subseteq Gpu /\ WallCells \subseteq Gpu
         /\ \A c \in Merged : c.gpu \in Gpu /\ NodeOf[c.gpu] \in Node
         /\ \A c \in Merged : c.measured => c.gpu \in WallCells
<1>1. WallCells \subseteq Gpu /\ MissingGpus \subseteq Gpu
  BY DEF WallInv, GpusOf, MissingGpus
<1>2. \A c \in Real : c.gpu \in WallCells
  BY DEF Real
<1>3. \A c \in Synthetic(Present) : c.gpu \in MissingGpus /\ ~c.measured
  BY DEF Synthetic
<1>4. \A c \in Merged : c.gpu \in Gpu
  BY <1>1, <1>2, <1>3 DEF Merged
<1>5. \A g \in Gpu : NodeOf[g] \in Node
  BY WallAssumption
<1>. QED
  BY <1>1, <1>2, <1>3, <1>4, <1>5 DEF Merged

LEMMA BoardFinite ==
  ASSUME WallInv
  PROVE  /\ IsFiniteSet(Merged)
         /\ \A S \in SUBSET Merged : IsFiniteSet(S)
         /\ \A part, S : IsFiniteSet(S) => IsFiniteSet({part[x] : x \in S})
<1>1. \A part, S : IsFiniteSet(S) => IsFiniteSet({part[x] : x \in S})
  <2>. SUFFICES ASSUME NEW part, NEW S, IsFiniteSet(S) PROVE IsFiniteSet({part[x] : x \in S})
    OBVIOUS
  <2> DEFINE f == [x \in S |-> part[x]]
             T == {f[x] : x \in S}
  <2>1. f \in Surjection(S, T)
    BY DEF Surjection
  <2>2. T = {part[x] : x \in S}
    OBVIOUS
  <2>. HIDE DEF f, T
  <2>. QED
    BY <2>1, <2>2, FS_Surjection
<1>2. IsFiniteSet(Merged)
  <2> DEFINE R == [g \in Gpu |-> [gpu |-> g, measured |-> TRUE]]
             M == [g \in Gpu |-> [gpu |-> g, measured |-> FALSE]]
             U == {R[g] : g \in Gpu} \cup {M[g] : g \in Gpu}
  <2>1. IsFiniteSet({R[g] : g \in Gpu}) /\ IsFiniteSet({M[g] : g \in Gpu})
    <3>. HIDE DEF R, M
    <3>. QED
      BY <1>1, WallAssumption
  <2>2. IsFiniteSet(U)
    BY <2>1, FS_Union
  <2>3. ASSUME NEW c \in Merged PROVE c \in U
    <3>1. c = R[c.gpu] \/ c = M[c.gpu]
      BY BoardIs DEF Merged, Real, Synthetic
    <3>. QED
      BY <3>1, BoardIs
  <2>. QED
    BY <2>2, <2>3, FS_Subset
<1>. QED
  BY <1>1, <1>2, FS_Subset

LEMMA StatusIs == \A g : StatusOf(g) \in Statuses
BY DEF StatusOf, Statuses

LEMMA StateIs == \A n : NodeState(n) \in NodeStates
BY DEF NodeState, NodeStates

\* By what axis a cell is told apart.
LEMMA LabelIs ==
  \A c : /\ Label(c, "status") = StatusOf(c.gpu) /\ Label(c, "node") = NodeOf[c.gpu]
         /\ Label(c, "csp") = LabelOf["csp"][c.gpu]
         /\ ~c.measured => Label(c, "model") = None
         /\ c.measured => Label(c, "model") = LabelOf["model"][c.gpu]
BY DEF Label

LEMMA WordsFinite ==
  /\ IsFiniteSet(Statuses) /\ IsFiniteSet(NodeStates) /\ IsFiniteSet(Csp)
  /\ IsFiniteSet(Workloads) /\ IsFiniteSet(Severities) /\ IsFiniteSet(Severities \ {"info"})
<1>1. \A a, b, c, d, e : IsFiniteSet({a, b, c, d, e})
  <2>. SUFFICES ASSUME NEW a, NEW b, NEW c, NEW d, NEW e PROVE IsFiniteSet({a, b, c, d, e})
    OBVIOUS
  <2>1. IsFiniteSet({a} \cup {b}) /\ IsFiniteSet({c} \cup {d}) /\ IsFiniteSet({e})
    BY FS_Singleton, FS_Union
  <2>2. IsFiniteSet(({a} \cup {b}) \cup ({c} \cup {d}))
    BY <2>1, FS_Union
  <2>3. IsFiniteSet((({a} \cup {b}) \cup ({c} \cup {d})) \cup {e})
    BY <2>1, <2>2, FS_Union
  <2>4. {a, b, c, d, e} = (({a} \cup {b}) \cup ({c} \cup {d})) \cup {e}
    OBVIOUS
  <2>. QED
    BY <2>3, <2>4
<1>2. Workloads = {"training", "inference", "inference", "inference", "inference"}
      /\ Severities = {"critical", "major", "warning", "info", "info"}
  BY DEF Workloads, Severities
<1>3. IsFiniteSet(Workloads) /\ IsFiniteSet(Severities)
  BY <1>1, <1>2
<1>4. IsFiniteSet(Severities \ {"info"})
  BY <1>3, FS_Subset
<1>. QED
  BY <1>1, <1>3, <1>4, WallAssumption DEF Statuses, NodeStates

LEMMA OptionsFinite ==
  ASSUME WallInv, NEW x \in CellFields
  PROVE  IsFiniteSet(Options(x)) /\ \A v \in Options(x) : v # All
<1> DEFINE labels == {LabelOf[x][g] : g \in WallCells}
<1>1. Options(x) \in {Workloads, Statuses, labels \ {None}}
  BY DEF Options, CellFields, Axes
<1>2. IsFiniteSet(labels)
  <2>1. IsFiniteSet(WallCells)
    BY BoardIs, WallAssumption, FS_Subset
  <2>. QED
    BY <2>1, BoardFinite
<1>3. IsFiniteSet(labels \ {None})
  <2>. HIDE DEF labels
  <2>. QED
    BY <1>2, FS_Subset
<1>4. x # "status" => \A v \in labels : v # All
  BY BoardIs, FilterAssumption DEF CellFields
<1>5. \A v \in Workloads \cup Statuses : v # All
  BY FilterAssumption
<1>6. x = "status" => Options(x) = Statuses
  BY DEF Options
<1>. HIDE DEF labels
<1>. QED
  BY <1>1, <1>3, <1>4, <1>5, <1>6, WordsFinite

\* The values a field offers part what is left when it is not set, but for the rest.
LEMMA FieldParts ==
  ASSUME WallInv, FilterInv, NEW x \in CellFields
  PROVE  SumFunction([v \in Options(x) |-> Cardinality(FilteredBy([filter EXCEPT ![x] = v]))])
         = Cardinality(Whole(x) \ Rest(x))
<1> DEFINE S == Whole(x)
           K == Options(x)
           part == [c \in S |-> Label(c, x)]
           f == [v \in K |-> Cardinality(FilteredBy([filter EXCEPT ![x] = v]))]
<1>1. IsFiniteSet(S)
  BY BoardFinite DEF Whole, FilteredBy
<1>2. IsFiniteSet(K) /\ \A v \in K : v # All
  BY OptionsFinite
<1>3. \A v : /\ [filter EXCEPT ![x] = v][x] = v
             /\ \A y \in CellFields \ {x} : [filter EXCEPT ![x] = v][y] = filter[y]
  BY DEF FilterInv, Fields
<1>4. \A v \in K : FilteredBy([filter EXCEPT ![x] = v]) = {c \in S : part[c] = v}
  <2>. SUFFICES ASSUME NEW v \in K, NEW c \in Merged
                PROVE  (\A y \in CellFields : \/ [filter EXCEPT ![x] = v][y] = All
                                              \/ [filter EXCEPT ![x] = v][y] = Label(c, y))
                       <=> /\ \A y \in CellFields : \/ [filter EXCEPT ![x] = All][y] = All
                                                    \/ [filter EXCEPT ![x] = All][y] = Label(c, y)
                           /\ Label(c, x) = v
    BY DEF FilteredBy, Whole
  <2>. DEFINE others == \A y \in CellFields \ {x} : filter[y] = All \/ filter[y] = Label(c, y)
  <2>1. (\A y \in CellFields : \/ [filter EXCEPT ![x] = v][y] = All
                               \/ [filter EXCEPT ![x] = v][y] = Label(c, y))
        <=> others /\ Label(c, x) = v
    BY <1>2, <1>3
  <2>2. (\A y \in CellFields : \/ [filter EXCEPT ![x] = All][y] = All
                               \/ [filter EXCEPT ![x] = All][y] = Label(c, y))
        <=> others
    BY <1>3
  <2>. QED
    BY <2>1, <2>2
<1>5. DOMAIN f = K /\ \A v \in K : f[v] = Cardinality({c \in S : part[c] = v})
  BY <1>4
<1>6. {c \in S : part[c] \in K} = Whole(x) \ Rest(x)
  BY DEF Rest
<1>. HIDE DEF S, K, part, f
<1>7. SumFunction(f) = Cardinality({c \in S : part[c] \in K})
  BY <1>1, <1>2, <1>5, SumOfSome
<1>. QED
  BY <1>6, <1>7 DEF f, K

\* What the statuses and the models leave.
LEMMA RestIs ==
  ASSUME WallInv
  PROVE  /\ Rest("status") = {}
         /\ (\A g \in Gpu : LabelOf["model"][g] # None) =>
              Rest("model") = {c \in Whole("model") : ~c.measured}
<1>1. Options("status") = Statuses
      /\ Options("model") = {LabelOf["model"][g] : g \in WallCells} \ {None}
  BY DEF Options
<1>2. Rest("status") = {}
  BY <1>1, LabelIs, StatusIs DEF Rest
<1>3. ASSUME \A g \in Gpu : LabelOf["model"][g] # None
      PROVE  Rest("model") = {c \in Whole("model") : ~c.measured}
  <2>1. \A c \in Whole("model") : c.measured => c.gpu \in WallCells /\ c.gpu \in Gpu
    BY BoardIs DEF Whole, FilteredBy
  <2>2. \A c \in Whole("model") : Label(c, "model") \in Options("model") <=> c.measured
    BY <1>1, <1>3, <2>1, LabelIs
  <2>. QED
    BY <2>2 DEF Rest
<1>. QED
  BY <1>2, <1>3

LEMMA FilteredIs ==
  ASSUME WallInv
  PROVE  /\ Filtered \subseteq Merged /\ IsFiniteSet(Filtered)
         /\ Nodes = {NodeOf[c.gpu] : c \in Filtered} /\ IsFiniteSet(Nodes)
         /\ \A x : IsFiniteSet({Label(c, x) : c \in Filtered})
<1>1. Filtered \subseteq Merged
  BY DEF Filtered, FilteredBy
<1>2. IsFiniteSet(Filtered)
  BY <1>1, BoardFinite
<1>3. ASSUME NEW x PROVE IsFiniteSet({Label(c, x) : c \in Filtered})
  <2> DEFINE part == [c \in Filtered |-> Label(c, x)]
  <2>1. {Label(c, x) : c \in Filtered} = {part[c] : c \in Filtered}
    OBVIOUS
  <2>. HIDE DEF part
  <2>. QED
    BY <1>2, <2>1, BoardFinite
<1>4. Nodes = {Label(c, "node") : c \in Filtered}
  BY LabelIs DEF Nodes
<1>. QED
  BY <1>1, <1>2, <1>3, <1>4 DEF Nodes

\* The counts of the strips and of the models add up to what they are counts of.
LEMMA StripsAddUp ==
  ASSUME WallInv
  PROVE  /\ StripTotal([s \in Statuses |-> GpusIn(s)]) = Cardinality(Filtered)
         /\ StripTotal([s \in NodeStates |-> NodesIn(s)]) = Cardinality(Nodes)
         /\ (\A g \in Gpu : LabelOf["model"][g] # None) =>
              SumFunction(Models) = Cardinality(Ranked)
<1>1. StripTotal([s \in Statuses |-> GpusIn(s)]) = Cardinality(Filtered)
  <2> DEFINE f == [s \in Statuses |-> GpusIn(s)]
             part == [c \in Filtered |-> Label(c, "status")]
  <2>1. DOMAIN f = Statuses /\ \A s \in Statuses : f[s] = Cardinality({c \in Filtered : part[c] = s})
    <3>1. \A s : CellsWith("status", s) = {c \in Filtered : part[c] = s}
      BY DEF CellsWith
    <3>. QED
      BY <3>1 DEF GpusIn
  <2>2. \A c \in Filtered : part[c] \in Statuses
    BY LabelIs, StatusIs
  <2>4. IsFiniteSet(Filtered) /\ IsFiniteSet(Statuses)
    BY FilteredIs, WordsFinite
  <2>. HIDE DEF f, part
  <2>3. SumFunction(f) = Cardinality(Filtered)
    BY <2>1, <2>2, <2>4, SumOfParts
  <2>. QED
    BY <2>3 DEF f, StripTotal
<1>2. StripTotal([s \in NodeStates |-> NodesIn(s)]) = Cardinality(Nodes)
  <2> DEFINE f == [s \in NodeStates |-> NodesIn(s)]
             at == [n \in Nodes |-> NodeState(n)]
  <2>1. \A s : {n \in Nodes : NodeState(n) = s} = {n \in Nodes : at[n] = s}
    OBVIOUS
  <2>2. DOMAIN f = NodeStates /\ \A s \in NodeStates : f[s] = Cardinality({n \in Nodes : at[n] = s})
    BY <2>1 DEF NodesIn
  <2>3. \A n \in Nodes : at[n] \in NodeStates
    BY StateIs
  <2>5. IsFiniteSet(Nodes) /\ IsFiniteSet(NodeStates)
    BY FilteredIs, WordsFinite
  <2>. HIDE DEF f, at
  <2>4. SumFunction(f) = Cardinality(Nodes)
    BY <2>2, <2>3, <2>5, SumOfParts
  <2>. QED
    BY <2>4 DEF f, StripTotal
<1>3. ASSUME \A g \in Gpu : LabelOf["model"][g] # None
      PROVE  SumFunction(Models) = Cardinality(Ranked)
  <2> DEFINE K == {Label(c, "model") : c \in Filtered} \ {None}
             part == [c \in Ranked |-> Label(c, "model")]
  <2>1. \A c \in Filtered : (c.measured <=> Label(c, "model") # None)
    BY <1>3, LabelIs, FilteredIs, BoardIs
  <2>2. IsFiniteSet(Ranked) /\ \A c \in Ranked : part[c] \in K
    BY <2>1, FilteredIs, FS_Subset DEF Ranked
  <2>3. \A k \in K : CellsWith("model", k) = {c \in Ranked : part[c] = k}
    BY <2>1 DEF Ranked, CellsWith
  <2>4. DOMAIN Models = K /\ \A k \in K : Models[k] = Cardinality({c \in Ranked : part[c] = k})
    BY <2>3 DEF Models
  <2>5. IsFiniteSet(K)
    <3>1. \A T : IsFiniteSet(T) => IsFiniteSet(T \ {None})
      BY FS_Subset
    <3>. QED
      BY <3>1, FilteredIs
  <2>. HIDE DEF K, part
  <2>. QED
    BY <2>2, <2>4, <2>5, SumOfParts
<1>. QED
  BY <1>1, <1>2, <1>3

\* A ranking of groups shows all the cells if and only if it shows all the groups.
LEMMA CutsAddUp ==
  ASSUME WallInv, NEW T \in Cuts(Nodes)
  PROVE  LET sizes == GroupSizes("node")
             shown == SumFunction([n \in T |-> sizes[n]])
         IN  /\ shown <= Cardinality(Filtered)
             /\ shown = Cardinality(Filtered) <=> Cardinality(Nodes) <= TopRows
<1> DEFINE sizes == GroupSizes("node")
           f == [n \in T |-> sizes[n]]
           part == [c \in Filtered |-> NodeOf[c.gpu]]
           S == {c \in Filtered : part[c] \in T}
<1>1. T \subseteq Nodes /\ IsFiniteSet(T) /\ Cardinality(T) <= Cardinality(Nodes)
      /\ Cardinality(Nodes) \in Nat /\ Cardinality(T) \in Nat
      /\ (Cardinality(Nodes) = Cardinality(T) => T = Nodes)
  BY FilteredIs, FS_Subset, FS_CardinalityType DEF Cuts
<1>2. Cardinality(T) = IF Cardinality(Nodes) < TopRows THEN Cardinality(Nodes) ELSE TopRows
  BY DEF Cuts
<1>3. T = Nodes <=> Cardinality(Nodes) <= TopRows
  BY <1>1, <1>2, WallAssumption
<1>4. DOMAIN f = T /\ \A n \in T : f[n] = Cardinality({c \in Filtered : part[c] = n})
  <2>1. \A n : CellsWith("node", n) = {c \in Filtered : part[c] = n}
    BY LabelIs DEF CellsWith
  <2>2. {Label(c, "node") : c \in Filtered} = Nodes
    BY LabelIs DEF Nodes
  <2>. QED
    BY <1>1, <2>1, <2>2 DEF GroupSizes
<1>5. /\ Cardinality(S) <= Cardinality(Filtered)
      /\ Cardinality(Filtered) = Cardinality(S) => Filtered = S
  BY FilteredIs, FS_Subset
<1>6. S = Filtered <=> T = Nodes
  BY <1>1, FilteredIs
<1>. HIDE DEF f, part, sizes
<1>7. SumFunction(f) = Cardinality(S)
  BY <1>1, <1>4, FilteredIs, SumOfSome
<1>8. /\ SumFunction(f) <= Cardinality(Filtered)
      /\ SumFunction(f) = Cardinality(Filtered) <=> Cardinality(Nodes) <= TopRows
  BY <1>3, <1>5, <1>6, <1>7
<1>. QED
  BY <1>8 DEF f, sizes

\* The providers' figures add up to the board's.
LEMMA ProvidersAddUp ==
  ASSUME WallInv, \A g \in Gpu : LabelOf["csp"][g] # None
  PROVE  /\ SumFunction([k \in Csp |-> CspFacts(k).gpuTotal]) = Cardinality(Filtered)
         /\ SumFunction([k \in Csp |-> CspFacts(k).allocated]) = Allocated
         /\ SumFunction([k \in Csp |-> CspFacts(k).faulted]) = GpusIn("fault")
<1> DEFINE part == [c \in Filtered |-> LabelOf["csp"][c.gpu]]
<1>0. \A k : CellsWith("csp", k) = {c \in Filtered : part[c] = k}
  BY LabelIs DEF CellsWith
<1>00. \A c \in Filtered : part[c] \in Csp
  BY FilteredIs, BoardIs, WallAssumption
<1>. HIDE DEF part
<1>1. SumFunction([k \in Csp |-> CspFacts(k).gpuTotal]) = Cardinality(Filtered)
  <2> DEFINE f == [k \in Csp |-> CspFacts(k).gpuTotal]
  <2>1. DOMAIN f = Csp /\ \A k \in Csp : f[k] = Cardinality({c \in Filtered : part[c] = k})
    BY <1>0 DEF CspFacts
  <2>. HIDE DEF f
  <2>2. SumFunction(f) = Cardinality(Filtered)
    BY <1>00, <2>1, FilteredIs, WordsFinite, SumOfParts
  <2>. QED
    BY <2>2 DEF f
<1>2. SumFunction([k \in Csp |-> CspFacts(k).allocated]) = Allocated
  <2> DEFINE f == [k \in Csp |-> CspFacts(k).allocated]
             S == {c \in Filtered : c.gpu \in Pooled}
  <2>1. \A k : {c \in CellsWith("csp", k) : c.gpu \in Pooled} = {c \in S : part[c] = k}
    BY <1>0
  <2>2. DOMAIN f = Csp /\ \A k \in Csp : f[k] = Cardinality({c \in S : part[c] = k})
    BY <2>1 DEF CspFacts
  <2>3. IsFiniteSet(S) /\ \A c \in S : part[c] \in Csp
    BY <1>00, FilteredIs, FS_Subset
  <2>. HIDE DEF f, S
  <2>4. SumFunction(f) = Cardinality(S)
    BY <2>2, <2>3, WordsFinite, SumOfParts
  <2>. QED
    BY <2>4 DEF f, S, Allocated
<1>3. SumFunction([k \in Csp |-> CspFacts(k).faulted]) = GpusIn("fault")
  <2> DEFINE f == [k \in Csp |-> CspFacts(k).faulted]
             S == CellsWith("status", "fault")
  <2>1. \A k : {c \in CellsWith("csp", k) : StatusOf(c.gpu) = "fault"} = {c \in S : part[c] = k}
    BY <1>0, LabelIs DEF CellsWith
  <2>2. DOMAIN f = Csp /\ \A k \in Csp : f[k] = Cardinality({c \in S : part[c] = k})
    BY <2>1 DEF CspFacts
  <2>3. IsFiniteSet(S) /\ \A c \in S : part[c] \in Csp
    BY <1>00, FilteredIs, FS_Subset DEF CellsWith
  <2>. HIDE DEF f, S
  <2>4. SumFunction(f) = Cardinality(S)
    BY <2>2, <2>3, WordsFinite, SumOfParts
  <2>. QED
    BY <2>4 DEF f, S, GpusIn
<1>. QED
  BY <1>1, <1>2, <1>3

\* The severities part the alerts, of the list and of its strip.
LEMMA AlertsPart ==
  ASSUME WallInv, FilterInv
  PROVE  /\ SumFunction([v \in Severities |->
                           Cardinality(AlertList([filter EXCEPT !["severity"] = v]))])
            = Cardinality(AlertList([filter EXCEPT !["severity"] = All]))
         /\ StripTotal([s \in Severities \ {"info"} |-> AlertsOf(s)])
            = Cardinality({a \in AlertList(filter) : ~a.acked /\ a.severity # "info"})
<1>1. IsFiniteSet(Alerts) /\ \A a \in Alerts : a.severity \in Severities
  <2> DEFINE crit == [g \in Gpu |-> Alert(g, "critical")]
             warn == [g \in Gpu |-> Alert(g, "warning")]
             C == {Alert(g, "critical") : g \in state.faults}
             W == {Alert(g, "warning") : g \in state.hot}
  <2>. SUFFICES ASSUME state # None PROVE IsFiniteSet(Alerts) /\ \A a \in Alerts : a.severity \in Severities
    BY FS_EmptySet DEF Alerts
  <2>1. state.faults \subseteq Gpu /\ state.hot \subseteq Gpu
    BY DEF WallInv, WallSrv
  <2>2. C = {crit[g] : g \in state.faults} /\ W = {warn[g] : g \in state.hot}
    BY <2>1
  <2>3. IsFiniteSet(state.faults) /\ IsFiniteSet(state.hot)
    BY <2>1, WallAssumption, FS_Subset
  <2>4. IsFiniteSet(C) /\ IsFiniteSet(W)
    <3>. HIDE DEF C, W, crit, warn
    <3>. QED
      BY <2>2, <2>3, BoardFinite
  <2>5. Alerts = (C \cup W) \cup FleetAlerts
    BY DEF Alerts
  <2>6. \A a \in C \cup W : a.severity \in Severities
    BY DEF Alert, Severities
  <2>7. \A a \in FleetAlerts : a.severity \in Severities
    BY WallAssumption
  <2>. HIDE DEF C, W
  <2>8. IsFiniteSet((C \cup W) \cup FleetAlerts)
    <3>1. IsFiniteSet(C \cup W)
      BY <2>4, FS_Union
    <3>. QED
      BY <3>1, WallAssumption, FS_Union
  <2>. QED
    BY <2>5, <2>6, <2>7, <2>8
<1>2. SumFunction([v \in Severities |->
                     Cardinality(AlertList([filter EXCEPT !["severity"] = v]))])
      = Cardinality(AlertList([filter EXCEPT !["severity"] = All]))
  <2> DEFINE S == AlertList([filter EXCEPT !["severity"] = All])
             part == [a \in S |-> a.severity]
             f == [v \in Severities |-> Cardinality(AlertList([filter EXCEPT !["severity"] = v]))]
  <2>1. \A v : /\ [filter EXCEPT !["severity"] = v]["severity"] = v
               /\ \A y \in CellFields : [filter EXCEPT !["severity"] = v][y] = filter[y]
    BY DEF FilterInv, Fields, CellFields, Axes
  <2>2. \A v : FilteredBy([filter EXCEPT !["severity"] = v]) = Filtered
    BY <2>1 DEF FilteredBy, Filtered
  <2> DEFINE N == {NodeOf[c.gpu] : c \in Filtered} \cup {None}
  <2>7. \A v : AlertList([filter EXCEPT !["severity"] = v])
               = {a \in Alerts : a.node \in N /\ v \in {All, a.severity}}
    BY <2>1, <2>2 DEF AlertList
  <2>3. \A v \in Severities : AlertList([filter EXCEPT !["severity"] = v]) = {a \in S : part[a] = v}
    <3>. HIDE DEF N
    <3>1. S = {a \in Alerts : a.node \in N}
      BY <2>7 DEF S
    <3>2. \A v \in Severities : v # All
      BY FilterAssumption
    <3>. QED
      BY <2>7, <3>1, <3>2
  <2>4. IsFiniteSet(S) /\ \A a \in S : part[a] \in Severities
    BY <1>1, FS_Subset DEF AlertList
  <2>5. DOMAIN f = Severities /\ \A v \in Severities : f[v] = Cardinality({a \in S : part[a] = v})
    BY <2>3
  <2>. HIDE DEF S, part, f
  <2>6. SumFunction(f) = Cardinality(S)
    BY <2>4, <2>5, WordsFinite, SumOfParts
  <2>. QED
    BY <2>6 DEF f, S
<1>3. StripTotal([s \in Severities \ {"info"} |-> AlertsOf(s)])
      = Cardinality({a \in AlertList(filter) : ~a.acked /\ a.severity # "info"})
  <2> DEFINE S == {a \in AlertList(filter) : ~a.acked /\ a.severity # "info"}
             K == Severities \ {"info"}
             part == [a \in S |-> a.severity]
             f == [s \in K |-> AlertsOf(s)]
  <2>1. IsFiniteSet(S) /\ \A a \in S : part[a] \in K
    BY <1>1, FS_Subset DEF AlertList
  <2>2. \A s \in K : {a \in AlertList(filter) : ~a.acked /\ a.severity = s} = {a \in S : part[a] = s}
    OBVIOUS
  <2>3. DOMAIN f = K /\ \A s \in K : f[s] = Cardinality({a \in S : part[a] = s})
    BY <2>2 DEF AlertsOf
  <2>. HIDE DEF S, part, f
  <2>4. SumFunction(f) = Cardinality(S)
    BY <2>1, <2>3, WordsFinite, SumOfParts
  <2>. QED
    BY <2>4 DEF f, S, StripTotal
<1>. QED
  BY <1>2, <1>3

\* The filter bar sets what it offers.
LEMMA FilterStep == WallInv /\ FilterInv /\ [Next]_vars => FilterInv'
<1>. SUFFICES ASSUME WallInv, FilterInv, [Next]_vars PROVE FilterInv'
  OBVIOUS
<1>1. CASE filter' \in {filter, NoFilter}
  BY <1>1 DEF FilterInv, NoFilter, Values
<1>2. CASE FilterBy
  <2>1. \A x \in Fields : Options(x) \subseteq Values
    BY BoardIs DEF Options, Values, Fields, CellFields
  <2>2. \A x \in Fields, v \in Values : [filter EXCEPT ![x] = v] \in [Fields -> Values]
    BY DEF FilterInv
  <2>3. All \in Values
    BY DEF Values
  <2>4. \/ \E x \in Fields : \E v \in Options(x) \cup {All} : filter' = [filter EXCEPT ![x] = v]
        \/ filter' = NoFilter
    BY <1>2 DEF FilterBy, SetFilter
  <2>. QED
    BY <1>1, <2>1, <2>2, <2>3, <2>4 DEF FilterInv
<1>3. CASE (MenuNext \/ Unauthorized) /\ Routed
  BY <1>1, <1>3 DEF Routed, LeaveBoard
<1>4. CASE WallNext
  BY <1>1, <1>2, <1>4 DEF WallNext, Turn, Lapse, FleetPoll, FleetPollFails, StatePoll, SeriesFollow
<1>5. CASE TableNext
  BY <1>1, <1>5 DEF TableNext, Edit, TurnPage, SetTable, wallVars
<1>6. CASE LookNext
  BY <1>1, <1>6 DEF LookNext, Explore, ChartTab, PickNode, DrillGpu, DrillCsp, ClearGraph,
     OpenSheet, CloseSheet, Answered, Refused, Denied, Tick, Chosen, wallVars
<1>7. CASE DetailsNext
  BY <1>1, <1>7 DEF DetailsNext, PickInstance, PickDevice, OpenDrawer, CloseDrawer, Effects,
     Follows, Selected, wallVars
<1>8. CASE UNCHANGED vars
  BY <1>1, <1>8 DEF vars, wallVars
<1>. QED
  BY <1>3, <1>4, <1>5, <1>6, <1>7, <1>8 DEF Next

LEMMA FilterInvariance == Spec => [](WallInv /\ FilterInv)
<1>1. ViewsInit => FilterInv
  BY DEF ViewsInit, WallInit, FilterInv, NoFilter, Values
<1>2. IInv => WallInv
  BY DEF IInv
<1>. QED
  BY <1>1, <1>2, FilterStep, Invariance, PTL DEF Spec

\* THEOREM: whatever the ages of the two answers, every figure of the board counts the one
\* cell of a GPU. The values a field of the filter bar offers part the cells but for those
\* without an offered label: none for the status, those that stand for a GPU for the model.
\* The strips, the providers' cards and the models' bars add up to what they count, the
\* severities part the alerts, and the rows of a grouping add up to the cells if and only if
\* none is cut off; what is ranked was measured.
THEOREM EachIsCountedOnce == Spec => []CountedOnce
<1>1. ASSUME WallInv, FilterInv PROVE CountedOnce
  <2>1. \A g \in Gpu : Cardinality({c \in Merged : c.gpu = g})
                       = IF g \in WallCells \cup MissingGpus THEN 1 ELSE 0
    BY <1>1, OneCell
  <2>2. \A c \in Ranked : c.gpu \in WallCells
    BY <1>1, BoardIs, FilteredIs DEF Ranked
  <2>3. \A x \in CellFields :
          SumFunction([v \in Options(x) |-> Cardinality(FilteredBy([filter EXCEPT ![x] = v]))])
          = Cardinality(Whole(x) \ Rest(x))
    BY <1>1, FieldParts
  <2>4. LET sizes == GroupSizes("node")
        IN \A T \in Cuts(Nodes) :
             LET shown == SumFunction([n \in T |-> sizes[n]])
             IN /\ shown <= Cardinality(Filtered)
                /\ shown = Cardinality(Filtered) <=> Cardinality(Nodes) <= TopRows
    BY <1>1, CutsAddUp
  <2>. QED
    BY <1>1, <2>1, <2>2, <2>3, <2>4, RestIs, StripsAddUp, ProvidersAddUp, AlertsPart DEF CountedOnce
<1>. QED
  BY <1>1, FilterInvariance, PTL

-----------------------------------------------------------------------------
(* Sequences: what Kept and FlattenSeq give of any of them, by the least     *)
(* length at which it would fail.                                           *)

\* What holds of 0 and goes from a number to the next holds up to N.
LEMMA UpTo ==
  ASSUME NEW N \in Nat, NEW P, 0 \in P, \A n \in 0 .. N - 1 : n \in P => n + 1 \in P
  PROVE  N \in P
<1> DEFINE bad == {n \in 0 .. N : n \notin P}
<1>. SUFFICES ASSUME bad # {} PROVE FALSE
  OBVIOUS
<1>0. bad \in SUBSET Nat
  OBVIOUS
<1>1. PICK n \in bad : \A m \in bad : n <= m
  <2>. HIDE DEF bad
  <2>. QED
    BY <1>0, LeastNat
<1>2. n # 0 /\ n \in 0 .. N /\ n \notin P
  BY <1>1
<1>3. n - 1 \in 0 .. N - 1 /\ n - 1 \notin bad
  BY <1>1, <1>2
<1>4. n - 1 \in P
  BY <1>3
<1>. QED
  BY <1>2, <1>3, <1>4

\* What holds of the empty sequence and of one with an element more holds of all.
LEMMA OneMore ==
  ASSUME NEW T, NEW P, << >> \in P,
         \A s \in Seq(T), x \in T : s \in P => Append(s, x) \in P
  PROVE  Seq(T) \subseteq P
<1>. SUFFICES ASSUME NEW r \in Seq(T) PROVE r \in P
  OBVIOUS
<1> DEFINE L == {n \in Nat : \A s \in Seq(T) : Len(s) = n => s \in P}
<1>1. 0 \in L
  BY EmptySeq, LenProperties
<1>2. ASSUME NEW n \in Nat, n \in L PROVE n + 1 \in L
  <2>. SUFFICES ASSUME NEW s \in Seq(T), Len(s) = n + 1 PROVE s \in P
    OBVIOUS
  <2>1. s # << >>
    BY EmptySeq
  <2>2. PICK t \in Seq(T), x \in T : s = Append(t, x)
    BY <2>1, SequenceEmptyOrAppend
  <2>3. Len(t) = n
    BY <2>2, AppendProperties, LenProperties
  <2>. QED
    BY <1>2, <2>2, <2>3
<1>3. Len(r) \in Nat
  BY LenProperties
<1>. HIDE DEF L
<1>4. \A n \in 0 .. Len(r) - 1 : n \in L => n + 1 \in L
  BY <1>2, <1>3
<1>5. Len(r) \in L
  BY <1>1, <1>3, <1>4, UpTo
<1>. QED
  BY <1>5 DEF L

\* How Kept comes about: one element after the other.
KeepsOneByOne(k, s, A) ==
  /\ k[0] = << >>
  /\ \A n \in 1 .. Len(s) : k[n] = IF s[n] \in A THEN Append(k[n - 1], s[n]) ELSE k[n - 1]
  /\ Kept(s, A) = k[Len(s)]

LEMMA KeptSteps ==
  ASSUME NEW T, NEW s \in Seq(T), NEW A
  PROVE  \E k \in [0 .. Len(s) -> Seq(T)] : KeepsOneByOne(k, s, A)
<1> DEFINE next(k, n) == IF s[n] \in A THEN Append(k[n - 1], s[n]) ELSE k[n - 1]
           upto(N) == {k \in [0 .. N -> Seq(T)] : k[0] = << >> /\ \A n \in 1 .. N : k[n] = next(k, n)}
           Unfolds(g) == g = [n \in 0 .. Len(s) |-> IF n = 0 THEN << >> ELSE next(g, n)]
<1>0. Len(s) \in Nat /\ \A n \in 1 .. Len(s) : s[n] \in T
  BY LenProperties, ElementOfSeq
<1>1. \E g : g = (CHOOSE h : Unfolds(h)) /\ Kept(s, A) = g[Len(s)]
  BY DEF Kept
<1>2. upto(Len(s)) # {}
  <2> DEFINE P == {N \in Nat : upto(N) # {}}
  <2>1. 0 \in P
    <3>1. [n \in 0 .. 0 |-> << >>] \in upto(0)
      BY EmptySeq
    <3>. QED
      BY <3>1
  <2>2. ASSUME NEW N \in 0 .. Len(s) - 1, N \in P PROVE N + 1 \in P
    <3>1. PICK k \in upto(N) : TRUE
      BY <2>2
    <3> DEFINE x == IF s[N + 1] \in A THEN Append(k[N], s[N + 1]) ELSE k[N]
               j == [n \in 0 .. N + 1 |-> IF n = N + 1 THEN x ELSE k[n]]
    <3>2. k \in [0 .. N -> Seq(T)] /\ s[N + 1] \in T /\ N \in Nat
      BY <1>0, <3>1
    <3>3. x \in Seq(T)
      BY <3>2, AppendProperties
    <3>4. j \in [0 .. N + 1 -> Seq(T)]
      BY <3>2, <3>3
    <3>5. j[0] = << >> /\ j[N + 1] = x /\ \A n \in 0 .. N : j[n] = k[n]
      BY <3>1, <3>2
    <3>8. \A n \in 1 .. N : k[n] = next(k, n)
      BY <3>1
    <3>. HIDE DEF j, x
    <3>6. ASSUME NEW n \in 1 .. N + 1 PROVE j[n] = next(j, n)
      <4>1. CASE n = N + 1
        <5>1. n - 1 = N /\ j[n - 1] = k[N]
          BY <3>2, <3>5, <4>1
        <5>. QED
          BY <3>5, <4>1, <5>1 DEF x
      <4>2. CASE n \in 1 .. N
        <5>1. n \in 0 .. N /\ n - 1 \in 0 .. N
          BY <3>2, <4>2
        <5>2. j[n] = k[n] /\ j[n - 1] = k[n - 1]
          BY <3>5, <5>1
        <5>. QED
          BY <3>8, <4>2, <5>2
      <4>. QED
        BY <3>2, <4>1, <4>2
    <3>7. j \in upto(N + 1)
      BY <3>4, <3>5, <3>6
    <3>. HIDE DEF upto
    <3>. QED
      BY <3>2, <3>7
  <2>. HIDE DEF P
  <2>3. \A n \in 0 .. Len(s) - 1 : n \in P => n + 1 \in P
    BY <2>2
  <2>4. Len(s) \in P
    BY <1>0, <2>1, <2>3, UpTo
  <2>. QED
    BY <2>4 DEF P
<1>3. PICK k \in upto(Len(s)) : TRUE
  BY <1>2
<1>4. /\ k \in [0 .. Len(s) -> Seq(T)] /\ k[0] = << >>
      /\ \A n \in 1 .. Len(s) : k[n] = next(k, n)
  BY <1>3
<1>5. Unfolds(k)
  <2>1. \A n \in 0 .. Len(s) : k[n] = IF n = 0 THEN << >> ELSE next(k, n)
    <3>. HIDE DEF next
    <3>1. \A n \in 0 .. Len(s) : n = 0 \/ n \in 1 .. Len(s)
      BY <1>0
    <3>2. k[0] = << >> /\ \A n \in 1 .. Len(s) : k[n] = next(k, n)
      BY <1>4
    <3>3. \A n \in 1 .. Len(s) : n # 0
      OBVIOUS
    <3>. QED
      BY <3>1, <3>2, <3>3
  <2>2. k = [n \in 0 .. Len(s) |-> k[n]]
    BY <1>4
  <2>. HIDE DEF next
  <2>. QED
    BY <2>1, <2>2
<1>6. PICK g : g = (CHOOSE h : Unfolds(h)) /\ Kept(s, A) = g[Len(s)]
  BY <1>1
<1>7. Unfolds(g)
  <2>. HIDE DEF Unfolds
  <2>. QED
    BY <1>5, <1>6
<1>8. g[Len(s)] = k[Len(s)]
  <2> DEFINE P == {n \in 0 .. Len(s) : g[n] = k[n]}
  <2>0. \A n \in 0 .. Len(s) : g[n] = IF n = 0 THEN << >> ELSE next(g, n)
    BY <1>7
  <2>1. 0 \in P
    BY <1>0, <1>4, <2>0
  <2>2. ASSUME NEW n \in 0 .. Len(s) - 1, n \in P PROVE n + 1 \in P
    <3>1. g[n + 1] = next(g, n + 1) /\ k[n + 1] = next(k, n + 1) /\ (n + 1) - 1 = n
      BY <1>0, <1>4, <2>0
    <3>2. g[n] = k[n]
      BY <2>2
    <3>. QED
      BY <1>0, <3>1, <3>2
  <2>. HIDE DEF P
  <2>3. \A n \in 0 .. Len(s) - 1 : n \in P => n + 1 \in P
    BY <2>2
  <2>4. Len(s) \in P
    BY <1>0, <2>1, <2>3, UpTo
  <2>. QED
    BY <2>4 DEF P
<1>. QED
  BY <1>4, <1>6, <1>8 DEF KeepsOneByOne

LEMMA KeptType ==
  ASSUME NEW T, NEW s \in Seq(T), NEW A
  PROVE  Kept(s, A) \in Seq(T) /\ Len(Kept(s, A)) \in Nat /\ Kept(<< >>, A) = << >>
<1>1. Len(s) \in 0 .. Len(s)
  BY LenProperties
<1>2. Kept(s, A) \in Seq(T)
  BY <1>1, KeptSteps DEF KeepsOneByOne
<1>3. Kept(<< >>, A) = << >>
  <2>1. << >> \in Seq(T) /\ Len(<< >>) = 0
    BY EmptySeq
  <2>2. PICK k \in [0 .. Len(<< >>) -> Seq(T)] : KeepsOneByOne(k, << >>, A)
    BY <2>1, KeptSteps
  <2>. QED
    BY <2>1, <2>2 DEF KeepsOneByOne
<1>. QED
  BY <1>2, <1>3, LenProperties

LEMMA KeptAppend ==
  ASSUME NEW T, NEW s \in Seq(T), NEW x \in T, NEW A
  PROVE  Kept(Append(s, x), A) = IF x \in A THEN Append(Kept(s, A), x) ELSE Kept(s, A)
<1> DEFINE r == Append(s, x)
           N == Len(s)
<1>1. /\ r \in Seq(T) /\ Len(r) = N + 1 /\ r[N + 1] = x /\ N \in Nat
      /\ \A i \in 1 .. N : r[i] = s[i]
  BY AppendProperties, LenProperties
<1>. HIDE DEF r, N
<1>2. PICK k \in [0 .. N -> Seq(T)] :
        /\ k[0] = << >>
        /\ \A n \in 1 .. N : k[n] = IF s[n] \in A THEN Append(k[n - 1], s[n]) ELSE k[n - 1]
        /\ Kept(s, A) = k[N]
  <2>1. \E k \in [0 .. Len(s) -> Seq(T)] : KeepsOneByOne(k, s, A)
    BY KeptSteps
  <2>. QED
    BY <2>1 DEF N, KeepsOneByOne
<1>3. PICK j \in [0 .. N + 1 -> Seq(T)] :
        /\ j[0] = << >>
        /\ \A n \in 1 .. N + 1 : j[n] = IF r[n] \in A THEN Append(j[n - 1], r[n]) ELSE j[n - 1]
        /\ Kept(r, A) = j[N + 1]
  <2>1. \E j \in [0 .. Len(r) -> Seq(T)] : KeepsOneByOne(j, r, A)
    BY <1>1, KeptSteps
  <2>. QED
    BY <1>1, <2>1 DEF KeepsOneByOne
<1>4. j[N] = k[N]
  <2> DEFINE P == {n \in 0 .. N : j[n] = k[n]}
  <2>1. 0 \in P
    BY <1>1, <1>2, <1>3
  <2>2. ASSUME NEW n \in 0 .. N - 1, n \in P PROVE n + 1 \in P
    <3>1. n + 1 \in 1 .. N /\ n + 1 \in 1 .. N + 1 /\ (n + 1) - 1 = n /\ n + 1 \in 0 .. N
      BY <1>1
    <3>2. r[n + 1] = s[n + 1] /\ j[n] = k[n]
      BY <1>1, <2>2, <3>1
    <3>3. j[n + 1] = k[n + 1]
      BY <1>2, <1>3, <3>1, <3>2
    <3>. QED
      BY <3>1, <3>3
  <2>. HIDE DEF P
  <2>3. \A n \in 0 .. N - 1 : n \in P => n + 1 \in P
    BY <2>2
  <2>4. N \in P
    BY <1>1, <2>1, <2>3, UpTo
  <2>. QED
    BY <2>4 DEF P
<1>5. N + 1 \in 1 .. N + 1 /\ (N + 1) - 1 = N
  BY <1>1
<1>6. Kept(r, A) = IF x \in A THEN Append(k[N], x) ELSE k[N]
  BY <1>1, <1>3, <1>4, <1>5
<1>. QED
  BY <1>2, <1>6 DEF r

LEMMA KeptAgain ==
  ASSUME NEW T, NEW s \in Seq(T), NEW A, NEW B \in SUBSET A
  PROVE  Kept(Kept(s, A), B) = Kept(s, B)
<1> DEFINE P == {r \in Seq(T) : Kept(Kept(r, A), B) = Kept(r, B)}
<1>1. << >> \in P
  BY EmptySeq, KeptType
<1>2. ASSUME NEW r \in Seq(T), NEW x \in T, r \in P PROVE Append(r, x) \in P
  <2>1. Kept(r, A) \in Seq(T) /\ Append(r, x) \in Seq(T)
    BY KeptType, AppendProperties
  <2>2. Kept(Append(r, x), A) = IF x \in A THEN Append(Kept(r, A), x) ELSE Kept(r, A)
    BY KeptAppend
  <2>3. Kept(Append(r, x), B) = IF x \in B THEN Append(Kept(r, B), x) ELSE Kept(r, B)
    BY KeptAppend
  <2>4. Kept(Append(Kept(r, A), x), B)
        = IF x \in B THEN Append(Kept(Kept(r, A), B), x) ELSE Kept(Kept(r, A), B)
    BY <2>1, KeptAppend
  <2>5. Kept(Kept(r, A), B) = Kept(r, B)
    BY <1>2
  <2>6. Kept(Kept(Append(r, x), A), B) = Kept(Append(r, x), B)
    BY <2>2, <2>3, <2>4, <2>5
  <2>. QED
    BY <2>1, <2>6
<1>3. \A r \in Seq(T), x \in T : r \in P => Append(r, x) \in P
  BY <1>2
<1>. HIDE DEF P
<1>4. s \in P
  BY <1>1, <1>3, OneMore
<1>. QED
  BY <1>4 DEF P

LEMMA KeptParts ==
  ASSUME NEW T, NEW s \in Seq(T), NEW A, NEW B, A \cap B = {}
  PROVE  Len(Kept(s, A \cup B)) = Len(Kept(s, A)) + Len(Kept(s, B))
<1> DEFINE P == {r \in Seq(T) : Len(Kept(r, A \cup B)) = Len(Kept(r, A)) + Len(Kept(r, B))}
<1>1. << >> \in P
  BY EmptySeq, KeptType
<1>2. ASSUME NEW r \in Seq(T), NEW x \in T, r \in P PROVE Append(r, x) \in P
  <2>1. \A C : /\ Kept(Append(r, x), C) = IF x \in C THEN Append(Kept(r, C), x) ELSE Kept(r, C)
               /\ Len(Append(Kept(r, C), x)) = Len(Kept(r, C)) + 1
               /\ Len(Kept(r, C)) \in Nat
    <3>. SUFFICES ASSUME NEW C
                  PROVE  /\ Kept(Append(r, x), C) = IF x \in C THEN Append(Kept(r, C), x) ELSE Kept(r, C)
                         /\ Len(Append(Kept(r, C), x)) = Len(Kept(r, C)) + 1
                         /\ Len(Kept(r, C)) \in Nat
      OBVIOUS
    <3>1. Kept(r, C) \in Seq(T) /\ Len(Kept(r, C)) \in Nat
      BY KeptType
    <3>. QED
      BY <3>1, KeptAppend, AppendProperties
  <2>2. Append(r, x) \in Seq(T)
    BY AppendProperties
  <2>3. Len(Kept(r, A \cup B)) = Len(Kept(r, A)) + Len(Kept(r, B))
    BY <1>2
  <2>4. \A C : Len(Kept(Append(r, x), C)) = IF x \in C THEN Len(Kept(r, C)) + 1 ELSE Len(Kept(r, C))
    BY <2>1
  <2>5. Len(Kept(r, A)) \in Nat /\ Len(Kept(r, B)) \in Nat
    BY <2>1
  <2>6. Len(Kept(Append(r, x), A \cup B)) = Len(Kept(Append(r, x), A)) + Len(Kept(Append(r, x), B))
    BY <2>3, <2>4, <2>5
  <2>. QED
    BY <2>2, <2>6
<1>3. \A r \in Seq(T), x \in T : r \in P => Append(r, x) \in P
  BY <1>2
<1>. HIDE DEF P
<1>4. s \in P
  BY <1>1, <1>3, OneMore
<1>. QED
  BY <1>4 DEF P

LEMMA KeptAll ==
  ASSUME NEW T, NEW s \in Seq(T), NEW A, T \subseteq A
  PROVE  Kept(s, A) = s
<1> DEFINE P == {r \in Seq(T) : Kept(r, A) = r}
<1>1. << >> \in P
  BY EmptySeq, KeptType
<1>2. ASSUME NEW r \in Seq(T), NEW x \in T, r \in P PROVE Append(r, x) \in P
  BY <1>2, KeptAppend, AppendProperties
<1>3. \A r \in Seq(T), x \in T : r \in P => Append(r, x) \in P
  BY <1>2
<1>. HIDE DEF P
<1>4. s \in P
  BY <1>1, <1>3, OneMore
<1>. QED
  BY <1>4 DEF P

\* The concatenations that FlattenSeq goes through.
Joins(h, pages, c) ==
  /\ Len(pages) = c /\ h[1] = pages[1]
  /\ \A n \in 2 .. c : h[n] = h[n - 1] \o pages[n]

LEMMA FlattenIs ==
  ASSUME NEW T, NEW c \in Nat \ {0}, NEW pages, NEW h \in [1 .. c -> Seq(T)], Joins(h, pages, c)
  PROVE  FlattenSeq(pages) = h[c]
<1>0. /\ Len(pages) = c /\ h[1] = pages[1]
      /\ \A n \in 2 .. c : h[n] = h[n - 1] \o pages[n]
  BY DEF Joins
<1> DEFINE next(g, n) == IF n = 1 THEN pages[n] ELSE g[n - 1] \o pages[n]
           Unfolds(g) == g = [n \in 1 .. c |-> next(g, n)]
<1>1. \E g : g = (CHOOSE f : Unfolds(f)) /\ FlattenSeq(pages) = g[c]
  BY <1>0 DEF FlattenSeq
<1>2. Unfolds(h)
  <2>1. ASSUME NEW n \in 1 .. c PROVE h[n] = next(h, n)
    <3>1. n = 1 \/ n \in 2 .. c
      OBVIOUS
    <3>. QED
      BY <1>0, <3>1
  <2>2. h = [n \in 1 .. c |-> h[n]]
    OBVIOUS
  <2>. HIDE DEF next
  <2>. QED
    BY <2>1, <2>2
<1>3. PICK g : g = (CHOOSE f : Unfolds(f)) /\ FlattenSeq(pages) = g[c]
  BY <1>1
<1>4. Unfolds(g)
  <2>. HIDE DEF Unfolds
  <2>. QED
    BY <1>2, <1>3
<1>5. g[c] = h[c]
  <2> DEFINE P == {n \in 0 .. c : n = 0 \/ g[n] = h[n]}
  <2>1. \A n \in 1 .. c : g[n] = next(g, n)
    <3>. HIDE DEF next
    <3>. QED
      BY <1>4
  <2>2. ASSUME NEW n \in 0 .. c - 1, n \in P PROVE n + 1 \in P
    <3>1. n + 1 \in 1 .. c /\ (n + 1) - 1 = n /\ n + 1 \in 0 .. c /\ n \in Nat
      OBVIOUS
    <3>2. g[n + 1] = h[n + 1]
      <4>1. CASE n = 0
        BY <1>0, <2>1, <3>1, <4>1
      <4>2. CASE n > 0
        <5>1. n + 1 \in 2 .. c /\ g[n] = h[n]
          BY <2>2, <3>1, <4>2
        <5>2. h[n + 1] = h[n] \o pages[n + 1] /\ g[n + 1] = g[n] \o pages[n + 1]
          BY <1>0, <2>1, <3>1, <5>1
        <5>. QED
          BY <5>1, <5>2
      <4>. QED
        BY <3>1, <4>1, <4>2
    <3>. QED
      BY <3>1, <3>2
  <2>3. 0 \in P /\ c \in Nat
    OBVIOUS
  <2>. HIDE DEF P
  <2>4. \A n \in 0 .. c - 1 : n \in P => n + 1 \in P
    BY <2>2
  <2>5. c \in P
    BY <2>3, <2>4, UpTo
  <2>. QED
    BY <2>5 DEF P
<1>. QED
  BY <1>3, <1>5

\* The page count covers the rows, and no page of it is past them.
LEMMA CountIs ==
  ASSUME NEW N \in Nat, NEW p \in Nat \ {0}
  PROVE  LET c == AtLeast(1, (N + p - 1) \div p)
         IN /\ c \in Nat \ {0} /\ N <= c * p
            /\ N > 0 => (c - 1) * p < N
            /\ c > 1 => N > 0
<1> DEFINE q == (N + p - 1) \div p
<1>1. q \in Nat /\ q * p <= N + p - 1 /\ N + p - 1 < q * p + p
  OBVIOUS
<1>. HIDE DEF q
<1>2. CASE q = 0
  BY <1>1, <1>2 DEF AtLeast, q
<1>3. CASE q > 0
  <2>1. (q - 1) * p = q * p - p
    BY <1>1
  <2>2. AtLeast(1, q) = q
    BY <1>1, <1>3 DEF AtLeast
  <2>3. q > 1 => N > 0
    <3>1. ASSUME q > 1, N = 0 PROVE FALSE
      <4>1. (q - 1) * p >= p
        BY <1>1, <3>1
      <4>. QED
        BY <1>1, <2>1, <3>1, <4>1
    <3>. QED
      BY <3>1
  <2>. QED
    BY <1>1, <1>3, <2>1, <2>2, <2>3 DEF q
<1>. QED
  BY <1>1, <1>2, <1>3

LEMMA PagesFlatten ==
  ASSUME NEW T, NEW r \in Seq(T), NEW p \in Nat \ {0}, NEW c \in Nat \ {0},
         Len(r) <= c * p, c > 1 => (c - 1) * p < Len(r)
  PROVE  FlattenSeq([n \in 1 .. c |-> SubSeq(r, (n - 1) * p + 1, AtMost(Len(r), n * p))]) = r
<1> DEFINE pages == [n \in 1 .. c |-> SubSeq(r, (n - 1) * p + 1, AtMost(Len(r), n * p))]
           h == [n \in 1 .. c |-> SubSeq(r, 1, AtMost(Len(r), n * p))]
<1>0. Len(r) \in Nat
  BY LenProperties
<1>1. Len(pages) = c
  OBVIOUS
<1>2. h[1] = pages[1]
  OBVIOUS
<1>3. ASSUME NEW n \in 2 .. c PROVE h[n] = h[n - 1] \o pages[n]
  <2> DEFINE k == (n - 1) * p
  <2>0. n \in 1 .. c
    OBVIOUS
  <2>1. k \in Nat /\ n * p = k + p
    OBVIOUS
  <2>2. k < Len(r)
    <3>1. (n - 1) * p <= (c - 1) * p
      OBVIOUS
    <3>2. (c - 1) * p \in Nat /\ c > 1
      OBVIOUS
    <3>. QED
      BY <1>0, <2>1, <3>1, <3>2
  <2>. HIDE DEF k
  <2>3. /\ k \in 0 .. Len(r) /\ AtMost(Len(r), k + p) \in k .. Len(r)
        /\ AtMost(Len(r), k) = k /\ 1 \in 1 .. Len(r) + 1
    BY <1>0, <2>1, <2>2 DEF AtMost
  <2> DEFINE m == AtMost(Len(r), k + p)
  <2>. HIDE DEF m
  <2>4. SubSeq(r, 1, k) \o SubSeq(r, k + 1, m) = SubSeq(r, 1, m)
    <3>1. 1 \in 1 .. Len(r) + 1 /\ k \in 1 - 1 .. Len(r) /\ m \in k .. Len(r)
      BY <2>3 DEF m
    <3>. QED
      BY <3>1, ConcatAdjacentSubSeq
  <2>5. h[n] = SubSeq(r, 1, m)
    <3>1. h[n] = SubSeq(r, 1, AtMost(Len(r), n * p))
      BY <2>0, Zenon
    <3>. QED
      BY <2>1, <3>1 DEF m
  <2>6. h[n - 1] = SubSeq(r, 1, k)
    BY <2>3 DEF k
  <2>7. pages[n] = SubSeq(r, k + 1, m)
    <3>1. pages[n] = SubSeq(r, k + 1, AtMost(Len(r), n * p))
      BY <2>0, Zenon DEF k
    <3>. QED
      BY <2>1, <3>1 DEF m
  <2>. QED
    BY <2>4, <2>5, <2>6, <2>7
<1>4. h[c] = r
  <2>1. c * p \in Nat
    OBVIOUS
  <2>2. AtMost(Len(r), c * p) = Len(r)
    BY <1>0, <2>1 DEF AtMost
  <2>. QED
    BY <2>2, SubSeqFull
<1>5. h \in [1 .. c -> Seq(T)]
  <2>1. ASSUME NEW n \in 1 .. c PROVE SubSeq(r, 1, AtMost(Len(r), n * p)) \in Seq(T)
    <3>1. n * p \in Nat
      OBVIOUS
    <3>2. AtMost(Len(r), n * p) \in 0 .. Len(r)
      BY <1>0, <3>1 DEF AtMost
    <3>. QED
      BY <3>2, <1>0, SubSeqProperties, LenProperties
  <2>. QED
    BY <2>1
<1>7. \A n \in 2 .. c : h[n] = h[n - 1] \o pages[n]
  BY <1>3
<1>8. Joins(h, pages, c)
  BY <1>1, <1>2, <1>7 DEF Joins
<1>. HIDE DEF pages, h
<1>6. FlattenSeq(pages) = h[c]
  BY <1>5, <1>8, FlattenIs
<1>. QED
  BY <1>4, <1>6 DEF pages

-----------------------------------------------------------------------------
(* The table of idle GPUs. The inductive invariant: the page chosen is a     *)
(* number, the page size one of those there are.                            *)

Tables ==
  [node : Node \cup {All}, verdict : Verdicts \cup {All}, page : Nat \ {0}, pageSize : PageSizes]

TableInv == table \in Tables

\* What the idle list has is a pooled GPU's verdict.
LEMMA IdleIs ==
  ASSUME WallInv
  PROVE  state # None => \A g \in DOMAIN IdleList : g \in Pooled /\ IdleList[g] \in Verdicts
<1>. SUFFICES ASSUME state # None
              PROVE  \A g \in DOMAIN IdleList : g \in Pooled /\ IdleList[g] \in Verdicts
  OBVIOUS
<1>1. state \in WallSrv /\ IdleList = state.idle
  BY DEF WallInv, IdleList
<1>2. PICK S \in SUBSET Pooled : state.idle \in [S -> Verdicts]
  BY <1>1 DEF WallSrv
<1>. QED
  BY <1>1, <1>2

LEMMA RowsAre ==
  ASSUME NEW t
  PROVE  Rows(t) \in Seq(Pooled) /\ Len(Rows(t)) \in Nat
BY TableAssumption, KeptType DEF Rows

LEMMA FreshIs == FreshTable \in Tables
<1>1. PageSizes \in SUBSET Nat /\ PageSizes # {}
  BY TableAssumption
<1>2. \E n \in PageSizes : \A m \in PageSizes : n <= m
  BY <1>1, LeastNat
<1>3. (CHOOSE n \in PageSizes : \A m \in PageSizes : n <= m) \in PageSizes
  BY <1>2
<1>. QED
  BY <1>3 DEF FreshTable, Tables

\* The pages in view are among those there are.
LEMMA PageIs ==
  ASSUME TableInv
  PROVE  /\ table.pageSize \in Nat \ {0} /\ table.page \in Nat \ {0}
         /\ PageCount(table) \in Nat \ {0}
         /\ Len(Rows(table)) <= PageCount(table) * table.pageSize
         /\ PageCount(table) > 1 => (PageCount(table) - 1) * table.pageSize < Len(Rows(table))
         /\ Rows(table) # << >> => (PageCount(table) - 1) * table.pageSize < Len(Rows(table))
         /\ Current(table) \in 1 .. PageCount(table)
<1>1. table.pageSize \in Nat \ {0} /\ table.page \in Nat \ {0}
  BY TableAssumption DEF TableInv, Tables
<1>2. Len(Rows(table)) \in Nat /\ Rows(table) \in Seq(Pooled)
  BY RowsAre
<1>3. LET c == PageCount(table)
      IN /\ c \in Nat \ {0} /\ Len(Rows(table)) <= c * table.pageSize
         /\ Len(Rows(table)) > 0 => (c - 1) * table.pageSize < Len(Rows(table))
         /\ c > 1 => Len(Rows(table)) > 0
  BY <1>1, <1>2, CountIs DEF PageCount
<1>4. Rows(table) # << >> => Len(Rows(table)) > 0
  BY <1>2, EmptySeq
<1>5. Current(table) \in 1 .. PageCount(table)
  BY <1>1, <1>3 DEF Current, AtMost
<1>. QED
  BY <1>1, <1>3, <1>4, <1>5

LEMMA NumbersAre ==
  ASSUME NEW total \in Nat \ {0}, NEW current \in 1 .. total
  PROVE  \A n \in ToSet(PageNumbers(current, total)) : n \in 0 .. total
<1>1. CASE total <= PageWindow + 2
  BY <1>1 DEF PageNumbers, ToSet
<1>2. CASE ~(total <= PageWindow + 2)
  <2> DEFINE start == AtMost(total - PageWindow, AtLeast(1, current - 2))
             window == [i \in 1 .. PageWindow |-> start + i - 1]
  <2>1. start \in 1 .. total - PageWindow
    BY <1>2 DEF AtMost, AtLeast, PageWindow
  <2>2. window \in Seq(1 .. total) /\ Len(window) = 5
    BY <2>1, <1>2 DEF PageWindow
  <2>3. <<total>> \in Seq(0 .. total) /\ <<0, total>> \in Seq(0 .. total) /\ window \in Seq(0 .. total)
    BY <2>2
  <2>4. PageNumbers(current, total) \in {window \o <<total>>, window \o <<0, total>>}
    BY <1>2 DEF PageNumbers
  <2>. HIDE DEF window
  <2>5. PageNumbers(current, total) \in Seq(0 .. total)
    <3>1. \A s \in Seq(0 .. total) : window \o s \in Seq(0 .. total)
      BY <2>3, ConcatProperties
    <3>. QED
      BY <2>3, <2>4, <3>1
  <2>. QED
    BY <2>5, LenProperties, ElementOfSeq DEF ToSet
<1>. QED
  BY <1>1, <1>2

LEMMA TableStep == WallInv /\ TableInv /\ [Next]_vars => TableInv'
<1>. SUFFICES ASSUME WallInv, TableInv, [Next]_vars PROVE TableInv'
  OBVIOUS
<1>1. CASE table' \in {table, FreshTable}
  BY <1>1, FreshIs DEF TableInv
<1>2. CASE Edit
  <2>1. \A t \in Tables : FirstPage(t) \in Tables
    BY DEF FirstPage, Tables
  <2>2. /\ \A n \in Node \cup {All} : [table EXCEPT !.node = n] \in Tables
        /\ \A v \in Verdicts \cup {All} : [table EXCEPT !.verdict = v] \in Tables
        /\ \A n \in PageSizes : [table EXCEPT !.pageSize = n] \in Tables
        /\ [table EXCEPT !.node = All, !.verdict = All] \in Tables
    BY DEF TableInv, Tables
  <2>3. \E t \in Tables : table' = FirstPage(t)
    BY <1>2, <2>2, Zenon DEF Edit, SetTable
  <2>. QED
    BY <2>1, <2>3 DEF TableInv
<1>3. CASE TurnPage
  <2>1. Current(table) \in 1 .. PageCount(table) /\ PageCount(table) \in Nat \ {0}
    BY PageIs
  <2>2. \A n \in Nat \ {0} : [table EXCEPT !.page = n] \in Tables
    BY DEF TableInv, Tables
  <2>3. \A n \in ToSet(PageNumbers(Current(table), PageCount(table))) \ {0} : n \in Nat \ {0}
    BY <2>1, NumbersAre
  <2>. QED
    BY <1>3, <2>1, <2>2, <2>3 DEF TurnPage, SetTable, TableInv
<1>4. CASE (MenuNext \/ Unauthorized) /\ Routed
  BY <1>1, <1>4 DEF Routed
<1>5. CASE WallNext /\ Rendered
  BY <1>1, <1>5 DEF Rendered
<1>6. CASE LookNext
  BY <1>1, <1>6 DEF LookNext, Explore, ChartTab, PickNode, DrillGpu, DrillCsp, ClearGraph,
     OpenSheet, CloseSheet, Answered, Refused, Denied, Tick, Chosen, wallVars
<1>7. CASE DetailsNext
  BY <1>1, <1>7 DEF DetailsNext, PickInstance, PickDevice, OpenDrawer, CloseDrawer, Effects,
     Follows, Selected, wallVars
<1>8. CASE UNCHANGED vars
  BY <1>1, <1>8 DEF vars
<1>. QED
  BY <1>2, <1>3, <1>4, <1>5, <1>6, <1>7, <1>8 DEF Next, TableNext

LEMMA VisibleIs ==
  ASSUME TableInv
  PROVE  /\ Rows(table) # << >> => Visible(table) # << >>
         /\ Len(Visible(table)) <= table.pageSize
<1> DEFINE L == Len(Rows(table))
           p == table.pageSize
           n == Current(table)
           from == (n - 1) * p
           to == AtMost(L, n * p)
<1>1. L \in Nat /\ Rows(table) \in Seq(Pooled)
  BY RowsAre
<1>2. p \in Nat \ {0} /\ n \in Nat \ {0} /\ PageCount(table) \in Nat \ {0} /\ n <= PageCount(table)
  BY PageIs
<1>3. Rows(table) # << >> => (PageCount(table) - 1) * p < L
  BY PageIs
<1>4. Visible(table) = SubSeq(Rows(table), from + 1, to)
  BY DEF Visible, PageOf
<1>. HIDE DEF L, p, n
<1>5. from \in Nat /\ n * p = from + p
  BY <1>2
<1>6. from <= (PageCount(table) - 1) * p
  BY <1>2
<1>. HIDE DEF from
<1>7. to \in Int /\ to <= L /\ to <= from + p /\ (to = L \/ to = from + p)
  BY <1>1, <1>2, <1>5 DEF AtMost
<1>. HIDE DEF to
<1>8. /\ Len(Visible(table)) = IF from + 1 <= to THEN to - (from + 1) + 1 ELSE 0
      /\ Visible(table) \in Seq(Pooled)
  <2>1. \A i \in from + 1 .. to : Rows(table)[i] \in Pooled
    BY <1>1, <1>5, <1>7, ElementOfSeq DEF L
  <2>. QED
    BY <1>4, <1>5, <1>7, <2>1, SubSeqProperties
<1>9. Rows(table) # << >> => from + 1 <= to
  <2>1. (PageCount(table) - 1) * p \in Int
    BY <1>2
  <2>. QED
    BY <1>1, <1>2, <1>3, <1>5, <1>6, <1>7, <2>1
<1>10. Rows(table) # << >> => Visible(table) # << >>
  <2>1. Len(<< >>) = 0
    BY EmptySeq
  <2>. QED
    BY <1>5, <1>7, <1>8, <1>9, <2>1
<1>11. Len(Visible(table)) <= p
  BY <1>2, <1>5, <1>7, <1>8
<1>. QED
  BY <1>10, <1>11 DEF p

\* The figures above the table are the rows that each verdict's filter would leave.
LEMMA SummaryIs ==
  ASSUME WallInv, TableInv, table.verdict = All
  PROVE  LET s == Summary(table)
             under(v) == Len(Rows([table EXCEPT !.verdict = v]))
         IN /\ s.needsValidation = under("idle") /\ s.validating = under("validating")
            /\ s.ready = under("ready") /\ s.failed = under("failed")
<1> DEFINE under(v) == Len(Rows([table EXCEPT !.verdict = v]))
           M == Matching(table)
           of(v) == {g \in M : IdleList[g] = v}
<1>1. \A v \in Verdicts : under(v) = Len(Kept(ByIdleness, of(v)))
  <2>. SUFFICES ASSUME NEW v \in Verdicts PROVE Matching([table EXCEPT !.verdict = v]) = of(v)
    BY DEF Rows
  <2>1. [table EXCEPT !.verdict = v].verdict = v /\ [table EXCEPT !.verdict = v].node = table.node
    BY DEF TableInv, Tables
  <2>2. v # All
    BY FilterAssumption
  <2>. QED
    BY <2>1, <2>2 DEF Matching
<1>2. \A v : Len(Kept(Rows(table), of(v))) = Len(Kept(ByIdleness, of(v)))
  <2>. SUFFICES ASSUME NEW v PROVE Kept(Kept(ByIdleness, M), of(v)) = Kept(ByIdleness, of(v))
    BY DEF Rows
  <2>1. of(v) \in SUBSET M
    OBVIOUS
  <2>. HIDE DEF M, of
  <2>. QED
    BY <2>1, TableAssumption, KeptAgain
<1>3. \A g \in M : IdleList[g] \in Verdicts
  BY IdleIs DEF Matching
<1> DEFINE len(A) == Len(Kept(ByIdleness, A))
<1>4. \A A : len(A) \in Nat
  BY TableAssumption, KeptType
<1>5. \A A, B : A \cap B = {} => len(A \cup B) = len(A) + len(B)
  BY TableAssumption, KeptParts
<1>6. len(M) = len(of("idle")) + len(of("validating")) + len(of("ready")) + len(of("failed"))
  <2>1. M = ((of("idle") \cup of("validating")) \cup of("ready")) \cup of("failed")
    BY <1>3 DEF Verdicts
  <2>2. /\ of("idle") \cap of("validating") = {}
        /\ (of("idle") \cup of("validating")) \cap of("ready") = {}
        /\ ((of("idle") \cup of("validating")) \cup of("ready")) \cap of("failed") = {}
    OBVIOUS
  <2>. HIDE DEF M, of, len
  <2>3. len(of("idle") \cup of("validating")) = len(of("idle")) + len(of("validating"))
    BY <1>5, <2>2
  <2> DEFINE U == of("idle") \cup of("validating")
  <2>4. len(U \cup of("ready")) = len(U) + len(of("ready"))
    BY <1>5, <2>2
  <2>5. len((U \cup of("ready")) \cup of("failed")) = len(U \cup of("ready")) + len(of("failed"))
    BY <1>5, <2>2
  <2>6. len(M) = len((U \cup of("ready")) \cup of("failed"))
    BY <2>1
  <2>. HIDE DEF U
  <2>. QED
    BY <2>3, <2>4, <2>5, <2>6 DEF U
<1>7. /\ Summary(table).total = len(M)
      /\ Summary(table).validating = Len(Kept(Rows(table), of("validating")))
      /\ Summary(table).ready = Len(Kept(Rows(table), of("ready")))
      /\ Summary(table).failed = Len(Kept(Rows(table), of("failed")))
      /\ Summary(table).needsValidation
         = Len(Rows(table)) - Len(Kept(Rows(table), of("validating")))
           - Len(Kept(Rows(table), of("ready"))) - Len(Kept(Rows(table), of("failed")))
  BY DEF Summary, Rows
<1>8. Len(Rows(table)) = len(M)
  BY DEF Rows
<1>. HIDE DEF M, of
<1>9. /\ len(of("idle")) \in Nat /\ len(of("validating")) \in Nat
      /\ len(of("ready")) \in Nat /\ len(of("failed")) \in Nat
  BY <1>4
<1>10. /\ Summary(table).validating = len(of("validating"))
       /\ Summary(table).ready = len(of("ready")) /\ Summary(table).failed = len(of("failed"))
       /\ Summary(table).needsValidation = len(of("idle"))
  <2>1. /\ Len(Kept(Rows(table), of("validating"))) = len(of("validating"))
        /\ Len(Kept(Rows(table), of("ready"))) = len(of("ready"))
        /\ Len(Kept(Rows(table), of("failed"))) = len(of("failed"))
    BY <1>2
  <2>. HIDE DEF len
  <2>. QED
    BY <1>6, <1>7, <1>8, <1>9, <2>1
<1>11. {"idle", "validating", "ready", "failed"} \subseteq Verdicts
  BY DEF Verdicts
<1>. QED
  BY <1>1, <1>10, <1>11

LEMMA TableInvariance == Spec => [](WallInv /\ TableInv)
<1>1. ViewsInit => TableInv
  BY FreshIs DEF ViewsInit, TableInit, TableInv
<1>2. IInv => WallInv
  BY DEF IInv
<1>. QED
  BY <1>1, <1>2, TableStep, Invariance, PTL DEF Spec

\* THEOREM: however the list shrinks and grows under the page and the filters chosen, the
\* pages hold every row that matches once and in order, the page in view is never an empty
\* one while rows match, and the figures above the table are the rows that each verdict's
\* filter would leave.
THEOREM EveryRowIsOnAPage == Spec => []EveryRowOnAPage
<1>1. ASSUME WallInv, TableInv PROVE EveryRowOnAPage
  <2>1. FlattenSeq([n \in 1 .. PageCount(table) |-> PageOf(table, n)]) = Rows(table)
    <3> DEFINE r == Rows(table)
               p == table.pageSize
               c == PageCount(table)
    <3>1. /\ p \in Nat \ {0} /\ c \in Nat \ {0} /\ r \in Seq(Pooled)
          /\ Len(r) <= c * p /\ (c > 1 => (c - 1) * p < Len(r))
      BY <1>1, PageIs, RowsAre
    <3>. HIDE DEF r, p, c
    <3>2. FlattenSeq([n \in 1 .. c |-> SubSeq(r, (n - 1) * p + 1, AtMost(Len(r), n * p))]) = r
      BY <3>1, PagesFlatten
    <3>. QED
      BY <3>2 DEF r, p, c, PageOf
  <2>. QED
    BY <1>1, <2>1, VisibleIs, SummaryIs DEF EveryRowOnAPage
<1>. QED
  BY <1>1, TableInvariance, PTL

\* THEOREM: of however many pages, the pager has the current one, the first or a way to it,
\* and the last, in order and none twice.
THEOREM ThePagerReaches == PagerReaches(Nat \ {0})
<1>. SUFFICES ASSUME NEW total \in Nat \ {0}, NEW current \in 1 .. total
              PROVE  LET shown == Kept(PageNumbers(current, total), Nat \ {0})
                     IN /\ {current, total} \subseteq ToSet(shown)
                        /\ \A i \in 1 .. Len(shown) - 1 : shown[i] < shown[i + 1]
                        /\ shown[1] >= 1
  BY DEF PagerReaches
<1> DEFINE shown == Kept(PageNumbers(current, total), Nat \ {0})
<1>1. CASE total <= PageWindow + 2
  <2> DEFINE all == [i \in 1 .. total |-> i]
  <2>1. all \in Seq(1 .. total) /\ Len(all) = total
    OBVIOUS
  <2>2. PageNumbers(current, total) = all
    BY <1>1 DEF PageNumbers
  <2>3. 1 .. total \subseteq Nat \ {0}
    OBVIOUS
  <2>4. shown = all
    <3>. HIDE DEF all
    <3>. QED
      BY <2>1, <2>2, <2>3, KeptAll
  <2>. HIDE DEF shown
  <2>5. \A i \in 1 .. total : shown[i] = i
    BY <2>4
  <2>6. Len(shown) = total /\ DOMAIN shown = 1 .. total
    BY <2>1, <2>4
  <2>. QED
    BY <2>5, <2>6 DEF ToSet, shown
<1>2. CASE ~(total <= PageWindow + 2)
  <2> DEFINE start == AtMost(total - PageWindow, AtLeast(1, current - 2))
             w == [i \in 1 .. PageWindow |-> start + i - 1]
             T == 0 .. total
  <2>1. start \in 1 .. total - 5 /\ (current \in start .. start + 4 \/ current = total)
    BY <1>2 DEF AtMost, AtLeast, PageWindow
  <2>. HIDE DEF start
  <2>2. /\ w \in Seq(1 .. total) /\ w \in Seq(T) /\ Len(w) = 5
        /\ \A i \in 1 .. 5 : w[i] = start + i - 1
    BY <1>2, <2>1 DEF PageWindow
  <2>3. PageNumbers(current, total) \in {w \o <<total>>, w \o <<0, total>>}
    BY <1>2 DEF PageNumbers, start
  <2>. HIDE DEF w
  <2>4. w \o <<total>> = Append(w, total) /\ w \o <<0, total>> = Append(Append(w, 0), total)
    BY <2>2
  <2>5. Kept(w, Nat \ {0}) = w
    BY <2>2, KeptAll
  <2>6. total \in T /\ 0 \in T /\ total \in Nat \ {0}
    OBVIOUS
  <2>7. Append(w, 0) \in Seq(T)
    BY <2>2, <2>6, AppendProperties
  <2>8. /\ Kept(Append(w, total), Nat \ {0}) = Append(Kept(w, Nat \ {0}), total)
        /\ Kept(Append(w, 0), Nat \ {0}) = Kept(w, Nat \ {0})
        /\ Kept(Append(Append(w, 0), total), Nat \ {0}) = Append(Kept(Append(w, 0), Nat \ {0}), total)
    <3>. DEFINE A == Nat \ {0}
    <3>1. 0 \notin A /\ total \in A
      OBVIOUS
    <3>. HIDE DEF A, T
    <3>2. \A s \in Seq(T) : /\ Kept(Append(s, total), A) = Append(Kept(s, A), total)
                           /\ Kept(Append(s, 0), A) = Kept(s, A)
      BY <2>6, <3>1, KeptAppend
    <3>. QED
      BY <2>2, <2>7, <3>2 DEF A
  <2>9. shown = Append(w, total)
    BY <2>3, <2>4, <2>5, <2>8
  <2>. HIDE DEF shown
  <2>10. /\ Len(shown) = 6 /\ DOMAIN shown = 1 .. 6 /\ shown[6] = total
         /\ \A i \in 1 .. 5 : shown[i] = start + i - 1
    <3>1. /\ Len(Append(w, total)) = 5 + 1 /\ Append(w, total) \in Seq(T)
          /\ \A i \in 1 .. 5 : Append(w, total)[i] = w[i]
          /\ Append(w, total)[5 + 1] = total
      <4>1. w \in Seq(T) /\ total \in T /\ Len(w) = 5
        BY <2>2, <2>6
      <4>. HIDE DEF T
      <4>2. \A s \in Seq(T) : /\ Len(Append(s, total)) = Len(s) + 1 /\ Append(s, total) \in Seq(T)
                             /\ Append(s, total)[Len(s) + 1] = total
                             /\ \A i \in 1 .. Len(s) : Append(s, total)[i] = s[i]
        BY <4>1, AppendProperties
      <4>. QED
        BY <4>1, <4>2
    <3>. QED
      BY <2>2, <2>9, <3>1, LenProperties
  <2>11. \A n \in start .. start + 4 : n - start + 1 \in 1 .. 5 /\ n = start + (n - start + 1) - 1
    BY <2>1
  <2>12. {current, total} \subseteq ToSet(shown)
    <3>1. current = total \/ \E i \in 1 .. 5 : shown[i] = current
      BY <2>1, <2>10, <2>11
    <3>. QED
      BY <2>10, <3>1 DEF ToSet
  <2>13. \A i \in 1 .. 5 : shown[i] < shown[i + 1]
    BY <2>1, <2>10
  <2>14. shown[1] >= 1
    BY <2>1, <2>10
  <2>15. Len(shown) - 1 = 5
    BY <2>10
  <2>. QED
    BY <2>12, <2>13, <2>14, <2>15 DEF shown
<1>. QED
  BY <1>1, <1>2

-----------------------------------------------------------------------------
(* The shell. The inductive invariant: a top picked by hand is that of the  *)
(* page the effect saw last, or of the page it has yet to see, which is     *)
(* then not the index route that would redirect.                            *)

MenuInv ==
  /\ seen \in Routes
  /\ path # Login =>
       /\ path \in Routes
       /\ picked # None =>
            \/ picked = TopForPath[seen]
            \/ path # seen /\ path # Root /\ picked = TopForPath[path]

LEMMA MenuStep == MenuInv /\ [Next]_vars => MenuInv'
<1>. SUFFICES ASSUME MenuInv, [Next]_vars PROVE MenuInv'
  OBVIOUS
<1>1. CASE UNCHANGED <<path, seen, picked>>
  BY <1>1 DEF MenuInv
<1>2. CASE StatusKnown \/ TogglePalette
  BY <1>1, <1>2 DEF StatusKnown, TogglePalette
<1>3. CASE HomeRedirect
  BY <1>3, MenuTables DEF HomeRedirect, MenuInv, Root, Login
<1>4. CASE PathEffect
  BY <1>4 DEF PathEffect, LetGo, MenuInv
<1>5. ASSUME NEW top \in TopIds, SelectTop(top) PROVE MenuInv'
  <2>1. InDemo \in BOOLEAN
    BY DEF InDemo
  <2>2. /\ path' \in Routes \ {Root} /\ TopForPath[path'] = top
        /\ picked' = top /\ seen' = seen
    BY <1>5, <2>1, MenuTables DEF SelectTop
  <2>. QED
    BY <2>2 DEF MenuInv
<1>6. ASSUME NEW to \in Routes, Follow(to) \/ SearchTo(to) PROVE MenuInv'
  BY <1>6, MenuTables DEF Follow, SearchTo, MenuInv
<1>7. CASE MenuNext \/ Unauthorized
  BY <1>2, <1>3, <1>4, <1>5, <1>6, <1>7 DEF MenuNext, Unauthorized, SignOff, MenuInv
<1>8. CASE WallNext
  BY <1>1, <1>8 DEF WallNext, Turn, Lapse, FleetPoll, FleetPollFails, StatePoll, FilterBy, SetFilter,
     SeriesFollow, menuVars
<1>9. CASE TableNext
  BY <1>1, <1>9 DEF TableNext, Edit, TurnPage, SetTable
<1>10. CASE LookNext
  BY <1>1, <1>10 DEF LookNext, Explore, ChartTab, PickNode, DrillGpu, DrillCsp, ClearGraph,
     OpenSheet, CloseSheet, Answered, Refused, Denied, Tick, Chosen, menuVars
<1>11. CASE DetailsNext
  BY <1>1, <1>11 DEF DetailsNext, PickInstance, PickDevice, OpenDrawer, CloseDrawer, Effects,
     Follows, Selected, menuVars
<1>12. CASE UNCHANGED vars
  BY <1>1, <1>12 DEF vars, menuVars
<1>. QED
  BY <1>7, <1>8, <1>9, <1>10, <1>11, <1>12 DEF Next

\* THEOREM: once the effects have run the menu stands where the page is, by whatever mixture
\* of tops, links, searches, typed addresses and redirects it was reached: no top picked by
\* hand outlives the page it led to.
THEOREM MenuIsAtThePage == Spec => []MenuStandsAtPage
<1>1. ViewsInit => MenuInv
  BY MenuTables DEF ViewsInit, MenuInit, MenuInv, Routes
<1>2. MenuInv => MenuStandsAtPage
  <2>. SUFFICES ASSUME MenuInv, path = seen PROVE MenuStandsAtPage
    BY DEF MenuStandsAtPage
  <2>1. ActiveTop = TopForPath[path] /\ path \in Routes /\ InDemo \in BOOLEAN
    BY MenuTables DEF MenuInv, ActiveTop, InDemo
  <2>2. /\ ActiveTop \in VisibleTops(InDemo)
        /\ Highlighted = {Match[path]} \cap SubMenu
    BY <2>1, MenuTables DEF Highlighted, SubMenu
  <2>. QED
    BY <2>1, <2>2, MenuTables DEF MenuStandsAtPage, SearchItems, VisibleTops
<1>. QED
  BY <1>1, <1>2, MenuStep, PTL DEF Spec

=============================================================================
