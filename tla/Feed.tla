--------------------------------- MODULE Feed ---------------------------------
(***************************************************************************)
(* GpuLayout: the snapshot of the demonstration server that all pages      *)
(* under /gpu share, and the actions they ask the server for.              *)
(*                                                                         *)
(* What the server's state is, the page in view says: srv is opaque here.  *)
(* The layout asks for it, keeps the last answer in snap, and asks again   *)
(* when a timer fires, or at once when refresh is called: the former       *)
(* request is cancelled then. An action is a record in acts until its      *)
(* answer is delivered to the handler that awaits it. from tells what is   *)
(* left of its sender: "page", "layout" when the page was left, "gone"     *)
(* when the layout was unmounted.                                          *)
(***************************************************************************)
EXTENDS Integers, Sequences, FiniteSets

CONSTANTS
  Line,         \* the idle GPUs, in the order of the idle list
  Victim,       \* the node of the scenario
  None,
  MaxActs,      \* bound: actions in flight
  MaxTroubles   \* bound: failed requests, ends of the session and departures from the page

Gpus == {Line[i] : i \in DOMAIN Line}

ASSUME FeedAssumption ==
  /\ Line \in Seq(Gpus)
  /\ None \notin Gpus \cup {Victim} /\ Victim \notin Gpus
  /\ MaxActs \in Nat \ {0} /\ MaxTroubles \in Nat

VARIABLES
  srv,        \* server: what the page in view reads and acts on
  session,    \* server: is the session of this client live?
  status,     \* AuthContext: "authed", "anon"
  snap,       \* GpuLayout: the last snapshot, NoSnap for null
  fetch,      \* GpuLayout: its request, or the timer of the next one
  acts,       \* the actions in flight
  local,      \* the state of the page in view
  failures, leaves,  \* history: what is counted against MaxTroubles
  lost        \* history: has an action of this page gone without an answer?

serverVars == <<srv, session>>
histVars   == <<failures, leaves, lost>>

-----------------------------------------------------------------------------
NoSnap == None

Timer   == [is |-> "timer", seen |-> NoSnap]
Asking  == [is |-> "sent", seen |-> NoSnap]
Off     == [is |-> "off", seen |-> NoSnap]

Slots == 1 .. MaxActs

FreeSlot == CHOOSE n \in Slots : \A a \in acts : a.slot # n

\* What runDemoAction is called with: the action, what it is about, a value it sets, and
\* (history) what the operator had chosen when the button was pressed.
Action(act, of, val, want) ==
  [slot |-> FreeSlot, act |-> act, of |-> of, val |-> val, want |-> want,
   from |-> "page", is |-> "sent"]

CanSend == Cardinality(acts) < MaxActs /\ status = "authed" /\ snap # NoSnap

Send(act, of, val, want) == acts' = acts \cup {Action(act, of, val, want)}

Own(a) == a.from = "page"

LeftByPage == {[a EXCEPT !.from = IF Own(a) THEN "layout" ELSE @] : a \in acts}

LeftByAll(others) == {[a EXCEPT !.from = "gone"] : a \in others}

Trouble == failures + leaves < MaxTroubles

FeedInit ==
  /\ session = TRUE /\ status = "authed"
  /\ snap = NoSnap /\ fetch = Asking /\ acts = {}
  /\ failures = 0 /\ leaves = 0 /\ lost = FALSE

-----------------------------------------------------------------------------
(* The poll of GpuLayout; settled is the state of the page after it has     *)
(* rendered the new snapshot.                                               *)

ServeState ==
  /\ fetch.is = "sent"
  /\ fetch' = IF session THEN [is |-> "ok", seen |-> srv] ELSE [is |-> "fail", seen |-> NoSnap]
  /\ UNCHANGED <<serverVars, status, snap, acts, local, histVars>>

FailState ==
  /\ fetch.is \in {"sent", "ok"} /\ Trouble
  /\ failures' = failures + 1
  /\ fetch' = [is |-> "fail", seen |-> NoSnap]
  /\ UNCHANGED <<serverVars, status, snap, acts, local, leaves, lost>>

AskedNoMore == Off

\* Whatever the answer, the next request is planned.
NextAsk == Timer

\* Whatever went wrong, a 401 too, is dropped: the snapshot stays.
StateAnswered(settled) ==
  /\ fetch.is \in {"ok", "fail"}
  /\ IF fetch.is = "ok" THEN /\ snap' = fetch.seen /\ local' = settled
                             /\ fetch' = Timer
                        ELSE /\ fetch' = NextAsk
                             /\ UNCHANGED <<snap, local>>
  /\ UNCHANGED <<serverVars, status, acts, histVars>>

TimerFires ==
  /\ fetch.is = "timer"
  /\ fetch' = Asking
  /\ UNCHANGED <<serverVars, status, snap, acts, local, histVars>>

-----------------------------------------------------------------------------
(* Actions.                                                                 *)

Become(a, is) == acts' = (acts \ {a}) \cup {[a EXCEPT !.is = is]}

\* The server does what it is asked or refuses it; outcomes are the states it may be in
\* after doing it, none when it must refuse; atWill says if it may refuse in any state.
ServeAct(a, outcomes, atWill) ==
  /\ a \in acts /\ a.is = "sent"
  /\ \/ ~session /\ Become(a, "unauth") /\ UNCHANGED srv
     \/ session /\ (outcomes = {} \/ atWill) /\ Become(a, "refused") /\ UNCHANGED srv
     \/ session /\ (\E s \in outcomes : srv' = s) /\ Become(a, "ok")
  /\ UNCHANGED <<session, status, snap, fetch, local, histVars>>

\* The answer is lost, whether or not the action was done.
LoseAct(a) ==
  /\ a \in acts /\ a.is \in {"sent", "ok", "refused"} /\ Trouble
  /\ failures' = failures + 1
  /\ Become(a, "lost")
  /\ UNCHANGED <<serverVars, status, snap, fetch, local, leaves, lost>>

\* act has an outcome: the snapshot is asked for again, then the handler goes on:
\* after is the page's state, more the actions it sends next.
ActAnswered(a, after, more) ==
  /\ a \in acts /\ a.is \in {"ok", "refused"}
  /\ fetch' = IF a.from = "gone" THEN fetch ELSE Asking
  /\ acts' = (acts \ {a}) \cup more
  /\ local' = IF Own(a) THEN after ELSE local
  /\ UNCHANGED <<serverVars, status, snap, histVars>>

\* act throws: refresh is not reached, and only a finally of the handler runs.
ActThrows(a, after) ==
  /\ a \in acts /\ a.is = "lost"
  /\ acts' = acts \ {a}
  /\ local' = IF Own(a) THEN after ELSE local
  /\ lost' = (lost \/ Own(a))
  /\ UNCHANGED <<serverVars, status, snap, fetch, failures, leaves>>

-----------------------------------------------------------------------------
(* Login state.                                                             *)

\* Everything under RequireAuth is unmounted.
SignOff == status' = "anon" /\ snap' = NoSnap /\ fetch' = Off

\* A request that goes through lib/api.ts brings a 401: the AuthContext is told.
ActUnauthorized(a, fresh) ==
  /\ a \in acts /\ a.is = "unauth"
  /\ SignOff
  /\ acts' = LeftByAll(acts \ {a})
  /\ local' = fresh
  /\ UNCHANGED <<serverVars, histVars>>

QueryUnauthorized(fresh) ==
  /\ status = "authed" /\ ~session
  /\ SignOff
  /\ acts' = LeftByAll(acts) /\ local' = fresh
  /\ UNCHANGED <<serverVars, histVars>>

EndSession ==
  /\ session /\ Trouble
  /\ session' = FALSE /\ leaves' = leaves + 1
  /\ UNCHANGED <<srv, status, snap, fetch, acts, local, failures, lost>>

Login ==
  /\ status = "anon"
  /\ session' = TRUE /\ status' = "authed" /\ fetch' = Asking /\ lost' = FALSE
  /\ UNCHANGED <<srv, snap, acts, local, failures, leaves>>

\* The page is left and opened again under the same layout.
LeavePage(fresh) ==
  /\ status = "authed" /\ Trouble
  /\ leaves' = leaves + 1
  /\ acts' = LeftByPage /\ local' = fresh /\ lost' = FALSE
  /\ UNCHANGED <<serverVars, status, snap, fetch, failures>>

=============================================================================
