------------------------------- MODULE IdleReuse -------------------------------
(***************************************************************************)
(* GpuIdle with the IdleReuseDrawer: the list of idle GPUs, the drawer of  *)
(* one of them, and the two actions on a GPU.                              *)
(*                                                                         *)
(* srv is the verdict of each GPU, "gone" when it is not on the list. What *)
(* is listed on which page of the table is IdleTable's subject.            *)
(***************************************************************************)
EXTENDS Feed

IdleSrv == [Gpus -> {"gone", "idle", "validating", "ready", "failed"}]

\* The GPU the drawer shows: it is looked up in the newest list.
Shown == IF snap = NoSnap \/ local.selected = None THEN None
         ELSE IF snap[local.selected] = "gone" THEN None ELSE local.selected

IdleFresh == [selected |-> None, acting |-> None, err |-> None]

Listed(g) == snap # NoSnap /\ snap[g] # "gone"

SelectGpu(g) ==
  /\ Listed(g) /\ local.selected # g
  /\ local' = [local EXCEPT !.selected = g]
  /\ UNCHANGED <<serverVars, status, snap, fetch, acts, histVars>>

CloseDrawer ==
  /\ local.selected # None
  /\ local' = [local EXCEPT !.selected = None, !.err = None]
  /\ UNCHANGED <<serverVars, status, snap, fetch, acts, histVars>>

\* onAct: one uuid is kept as the one in action.
OnAct(act, g) ==
  /\ local.acting # g /\ CanSend
  /\ Send(act, g, None, None)
  /\ local' = [local EXCEPT !.acting = g, !.err = None]
  /\ UNCHANGED <<serverVars, status, snap, fetch, histVars>>

\* The button of a row: a first validation is an action, the rest opens the drawer (or,
\* while it is validated, the validation page).
Recommend(g) ==
  /\ Listed(g) /\ local.acting # g
  /\ CASE snap[g] = "idle" -> OnAct("start-idle-validation", g)
       [] snap[g] \in {"ready", "failed"} -> SelectGpu(g)
       [] OTHER -> FALSE

\* The button of the drawer goes by the verdict.
DrawerAct ==
  /\ Shown # None
  /\ CASE snap[Shown] = "ready" -> OnAct("return-idle-to-service", Shown)
       [] snap[Shown] \in {"idle", "failed"} -> OnAct("start-idle-validation", Shown)
       [] OTHER -> FALSE

IdleOutcomes(a) ==
  IF a.act = "return-idle-to-service"
    THEN IF srv[a.of] = "ready" THEN {[srv EXCEPT ![a.of] = "gone"]} ELSE {}
    ELSE IF srv[a.of] \in {"idle", "failed"} THEN {[srv EXCEPT ![a.of] = "validating"]} ELSE {}

IdleEvents(s) ==
  {t \in {[s EXCEPT ![g] = v] : g \in Gpus, v \in {"gone", "idle", "ready", "failed"}} :
     \E g \in Gpus : <<s[g], t[g]>> \in
       {<<"validating", "ready">>, <<"validating", "failed">>, <<"ready", "idle">>,
        <<"gone", "idle">>, <<"idle", "gone">>}}

\* A return that was done closes the drawer; in any case no GPU is in action any more.
IdleAfter(a) ==
  IF a.is # "ok" THEN [local EXCEPT !.acting = None, !.err = a.of]
  ELSE IF a.act = "return-idle-to-service" THEN [local EXCEPT !.acting = None, !.selected = None]
  ELSE [local EXCEPT !.acting = None]

IdleThrown == [local EXCEPT !.acting = None]

IdleNext ==
  \/ \E g \in Gpus : SelectGpu(g) \/ Recommend(g)
  \/ CloseDrawer \/ DrawerAct

=============================================================================
