------------------------------ MODULE Validation ------------------------------
(***************************************************************************)
(* GpuValidation: the asset under validation, its polled detail, the       *)
(* burn-in form of the replaced node and the four actions.                 *)
(*                                                                         *)
(* srv is the scenario phase, the verdict of each idle GPU ("gone" when it *)
(* is not on the idle list) and the burn-in configuration. Which action    *)
(* the demonstration server allows is its own decision (Gates), sent with  *)
(* the detail; the page derives none of it.                                *)
(***************************************************************************)
EXTENDS Feed

CONSTANTS
  Configs,    \* burn-in configurations (profile, duration, target)
  InRange     \* those the server accepts

Assets == Gpus \cup {Victim}
Phases == {"normal", "burnin-1", "burnin-failed", "burnin-2", "ready-to-return", "returned"}
Verdicts == {"gone", "idle", "validating", "ready", "failed"}

ValidationSrv == [phase : Phases, verdict : [Gpus -> Verdicts], cfg : Configs]

\* VICTIM_RUN_PHASES: the replaced node has a run to show.
VictimHasRun(s) ==
  s.phase \in {"burnin-1", "burnin-failed", "burnin-2", "ready-to-return", "returned"}

BurninActive(s) == s.phase \in {"burnin-1", "burnin-2"}

NoDetail == [of |-> None, gates |-> {}]

GateNames == {"start-precheck", "start-reuse-burnin", "start-burnin", "return-to-service"}

\* What the server allows for an asset, as it tells with the detail.
Gates(s, u) ==
  {g \in GateNames :
     CASE g = "start-precheck"     -> u \in Gpus /\ s.verdict[u] \in {"idle", "ready", "failed"}
       [] g = "start-reuse-burnin" -> u \in Gpus /\ s.verdict[u] = "ready"
       [] g = "start-burnin"       -> s.phase = "burnin-failed"
       [] g = "return-to-service"  -> s.phase = "ready-to-return"}

-----------------------------------------------------------------------------
(* The asset under validation.                                              *)

\* The first GPU of the list with a verdict, None if there is none.
FirstWith(s, v) ==
  LET at == {i \in DOMAIN Line : s.verdict[Line[i]] = v}
  IN IF at = {} THEN None ELSE Line[CHOOSE i \in at : \A j \in at : i <= j]

NothingPinned(p, s) == FALSE

\* As long as there is something to see of it, the asset once chosen stays.
Held(p, s) == p # None /\ s.verdict[p] \notin {"gone", "idle"}

LiveAsset(p, s) ==
  IF Held(p, s) THEN p
  ELSE IF FirstWith(s, "validating") # None THEN FirstWith(s, "validating")
  ELSE IF FirstWith(s, "ready") # None THEN FirstWith(s, "ready")
  ELSE FirstWith(s, "failed")

\* ?uuid= first, then the replaced node once it has a run, then the live asset.
Target(l, s) ==
  IF l.param # None THEN l.param
  ELSE IF s = NoSnap THEN None
  ELSE IF VictimHasRun(s) THEN Victim
  ELSE IF LiveAsset(l.pinned, s) # None THEN LiveAsset(l.pinned, s)
  ELSE Victim

BannersStay(l) == l

\* The effect on [targetUuid]: banners are about the asset they were raised on.
BannersGone(l) == [l EXCEPT !.err = None, !.notice = None, !.late = FALSE]

Query(u) == IF u = None THEN [is |-> "timer", of |-> None, gates |-> {}]
                        ELSE [is |-> "sent", of |-> u, gates |-> {}]

OnPhaseOnly(l, t, ph) == ph # l.phase

\* The dependencies of usePolledQuery.
Resubscribes(l, t, ph) == t # l.target \/ ph # l.phase

\* The effects after a render: pin the live asset, drop the banners of a former target,
\* subscribe the detail anew when target or phase have changed.
Settled(l, s) ==
  LET t  == Target(l, s)
      ph == IF s = NoSnap THEN "none" ELSE s.phase
      l1 == IF s = NoSnap \/ LiveAsset(l.pinned, s) = None THEN l
            ELSE [l EXCEPT !.pinned = LiveAsset(l.pinned, s)]
      l2 == IF t = l.target THEN l1 ELSE BannersGone(l1)
  IN [l2 EXCEPT !.target = t, !.phase = ph,
                !.query = IF Resubscribes(l, t, ph) THEN Query(t) ELSE @]

ValidationFresh ==
  [param |-> None, pinned |-> None, target |-> None, phase |-> "none",
   busy |-> FALSE, choice |-> None, saved |-> FALSE,
   err |-> None, notice |-> None, late |-> FALSE,
   detail |-> NoDetail, query |-> Query(None)]

-----------------------------------------------------------------------------
(* The polled detail.                                                       *)

DetailTick ==
  /\ local.query.is = "timer" /\ local.target # None
  /\ local' = [local EXCEPT !.query = Query(local.target)]
  /\ UNCHANGED <<serverVars, status, snap, fetch, acts, histVars>>

ServeDetail ==
  /\ local.query.is = "sent" /\ status = "authed" /\ session
  /\ local' = [local EXCEPT !.query.is = "ok", !.query.gates = Gates(srv, local.query.of)]
  /\ UNCHANGED <<serverVars, status, snap, fetch, acts, histVars>>

\* No answer, an error or a 401, which fetchValidation tells nobody of: what is shown stays.
DetailFails ==
  /\ status = "authed"
  /\ \/ local.query.is = "sent" /\ ~session /\ UNCHANGED failures
     \/ local.query.is \in {"sent", "ok"} /\ Trouble /\ failures' = failures + 1
  /\ local' = [local EXCEPT !.query = Query(None)]
  /\ UNCHANGED <<serverVars, status, snap, fetch, acts, leaves, lost>>

DetailAnswered ==
  /\ local.query.is = "ok"
  /\ local' = [local EXCEPT !.detail = [of |-> local.query.of, gates |-> local.query.gates],
                            !.query = Query(None)]
  /\ UNCHANGED <<serverVars, status, snap, fetch, acts, histVars>>

-----------------------------------------------------------------------------
(* What the operator does.                                                  *)

\* ?uuid= of the address: a link of another page, or the menu without it.
OpenAsset(u) ==
  /\ status = "authed" /\ u # local.param
  /\ local' = Settled([local EXCEPT !.param = u], snap)
  /\ UNCHANGED <<serverVars, status, snap, fetch, acts, histVars>>

IsVictim == local.target = Victim

FormOpen == snap # NoSnap /\ IsVictim /\ ~local.busy /\ ~BurninActive(snap)

\* The value the form shows: what was entered, else what the server has.
Effective == IF local.choice # None THEN local.choice ELSE snap.cfg

ChooseConfig(c) ==
  /\ FormOpen
  /\ local' = [local EXCEPT !.choice = c, !.saved = FALSE]
  /\ UNCHANGED <<serverVars, status, snap, fetch, acts, histVars>>

Press(act, of, val, want, l) ==
  /\ CanSend
  /\ Send(act, of, val, want)
  /\ local' = l
  /\ UNCHANGED <<serverVars, status, snap, fetch, histVars>>

BusyNoError == [local EXCEPT !.busy = TRUE, !.err = None]

SaveProfile == FormOpen /\ Press("configure", Victim, Effective, None, BusyNoError)

Offered(gate) == snap # NoSnap /\ ~local.busy /\ gate \in local.detail.gates

\* Save first, then start: the first of the two requests.
StartBurnin ==
  /\ IsVictim /\ Offered("start-burnin")
  /\ Press("configure", Victim, Effective, Effective, BusyNoError)

ReturnToService ==
  IsVictim /\ Offered("return-to-service") /\ Press("return-to-service", Victim, None, None, BusyNoError)

RunValidation(act) ==
  /\ Offered(act)
  /\ Press(act, local.target, None, None, [BusyNoError EXCEPT !.notice = None])

-----------------------------------------------------------------------------
(* The server's part, and what becomes of the answers.                      *)

ValidationOutcomes(a) ==
  IF a.act = "configure" THEN {[srv EXCEPT !.cfg = a.val] : c \in {a.val} \cap InRange}
  ELSE IF a.act \notin Gates(srv, a.of) THEN {}
  ELSE CASE a.act = "start-burnin"      -> {[srv EXCEPT !.phase = "burnin-2"]}
         [] a.act = "return-to-service" -> {[srv EXCEPT !.phase = "returned"]}
         [] OTHER                       -> {[srv EXCEPT !.verdict[a.of] = "validating"]}

\* The scenario and the reuse line go on by themselves, and the presenter resets them.
ValidationEvents(s) ==
  {t \in {[s EXCEPT !.phase = p] : p \in Phases} :
     <<s.phase, t.phase>> \in {<<"normal", "burnin-1">>, <<"burnin-1", "burnin-failed">>,
                               <<"burnin-2", "ready-to-return">>, <<"returned", "normal">>}}
  \cup {t \in {[s EXCEPT !.verdict[g] = v] : g \in Gpus, v \in Verdicts} :
     \E g \in Gpus : /\ s.verdict[g] # t.verdict[g]
                     /\ <<s.verdict[g], t.verdict[g]>> \in
                          {<<"idle", "validating">>, <<"validating", "ready">>,
                           <<"validating", "failed">>, <<"ready", "gone">>,
                           <<"ready", "idle">>, <<"failed", "idle">>, <<"gone", "idle">>}}

BusyAfterRefusal(a, l) ==
  IF a.is = "ok" THEN [l EXCEPT !.choice = None, !.saved = TRUE, !.busy = (a.want # None)]
  ELSE [l EXCEPT !.saved = FALSE, !.err = a.of]

\* saveBurninConfig, and what the handler does after it.
AfterConfigure(a, l) ==
  IF a.is = "ok" THEN [l EXCEPT !.choice = None, !.saved = TRUE, !.busy = (a.want # None)]
  ELSE [l EXCEPT !.saved = FALSE, !.busy = FALSE, !.err = a.of, !.late = @ \/ a.of # l.target]

\* The last step of the other handlers.
AfterOthers(a, l) ==
  IF a.is # "ok" THEN [l EXCEPT !.busy = FALSE, !.err = a.of, !.late = @ \/ a.of # l.target]
  ELSE IF a.act \in {"start-burnin", "return-to-service"} THEN [l EXCEPT !.busy = FALSE]
  ELSE [l EXCEPT !.busy = FALSE, !.notice = a.of, !.late = @ \/ a.of # l.target,
                 !.query = Query(l.target)]

ValidationAfter(a) ==
  IF a.act = "configure" THEN AfterConfigure(a, local) ELSE AfterOthers(a, local)

StartsAnyway(a) == a.act = "configure" /\ a.want # None

\* onStartBurnin: if the save is refused, the burn-in is not started.
StartsNext(a) == a.act = "configure" /\ a.want # None /\ a.is = "ok"

ValidationMore(a) ==
  IF StartsNext(a)
    THEN {[a EXCEPT !.act = "start-burnin", !.is = "sent"]}
    ELSE {}

DetailNext == DetailTick \/ ServeDetail \/ DetailFails \/ DetailAnswered

ValidationNext ==
  \/ \E u \in Gpus \cup {None} : OpenAsset(u)
  \/ \E c \in Configs : ChooseConfig(c)
  \/ SaveProfile \/ StartBurnin \/ ReturnToService
  \/ RunValidation("start-precheck") \/ RunValidation("start-reuse-burnin")

=============================================================================
