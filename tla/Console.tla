-------------------------------- MODULE Console --------------------------------
(***************************************************************************)
(* The pages of the console that act on the demonstration server, each     *)
(* under the GpuLayout that keeps the snapshot: one page is in view, page  *)
(* says which. The page decides what a handler does before and after its   *)
(* action; Feed does the rest.                                             *)
(***************************************************************************)
EXTENDS Validation, IdleReuse, Remediation, Ruleset, Assistant,
        Incident, Efficiency, Health

CONSTANTS
  Starts,     \* the pages to look at, each with a state of the server to start from
  MaxEvents,  \* bound: what the server does by itself
  MaxMoves    \* bound: what the operator does

PageNames == {"validation", "idle", "remediation", "ruleset", "assistant",
              "incident", "board", "efficiency", "health"}

\* The states of the server as a page sees them.
ServersOf(p) ==
  CASE p = "validation"  -> ValidationSrv
    [] p = "idle"        -> IdleSrv
    [] p = "remediation" -> RemediationSrv
    [] p = "ruleset"     -> RulesetSrv
    [] p = "assistant"   -> AssistantSrv
    [] p = "incident"    -> IncidentSrv
    [] p = "board"       -> BoardSrv
    [] p = "efficiency"  -> EfficiencySrv
    [] p = "health"      -> HealthSrv

ASSUME ConsoleAssumption ==
  /\ InRange \subseteq Configs
  /\ \A st \in Starts : st.page \in PageNames /\ st.srv \in ServersOf(st.page)
  /\ \A p \in PageNames : NoSnap \notin ServersOf(p)
  /\ MaxEvents \in Nat /\ MaxMoves \in Nat

VARIABLES page, events, moves

consoleVars == <<page, events, moves>>
vars == <<consoleVars, srv, session, status, snap, fetch, acts, local, failures, leaves, lost>>

-----------------------------------------------------------------------------
Servers == ServersOf(page)

Events(s) ==
  CASE page = "validation"  -> ValidationEvents(s)
    [] page = "idle"        -> IdleEvents(s)
    [] page = "remediation" -> RemediationEvents(s)
    [] page = "ruleset"     -> {}
    [] page = "assistant"   -> AssistantEvents(s)
    [] page = "incident"    -> IncidentEvents(s)
    [] page = "board"       -> BoardEvents(s)
    [] page = "efficiency"  -> EfficiencyEvents(s)
    [] page = "health"      -> HealthEvents(s)

Outcomes(a) ==
  CASE page = "validation"  -> ValidationOutcomes(a)
    [] page = "idle"        -> IdleOutcomes(a)
    [] page = "remediation" -> RemediationOutcomes(a)
    [] page = "ruleset"     -> RulesetOutcomes(a)
    [] page = "assistant"   -> AssistantOutcomes(a)
    [] page = "incident"    -> IncidentOutcomes(a)
    [] page = "board"       -> BoardOutcomes(a)
    [] page = "efficiency"  -> EfficiencyOutcomes(a)
    [] page = "health"      -> HealthOutcomes(a)

\* The actions whose guard no page knows: they are offered in any state, and may be refused.
AtWill(a) == a.act \in {"set-mode", "jump-phase", "set-rule-enabled"}

Fresh ==
  CASE page = "validation"  -> ValidationFresh
    [] page = "idle"        -> IdleFresh
    [] page = "remediation" -> RemediationFresh
    [] page = "ruleset"     -> RulesetFresh
    [] page = "assistant"   -> AssistantFresh
    [] page = "incident"    -> IncidentFresh
    [] page = "board"       -> BoardFresh
    [] page = "efficiency"  -> EfficiencyFresh
    [] page = "health"      -> HealthFresh

\* What a render with snapshot s, and the effects after it, leave in the page's state.
After(l, s) ==
  CASE page = "validation"  -> Settled(l, s)
    [] page = "remediation" -> RemediationSettled(l, s)
    [] page = "assistant"   -> AssistantSettled(l, s)
    [] OTHER                -> l

Handled(a) ==
  CASE page = "validation"  -> ValidationAfter(a)
    [] page = "idle"        -> IdleAfter(a)
    [] page = "remediation" -> RemediationAfter(a)
    [] page = "ruleset"     -> RulesetAfter(a)
    [] page = "assistant"   -> AssistantAfter(a)
    [] page = "incident"    -> IncidentAfter(a)
    [] page = "board"       -> BoardAfter(a)
    [] page = "efficiency"  -> EfficiencyAfter(a)
    [] page = "health"      -> local

Thrown == IF page = "idle" THEN IdleThrown ELSE local

More(a) == IF page = "validation" THEN ValidationMore(a) ELSE {}

\* Pages with a query of the time series, which goes through lib/api.ts.
Queries ==
  CASE page \in {"validation", "assistant", "incident", "health"} -> snap # NoSnap
    [] page \in {"board", "efficiency"} -> TRUE
    [] OTHER -> FALSE

-----------------------------------------------------------------------------
Init ==
  /\ \E st \in Starts : page = st.page /\ srv = st.srv
  /\ FeedInit
  /\ events = 0 /\ moves = 0
  /\ local = Fresh

Event ==
  /\ events < MaxEvents /\ events' = events + 1
  /\ \E s \in Events(srv) : srv' = s
  /\ UNCHANGED <<page, moves, session, status, snap, fetch, acts, local, histVars>>

Operate ==
  /\ moves < MaxMoves /\ moves' = moves + 1
  /\ UNCHANGED <<page, events>>
  /\ CASE page = "validation"  -> ValidationNext
       [] page = "idle"        -> IdleNext
       [] page = "remediation" -> RemediationNext
       [] page = "ruleset"     -> RulesetNext
       [] page = "assistant"   -> AssistantNext
       [] page = "incident"    -> IncidentNext
       [] page = "board"       -> BoardAct
       [] page = "efficiency"  -> EfficiencyNext
       [] page = "health"      -> HealthNext

AskDetail    == page = "validation" /\ DetailNext
ServeAnAct   == \E a \in acts : ServeAct(a, Outcomes(a), AtWill(a))
AnswerAnAct  == \E a \in acts : \/ ActAnswered(a, Handled(a), More(a))
                                \/ ActThrows(a, Thrown)
                                \/ ActUnauthorized(a, Fresh)
AnswerState  == StateAnswered(After(local, fetch.seen))
QueryExpires == Queries /\ QueryUnauthorized(Fresh)

Running(A) == A /\ UNCHANGED consoleVars

Next ==
  \/ Operate \/ Event
  \/ Running(\/ ServeState \/ FailState \/ AnswerState \/ TimerFires
             \/ AskDetail
             \/ ServeAnAct \/ AnswerAnAct \/ (\E a \in acts : LoseAct(a))
             \/ QueryExpires \/ EndSession \/ Login \/ LeavePage(After(Fresh, snap)))

\* The browser runs timers and delivers what the server answers, and every request has
\* an outcome (fetch settles). Nothing is said of the operator, of expiry or of events.
Fairness ==
  /\ WF_vars(Running(ServeState)) /\ WF_vars(Running(AnswerState))
  /\ WF_vars(Running(TimerFires)) /\ WF_vars(Running(QueryExpires))
  /\ WF_vars(Running(ServeAnAct)) /\ WF_vars(Running(AnswerAnAct))

Spec == Init /\ [][Next]_vars /\ Fairness

-----------------------------------------------------------------------------
(* Types.                                                                   *)

LocalOK ==
  CASE page = "validation"  ->
         /\ {local.param, local.pinned, local.target} \subseteq Assets \cup {None}
         /\ local.choice \in Configs \cup {None} /\ {local.busy, local.saved} \subseteq BOOLEAN
         /\ {local.err, local.notice, local.detail.of} \subseteq Assets \cup {None}
         /\ local.query.is \in {"timer", "sent", "ok"}
         /\ local.query.of = IF local.query.is = "timer" THEN None ELSE local.target
         /\ local.detail.gates \cup local.query.gates \subseteq GateNames
    [] page = "idle"        -> {local.selected, local.acting, local.err} \subseteq Gpus \cup {None}
    [] page = "remediation" -> local.pending \in Modes \cup {None} /\ local.card \in Nat
    [] page = "ruleset"     -> local.pending \in Rules \cup {None}
    [] page = "assistant"   -> local.open \in 0 .. MaxActs + MaxTroubles
    [] page = "incident"    -> {local.pending, local.error} \subseteq BOOLEAN
    [] page = "board"       -> local.acting \in BOOLEAN
    [] page = "efficiency"  -> local.done \subseteq Gpus /\ local.overlay \in [Gpus -> Reasons \cup {None}]
    [] page = "health"      -> local.acked \subseteq Alarms

\* The types; requests and timers of GpuLayout end with it, and no two actions in flight
\* are the same record. A polled detail is always asked for the present target.
TypeOK ==
  /\ page \in PageNames /\ events \in 0 .. MaxEvents /\ moves \in 0 .. MaxMoves
  /\ srv \in Servers /\ session \in BOOLEAN
  /\ status \in {"authed", "anon"} /\ snap \in Servers \cup {NoSnap}
  /\ fetch.is \in {"timer", "sent", "ok", "fail", "off"}
  /\ (fetch.is = "off") <=> (status = "anon")
  /\ \A a, b \in acts : a.slot = b.slot => a = b
  /\ Cardinality(acts) <= MaxActs
  /\ LocalOK

-----------------------------------------------------------------------------
(* Safety.                                                                  *)

\* The banner of an action is over the asset the action was about, unless its answer came
\* after the page had moved to another asset (GpuValidation.tsx:674).
BannerIsOfTarget ==
  page = "validation" =>
    \A of \in {local.err, local.notice} : of \in {None, local.target} \/ local.late

\* What a page remembers of its actions agrees with what is out: the open questions of the
\* conversation are the isolations not yet answered, done or refused; the buttons of the
\* incident, of the board, of the rules, of the validation and of the approval card in view
\* wait exactly as long as their action is out; a row of the idle list waits for an action
\* of its own; and an alert marked as acknowledged is so for the server, or about to be.
\* (Until an answer is lost: nothing tells the page what became of it.)
ActionsAccountedFor ==
  ~lost =>
    LET mine == {a \in acts : Own(a)}
    IN CASE page = "assistant" -> local.open = Cardinality(mine)
         [] page = "incident"  -> Cardinality(mine) = IF local.pending THEN 1 ELSE 0
         [] page = "board"     -> Cardinality(mine) = IF local.acting THEN 1 ELSE 0
         [] page = "ruleset"   -> Cardinality(mine) = IF local.pending # None THEN 1 ELSE 0
         [] page = "health"    -> \A n \in Unsettled : \E a \in mine : a.of = n
         [] page = "validation" -> Cardinality(mine) = IF local.busy THEN 1 ELSE 0
         [] page = "idle"      -> local.acting # None => \E a \in mine : a.of = local.acting
         [] page = "remediation" ->
              LET OnCard(act) == {a \in mine : a.act = act /\ a.val = local.card}
              IN /\ Cardinality({a \in mine : a.act = "set-mode"})
                    = IF local.pending = None THEN 0 ELSE 1
                 /\ Cardinality(OnCard("approve-isolation")) = IF local.busy THEN 1 ELSE 0
                 /\ Cardinality(OnCard("jump-phase")) = IF local.jumping THEN 1 ELSE 0
         [] OTHER              -> TRUE

\* A burn-in starts with the configuration that was on the form when the button was
\* pressed, though two requests are needed and either can be refused or lost. A page
\* opened anew in between may have saved another.
StartsAsChosen ==
  [][ page = "validation" /\ srv.phase = "burnin-failed" /\ srv'.phase = "burnin-2"
      => leaves > 0 \/ \E a \in acts : a.act = "start-burnin" /\ a.want = srv.cfg ]_vars

\* The page does not change the asset under the operator's eyes while there is something
\* to see of it: only the address, the victim's run, or the loss of the asset moves it.
TargetIsHeld ==
  [][ page = "validation" /\ local.target # local'.target /\ local.target # None
      => \/ local'.param # local.param \/ status' # status \/ leaves' # leaves
         \/ VictimHasRun(snap) # VictimHasRun(snap')
         \/ local.target = Victim
         \/ snap'.verdict[local.target] \in {"gone", "idle"} ]_vars

-----------------------------------------------------------------------------
(* Liveness.                                                                *)

Waiting ==
  CASE page = "validation"  -> local.busy
    [] page = "idle"        -> local.acting # None
    [] page = "remediation" -> local.pending # None \/ local.busy \/ local.jumping
    [] page = "ruleset"     -> local.pending # None
    [] page = "assistant"   -> local.acting
    [] page = "incident"    -> local.pending
    [] page = "board"       -> local.acting
    [] OTHER                -> FALSE

\* A button that waits for its action becomes usable again, unless the answer was lost.
ButtonsComeBack == Waiting ~> (~Waiting \/ lost)

\* Once logged in for good, with a server that does not change any more, the console shows
\* what the server has: no failure, overtaken request or left page stops the poll.
SnapshotCatchesUp ==
  <>[](status = "authed" /\ session) /\ <>[][srv' = srv]_vars => <>[](snap = srv)

\* Wherever the console is, an expired session is noticed.
NoticesExpiry == (status = "authed" /\ ~session) ~> (status = "anon" \/ session)

=============================================================================
