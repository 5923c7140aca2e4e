------------------------------- MODULE Alerts -------------------------------
(***************************************************************************)
(* Alerting: the rules (rules/rules.go), the manager that evaluates them   *)
(* (rules/manager.go), the sink (alerting/alerting.go) and the webhook     *)
(* notifier (notify/notify.go), with the receiver of the webhook.          *)
(*                                                                         *)
(* One goroutine does it all: Manager.Run takes a tick, EvalOnce evaluates *)
(* the rules one after the other, and Notify retries a batch to its end    *)
(* before the next tick is taken. What it reads may change between any two *)
(* of its steps, and the process may be restarted at any of them.          *)
(*                                                                         *)
(* An alert is its fingerprint. Time is told in ticks and kept as ages     *)
(* that stop growing where the code no longer tells them apart, so no      *)
(* bound on the clock is needed.                                           *)
(***************************************************************************)
EXTENDS Integers

CONSTANTS
  Alerts,       \* fingerprints
  RuleCount,    \* the rules of all groups, in the order they are loaded
  AlertsOf,     \* rule -> the alerts its expression may yield
  For,          \* rule -> Rule.For
  Gaps,         \* the times that may pass between two ticks taken
  Repeat,       \* Config.RepeatInterval
  MaxAttempts,  \* Config.MaxAttempts
  MaxRestarts   \* bound: restarts of the process

Rules == 1 .. RuleCount

ASSUME AlertsAssumption ==
  /\ RuleCount \in Nat
  /\ AlertsOf \in [Rules -> SUBSET Alerts]
  /\ For \in [Rules -> Nat]
  /\ Gaps \subseteq Nat \ {0}
  /\ Repeat \in Nat \ {0}
  /\ MaxAttempts \in Nat \ {0}
  /\ MaxRestarts \in Nat

VARIABLES
  cond,        \* environment: rule -> the alerts its expression yields now
  active,      \* Rule.active, and how long ago ActiveAtMS was at this tick
  firing,      \* Manager.firing
  mpc,         \* "wait" for a tick, "eval", "send"
  next,        \* EvalOnce: the rule to evaluate
  current,     \* EvalOnce: the alerts found firing so far
  batch,       \* Send: what is posted
  attempt,     \* Send: failed attempts
  lastSent,    \* Notifier.lastSent as an age, Repeat when absent
  dropped,     \* Notifier.droppedN > 0
  view,        \* the receiver: the last status it was told of each alert
  falseAgo,    \* history: how long ago a rule last found an alert false
  orphaned,    \* history: alerts the receiver held firing at a restart
  restarts

memory == <<active, firing, mpc, next, current, batch, attempt, lastSent, dropped>>
vars == <<cond, memory, view, falseAgo, orphaned, restarts>>

-----------------------------------------------------------------------------
Inactive == [state |-> "inactive", age |-> 0]
NoBatch  == [firing |-> {}, resolved |-> {}]

\* An age that stops growing at a cap.
Older(age, d, cap) == IF age + d > cap THEN cap ELSE age + d

Firing(r) == {a \in Alerts : active'[r][a].state = "firing"}

EvaluatedKeepingUnseen(r, vec) ==
  [a \in Alerts |->
     IF a \notin vec /\ active[r][a].state = "firing" THEN Inactive
     ELSE IF a \notin vec THEN active[r][a]
     ELSE [state |-> IF active[r][a].age >= For[r] THEN "firing" ELSE "pending",
           age |-> active[r][a].age]]

\* Rule.Eval of a vector that holds the alerts of vec: an alert that is not among them
\* is forgotten, one that is keeps the time since which it is active.
Evaluated(r, vec) ==
  [a \in Alerts |->
     IF a \notin vec THEN Inactive
     ELSE [state |-> IF active[r][a].age >= For[r] THEN "firing" ELSE "pending",
           age |-> active[r][a].age]]

-----------------------------------------------------------------------------
NoneActive == [r \in Rules |-> [a \in Alerts |-> Inactive]]
NeverSent  == [a \in Alerts |-> Repeat]
JustNow    == [r \in Rules |-> [a \in Alerts |-> 0]]

Init ==
  /\ cond \in [Rules -> SUBSET Alerts]
  /\ \A r \in Rules : cond[r] \subseteq AlertsOf[r]
  /\ active = NoneActive /\ firing = {}
  /\ mpc = "wait" /\ next = 1 /\ current = {}
  /\ batch = NoBatch /\ attempt = 0 /\ lastSent = NeverSent /\ dropped = FALSE
  /\ view = [a \in Alerts |-> "none"]
  /\ falseAgo = JustNow
  /\ orphaned = {} /\ restarts = 0

\* What the expressions yield changes at any time.
Change(r, vec) ==
  /\ cond' = [cond EXCEPT ![r] = vec]
  /\ UNCHANGED <<memory, view, falseAgo, orphaned, restarts>>

\* Manager.Run takes a tick, d after the one before: time passes for every alert
\* and every record of a delivery.
Tick(d) ==
  /\ mpc = "wait"
  /\ mpc' = "eval" /\ next' = 1 /\ current' = {}
  /\ active' = [r \in Rules |-> [a \in Alerts |->
       IF active[r][a].state = "inactive" THEN Inactive
       ELSE [active[r][a] EXCEPT !.age = Older(@, d, For[r])]]]
  /\ lastSent' = [a \in Alerts |-> Older(lastSent[a], d, Repeat)]
  /\ falseAgo' = [r \in Rules |-> [a \in Alerts |-> Older(falseAgo[r][a], d, For[r])]]
  /\ UNCHANGED <<cond, firing, batch, attempt, dropped, view, orphaned, restarts>>

EvalSucceeds ==
  /\ mpc = "eval" /\ next \in Rules
  /\ active' = [active EXCEPT ![next] = Evaluated(next, cond[next])]
  /\ current' = current \cup Firing(next)
  /\ next' = next + 1
  /\ falseAgo' = [falseAgo EXCEPT ![next] =
       [a \in Alerts |-> IF a \in cond[next] THEN @[a] ELSE 0]]
  /\ UNCHANGED <<cond, firing, mpc, batch, attempt, lastSent, dropped, view, orphaned,
                 restarts>>

\* The query failed, or its value is no vector: the alerts stay as they are.
EvalFails ==
  /\ mpc = "eval" /\ next \in Rules
  /\ UNCHANGED active
  /\ current' = current \cup Firing(next)
  /\ next' = next + 1
  /\ UNCHANGED <<cond, firing, mpc, batch, attempt, lastSent, dropped, view, falseAgo,
                 orphaned, restarts>>

KeptSent(resolved) == lastSent

\* Notifier.filter forgets the delivery of an alert that is resolved.
ForgetSent(resolved) == [a \in Alerts |-> IF a \in resolved THEN Repeat ELSE lastSent[a]]

\* The end of EvalOnce: the difference to the last evaluation goes to the sink, and
\* the manager takes it for known whatever becomes of it. Notifier.filter holds back
\* a firing alert sent within RepeatInterval.
Notify ==
  /\ mpc = "eval" /\ next = RuleCount + 1
  /\ LET resolved == firing \ current
         out == [firing |-> {a \in current \ firing : lastSent[a] >= Repeat},
                 resolved |-> resolved]
     IN  /\ lastSent' = ForgetSent(resolved)
         /\ batch' = out
         /\ mpc' = IF out = NoBatch THEN "wait" ELSE "send"
  /\ firing' = current
  /\ attempt' = 0
  /\ UNCHANGED <<cond, active, next, current, dropped, view, falseAgo, orphaned, restarts>>

Told ==
  [a \in Alerts |-> IF a \in batch.firing THEN "firing"
                    ELSE IF a \in batch.resolved THEN "resolved" ELSE view[a]]

\* The receiver answers 2xx.
PostSucceeds ==
  /\ mpc = "send"
  /\ view' = Told
  /\ orphaned' = orphaned \ (batch.firing \cup batch.resolved)
  /\ lastSent' = [a \in Alerts |-> IF a \in batch.firing THEN 0 ELSE lastSent[a]]
  /\ mpc' = "wait" /\ batch' = NoBatch
  /\ UNCHANGED <<cond, active, firing, next, current, attempt, dropped, falseAgo, restarts>>

FailuresStartOver == IF attempt + 1 >= MaxAttempts THEN 0 ELSE attempt + 1

Failures == attempt + 1

GivesUp == Failures >= MaxAttempts

\* The post fails, or its answer does. The last failure drops the batch.
PostFails ==
  /\ mpc = "send"
  /\ \/ UNCHANGED <<view, orphaned>>
     \/ /\ view' = Told
        /\ orphaned' = orphaned \ (batch.firing \cup batch.resolved)
  /\ IF GivesUp
       THEN /\ dropped' = TRUE /\ mpc' = "wait" /\ batch' = NoBatch
            /\ UNCHANGED attempt
       ELSE /\ attempt' = Failures
            /\ UNCHANGED <<dropped, mpc, batch>>
  /\ UNCHANGED <<cond, active, firing, next, current, lastSent, falseAgo, restarts>>

\* The process is restarted: nothing of this is on disk.
Restart ==
  /\ restarts < MaxRestarts
  /\ restarts' = restarts + 1
  /\ active' = NoneActive /\ firing' = {}
  /\ mpc' = "wait" /\ next' = 1 /\ current' = {}
  /\ batch' = NoBatch /\ attempt' = 0 /\ lastSent' = NeverSent /\ dropped' = FALSE
  /\ falseAgo' = JustNow
  /\ orphaned' = {a \in Alerts : view[a] = "firing"}
  /\ UNCHANGED <<cond, view>>

Next ==
  \/ \E r \in Rules : \E vec \in SUBSET AlertsOf[r] : Change(r, vec)
  \/ \E d \in Gaps : Tick(d)
  \/ EvalSucceeds \/ EvalFails \/ Notify
  \/ PostSucceeds \/ PostFails
  \/ Restart

\* The goroutine runs, the ticker ticks, and a query that is tried for ever does not
\* fail for ever.
Fairness ==
  /\ WF_vars(\E d \in Gaps : Tick(d))
  /\ WF_vars(EvalSucceeds \/ EvalFails)
  /\ WF_vars(Notify)
  /\ WF_vars(PostSucceeds \/ PostFails)
  /\ \A r \in Rules : SF_vars(next = r /\ EvalSucceeds)

Spec == Init /\ [][Next]_vars /\ Fairness

-----------------------------------------------------------------------------
(* Properties *)

TypeOK ==
  /\ cond \in [Rules -> SUBSET Alerts]
  /\ active \in [Rules -> [Alerts -> [state : {"inactive", "pending", "firing"}, age : Nat]]]
  /\ falseAgo \in [Rules -> [Alerts -> Nat]]
  /\ \A r \in Rules : \A a \in Alerts :
       active[r][a].age <= For[r] /\ falseAgo[r][a] <= For[r]
  /\ firing \subseteq Alerts /\ current \subseteq Alerts /\ orphaned \subseteq Alerts
  /\ mpc \in {"wait", "eval", "send"} /\ next \in 1 .. RuleCount + 1
  /\ batch \in [firing : SUBSET Alerts, resolved : SUBSET Alerts]
  /\ attempt \in 0 .. MaxAttempts - 1
  /\ lastSent \in [Alerts -> 0 .. Repeat]
  /\ dropped \in BOOLEAN
  /\ view \in [Alerts -> {"none", "firing", "resolved"}]

\* An alert fires only if no evaluation within its For has found it false: neither
\* flickers nor failed evaluations add up to it.
ForRespected ==
  \A r \in Rules : \A a \in Alerts :
    active[r][a].state = "firing" => falseAgo[r][a] >= For[r]

\* Between two evaluations the receiver knows what fires and what has ended, unless
\* the notifier counts a dropped batch or a restart forgot what had been sent.
InSync ==
  mpc = "wait" /\ ~dropped =>
    \A a \in Alerts :
      /\ a \in firing => view[a] = "firing"
      /\ view[a] = "firing" => a \in firing \cup orphaned

\* That an alert has ended is always told: the same without the exceptions.
ResolvedIsTold ==
  mpc = "wait" => \A a \in Alerts : view[a] = "firing" => a \in firing

\* A receiver that fails never stops the evaluations.
EvaluationGoesOn == []<>(mpc = "eval")

\* Of what stays true the receiver believes in the end, and from then on, that it is firing,
\* through failed evaluations, failed posts and restarts, unless a batch was dropped: an alert
\* that was told, ended and came back is told again.
FiringIsTold ==
  \A r \in Rules : \A a \in AlertsOf[r] :
    <>[](a \in cond[r] /\ ~dropped) => <>[](view[a] = "firing")
=============================================================================
