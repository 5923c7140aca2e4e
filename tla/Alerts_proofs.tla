---------------------------- MODULE Alerts_proofs ----------------------------
(***************************************************************************)
(* What holds of the alerting for any number of rules and alerts, any For, *)
(* RepeatInterval and MaxAttempts, and any number of restarts.             *)
(***************************************************************************)
EXTENDS Alerts, TLAPS

\* An alert has not been active for longer than it has not been found false, and one
\* that fires has been active for its For.
AgeInv ==
  \A r \in Rules : \A a \in Alerts :
    LET al == active[r][a]
    IN /\ al.state = "inactive" => al.age = 0
       /\ al.age <= falseAgo[r][a]
       /\ al.state = "firing" => al.age >= For[r]

\* A batch tells of what fires now and of what does not fire any more.
BatchInv ==
  /\ mpc # "send" => batch = NoBatch
  /\ batch.firing \subseteq firing
  /\ batch.resolved \cap firing = {}

\* The filter of the notifier remembers the delivery of nothing but what fires, so it
\* holds back no alert that begins to.
SentInv == \A a \in Alerts \ firing : lastSent[a] >= Repeat

\* What the receiver does not know yet is in the batch.
SyncInv ==
  ~dropped =>
    \A a \in Alerts :
      /\ a \in firing => view[a] = "firing" \/ a \in batch.firing
      /\ view[a] = "firing" => a \in firing \cup orphaned \cup batch.resolved

IInv == TypeOK /\ AgeInv /\ BatchInv /\ SentInv /\ SyncInv

-----------------------------------------------------------------------------
\* Ages with a cap are ages, and the older of two stays the older.
LEMMA OlderBounds ==
  ASSUME NEW x \in Nat, NEW y \in Nat, NEW d \in Nat, NEW cap \in Nat
  PROVE  /\ Older(x, d, cap) \in Nat /\ Older(x, d, cap) <= cap
         /\ x <= y => Older(x, d, cap) <= Older(y, d, cap)
         /\ x >= cap => Older(x, d, cap) = cap
BY DEF Older

\* A forgotten alert has no age.
LEMMA InactiveAlert ==
  /\ Inactive \in [state : {"inactive", "pending", "firing"}, age : Nat]
  /\ Inactive.age = 0 /\ Inactive.state = "inactive"
BY DEF Inactive

\* Nothing is known and nothing was sent.
LEMMA InitIInv == Init => IInv
<1> SUFFICES ASSUME Init PROVE IInv
  OBVIOUS
<1> USE AlertsAssumption
<1>1. For \in [Rules -> Nat]
  OBVIOUS
<1>2. TypeOK
  <2>1. cond \in [Rules -> SUBSET Alerts]
    BY DEF Init
  <2>2. active \in [Rules -> [Alerts -> [state : {"inactive", "pending", "firing"}, age : Nat]]]
    BY DEF Init, NoneActive, Inactive
  <2>3. falseAgo \in [Rules -> [Alerts -> Nat]]
    BY DEF Init, JustNow
  <2>4. ASSUME NEW r \in Rules, NEW a \in Alerts
        PROVE  active[r][a].age <= For[r] /\ falseAgo[r][a] <= For[r]
    BY <1>1 DEF Init, NoneActive, Inactive, JustNow
  <2>5. batch \in [firing : SUBSET Alerts, resolved : SUBSET Alerts]
    BY DEF Init, NoBatch
  <2>6. lastSent \in [Alerts -> 0 .. Repeat]
    BY DEF Init, NeverSent
  <2>7. next \in 1 .. RuleCount + 1 /\ attempt \in 0 .. MaxAttempts - 1
    BY DEF Init
  <2>8. view \in [Alerts -> {"none", "firing", "resolved"}]
    BY DEF Init
  <2>9. /\ firing \subseteq Alerts /\ current \subseteq Alerts /\ orphaned \subseteq Alerts
        /\ mpc \in {"wait", "eval", "send"} /\ dropped \in BOOLEAN
    BY DEF Init
  <2>. QED
    BY <2>1, <2>2, <2>3, <2>4, <2>5, <2>6, <2>7, <2>8, <2>9 DEF TypeOK
<1>3. AgeInv
  <2> SUFFICES ASSUME NEW r \in Rules, NEW a \in Alerts
               PROVE  active[r][a] = Inactive /\ falseAgo[r][a] = 0
    BY InactiveAlert DEF AgeInv
  <2>. QED
    BY DEF Init, NoneActive, JustNow
<1>4. BatchInv /\ SentInv /\ SyncInv
  BY DEF Init, BatchInv, SentInv, SyncInv, NoBatch, NeverSent
<1>. QED
  BY <1>2, <1>3, <1>4 DEF IInv

-----------------------------------------------------------------------------
\* What a successful evaluation makes of the alerts of its rule: they keep their age or
\* are forgotten, and those that fire have been active for their For.
LEMMA EvaluatedAlerts ==
  ASSUME TypeOK, AgeInv, NEW r \in Rules, NEW vec, NEW a \in Alerts
  PROVE  LET al == Evaluated(r, vec)[a]
         IN /\ al \in [state : {"inactive", "pending", "firing"}, age : Nat]
            /\ al.age <= For[r]
            /\ al.state = "inactive" => al.age = 0
            /\ al.age <= IF a \in vec THEN falseAgo[r][a] ELSE 0
            /\ al.state = "firing" => al.age >= For[r]
<1>1. For[r] \in Nat
  BY AlertsAssumption
<1>2. /\ active[r][a] \in [state : {"inactive", "pending", "firing"}, age : Nat]
      /\ active[r][a].age <= For[r] /\ active[r][a].age <= falseAgo[r][a]
  BY DEF TypeOK, AgeInv
<1>3. CASE a \in vec
  <2>1. Evaluated(r, vec)[a] =
          [state |-> IF active[r][a].age >= For[r] THEN "firing" ELSE "pending",
           age |-> active[r][a].age]
    BY <1>3 DEF Evaluated
  <2>2. CASE active[r][a].age >= For[r]
    BY <1>1, <1>2, <1>3, <2>1, <2>2
  <2>3. CASE ~(active[r][a].age >= For[r])
    BY <1>1, <1>2, <1>3, <2>1, <2>3
  <2>. QED
    BY <2>2, <2>3
<1>4. CASE a \notin vec
  <2>1. Evaluated(r, vec)[a] = Inactive
    BY <1>4 DEF Evaluated
  <2>. QED
    BY <1>1, <1>4, <2>1, InactiveAlert
<1>. QED
  BY <1>3, <1>4

\* A successful evaluation, for all rules at once.
LEMMA EvalAges ==
  ASSUME TypeOK, AgeInv, EvalSucceeds
  PROVE  /\ active' \in [Rules -> [Alerts -> [state : {"inactive", "pending", "firing"}, age : Nat]]]
         /\ falseAgo' \in [Rules -> [Alerts -> Nat]]
         /\ \A r \in Rules : \A a \in Alerts :
              active'[r][a].age <= For[r] /\ falseAgo'[r][a] <= For[r]
         /\ AgeInv'
<1>0. next \in Rules /\ \A r \in Rules : For[r] \in Nat
  BY AlertsAssumption DEF EvalSucceeds
<1>1. active' = [active EXCEPT ![next] = Evaluated(next, cond[next])]
  BY DEF EvalSucceeds
<1>2. Evaluated(next, cond[next]) \in
        [Alerts -> [state : {"inactive", "pending", "firing"}, age : Nat]]
  <2>1. \A a \in Alerts : Evaluated(next, cond[next])[a] \in
                            [state : {"inactive", "pending", "firing"}, age : Nat]
    BY <1>0, EvaluatedAlerts
  <2>. QED
    BY <2>1 DEF Evaluated
<1>3. active' \in [Rules -> [Alerts -> [state : {"inactive", "pending", "firing"}, age : Nat]]]
  BY <1>0, <1>1, <1>2 DEF TypeOK
<1>4. falseAgo' \in [Rules -> [Alerts -> Nat]]
  <2>1. [a \in Alerts |-> IF a \in cond[next] THEN falseAgo[next][a] ELSE 0] \in [Alerts -> Nat]
    BY <1>0 DEF TypeOK
  <2>. QED
    BY <1>0, <2>1 DEF TypeOK, EvalSucceeds
<1>5. ASSUME NEW r \in Rules, NEW a \in Alerts
      PROVE  LET al == active'[r][a]
             IN /\ al.age <= For[r] /\ falseAgo'[r][a] <= For[r]
                /\ al.state = "inactive" => al.age = 0
                /\ al.age <= falseAgo'[r][a]
                /\ al.state = "firing" => al.age >= For[r]
  <2>1. CASE r = next
    <3>1. active'[r][a] = Evaluated(r, cond[r])[a]
      BY <1>0, <1>1, <2>1 DEF TypeOK
    <3>2. falseAgo'[r][a] = IF a \in cond[r] THEN falseAgo[r][a] ELSE 0
      BY <1>0, <2>1 DEF TypeOK, EvalSucceeds
    <3>3. falseAgo[r][a] <= For[r]
      BY DEF TypeOK
    <3>. QED
      BY <1>0, <3>1, <3>2, <3>3, EvaluatedAlerts
  <2>2. CASE r # next
    <3>1. active'[r][a] = active[r][a] /\ falseAgo'[r][a] = falseAgo[r][a]
      BY <1>0, <1>1, <2>2 DEF TypeOK, EvalSucceeds
    <3>. QED
      BY <3>1 DEF TypeOK, AgeInv
  <2>. QED
    BY <2>1, <2>2
<1>6. AgeInv'
  BY <1>5 DEF AgeInv
<1>. QED
  BY <1>3, <1>4, <1>5, <1>6

\* A tick makes every age older by the same time, up to the same cap.
LEMMA TickAges ==
  ASSUME TypeOK, AgeInv, NEW d \in Gaps, Tick(d)
  PROVE  /\ active' \in [Rules -> [Alerts -> [state : {"inactive", "pending", "firing"}, age : Nat]]]
         /\ falseAgo' \in [Rules -> [Alerts -> Nat]]
         /\ \A r \in Rules : \A a \in Alerts :
              active'[r][a].age <= For[r] /\ falseAgo'[r][a] <= For[r]
         /\ AgeInv'
<1> DEFINE Aged(r, a) == IF active[r][a].state = "inactive" THEN Inactive
                         ELSE [active[r][a] EXCEPT !.age = Older(@, d, For[r])]
<1>0. d \in Nat /\ \A r \in Rules : For[r] \in Nat
  BY AlertsAssumption
<1>1. /\ active' = [r \in Rules |-> [a \in Alerts |-> Aged(r, a)]]
      /\ falseAgo' = [r \in Rules |-> [a \in Alerts |-> Older(falseAgo[r][a], d, For[r])]]
  BY DEF Tick
<1>2. ASSUME NEW r \in Rules, NEW a \in Alerts
      PROVE  /\ Aged(r, a) \in [state : {"inactive", "pending", "firing"}, age : Nat]
             /\ Aged(r, a).age <= For[r]
             /\ Aged(r, a).state = "inactive" => Aged(r, a).age = 0
             /\ Aged(r, a).age <= Older(falseAgo[r][a], d, For[r])
             /\ Aged(r, a).state = "firing" => Aged(r, a).age >= For[r]
             /\ Older(falseAgo[r][a], d, For[r]) \in Nat
             /\ Older(falseAgo[r][a], d, For[r]) <= For[r]
  <2>1. /\ active[r][a] \in [state : {"inactive", "pending", "firing"}, age : Nat]
        /\ active[r][a].age \in Nat
        /\ falseAgo[r][a] \in Nat /\ active[r][a].age <= falseAgo[r][a]
        /\ active[r][a].state = "firing" => active[r][a].age >= For[r]
    BY DEF TypeOK, AgeInv
  <2>2. /\ Older(falseAgo[r][a], d, For[r]) \in Nat
        /\ Older(falseAgo[r][a], d, For[r]) <= For[r]
    BY <1>0, <2>1, OlderBounds
  <2>3. CASE active[r][a].state = "inactive"
    BY <1>0, <2>2, <2>3, InactiveAlert
  <2>4. CASE active[r][a].state # "inactive"
    <3>1. /\ Older(active[r][a].age, d, For[r]) \in Nat
          /\ Older(active[r][a].age, d, For[r]) <= For[r]
          /\ Older(active[r][a].age, d, For[r]) <= Older(falseAgo[r][a], d, For[r])
          /\ active[r][a].age >= For[r] => Older(active[r][a].age, d, For[r]) = For[r]
      BY <1>0, <2>1 DEF Older
    <3>2. /\ Aged(r, a).state = active[r][a].state
          /\ Aged(r, a).age = Older(active[r][a].age, d, For[r])
          /\ Aged(r, a) \in [state : {"inactive", "pending", "firing"}, age : Nat]
      BY <2>1, <2>4, <3>1
    <3> HIDE DEF Aged
    <3>. QED
      BY <1>0, <2>1, <2>2, <2>4, <3>1, <3>2
  <2>. QED
    BY <2>3, <2>4
<1> HIDE DEF Aged
<1>3. /\ active' \in [Rules -> [Alerts -> [state : {"inactive", "pending", "firing"}, age : Nat]]]
      /\ falseAgo' \in [Rules -> [Alerts -> Nat]]
  BY <1>1, <1>2
<1>4. \A r \in Rules : \A a \in Alerts :
        active'[r][a].age <= For[r] /\ falseAgo'[r][a] <= For[r]
  BY <1>1, <1>2
<1>5. AgeInv'
  BY <1>1, <1>2 DEF AgeInv
<1>. QED
  BY <1>3, <1>4, <1>5

\* A restart forgets every age.
LEMMA RestartAges ==
  ASSUME Restart
  PROVE  /\ active' \in [Rules -> [Alerts -> [state : {"inactive", "pending", "firing"}, age : Nat]]]
         /\ falseAgo' \in [Rules -> [Alerts -> Nat]]
         /\ \A r \in Rules : \A a \in Alerts :
              active'[r][a].age <= For[r] /\ falseAgo'[r][a] <= For[r]
         /\ AgeInv'
<1>1. active' = NoneActive /\ falseAgo' = JustNow /\ \A r \in Rules : For[r] \in Nat
  BY AlertsAssumption DEF Restart
<1>2. \A r \in Rules : \A a \in Alerts : active'[r][a] = Inactive /\ falseAgo'[r][a] = 0
  BY <1>1 DEF NoneActive, JustNow
<1>3. /\ active' \in [Rules -> [Alerts -> [state : {"inactive", "pending", "firing"}, age : Nat]]]
      /\ falseAgo' \in [Rules -> [Alerts -> Nat]]
  BY <1>1, InactiveAlert DEF NoneActive, JustNow
<1>4. AgeInv'
  BY <1>2, InactiveAlert DEF AgeInv
<1>. QED
  BY <1>1, <1>2, <1>3, <1>4, InactiveAlert

\* What an evaluation finds firing are alerts.
LEMMA FiringAlerts == \A r \in Rules : Firing(r) \subseteq Alerts
BY DEF Firing

\* Whatever is evaluated, posted, lost or restarted, the state keeps its types, and ages
\* are what AgeInv says.
LEMMA TypeNext == TypeOK /\ AgeInv /\ [Next]_vars => TypeOK' /\ AgeInv'
<1> SUFFICES ASSUME TypeOK, AgeInv, [Next]_vars PROVE TypeOK' /\ AgeInv'
  OBVIOUS
<1> USE AlertsAssumption
<1>1. ASSUME UNCHANGED <<active, falseAgo>> PROVE AgeInv'
  BY <1>1 DEF AgeInv
<1>2. ASSUME NEW r \in Rules, NEW vec \in SUBSET AlertsOf[r], Change(r, vec)
      PROVE  TypeOK' /\ AgeInv'
  <2>1. vec \in SUBSET Alerts
    OBVIOUS
  <2>2. cond' \in [Rules -> SUBSET Alerts]
    BY <1>2, <2>1 DEF Change, TypeOK
  <2>. QED
    BY <1>1, <1>2, <2>2 DEF Change, TypeOK, memory
<1>3. ASSUME NEW d \in Gaps, Tick(d) PROVE TypeOK' /\ AgeInv'
  <2>1. lastSent' \in [Alerts -> 0 .. Repeat]
    <3>1. \A a \in Alerts : lastSent[a] \in Nat /\ Older(lastSent[a], d, Repeat) \in 0 .. Repeat
      BY OlderBounds DEF TypeOK
    <3>. QED
      BY <1>3, <3>1 DEF Tick
  <2>2. next' \in 1 .. RuleCount + 1 /\ current' \subseteq Alerts
    BY <1>3 DEF Tick
  <2>3. UNCHANGED <<cond, firing, batch, attempt, dropped, view, orphaned>> /\ mpc' = "eval"
    BY <1>3 DEF Tick
  <2>4. /\ active' \in [Rules -> [Alerts -> [state : {"inactive", "pending", "firing"}, age : Nat]]]
        /\ falseAgo' \in [Rules -> [Alerts -> Nat]]
        /\ \A r \in Rules : \A a \in Alerts :
             active'[r][a].age <= For[r] /\ falseAgo'[r][a] <= For[r]
        /\ AgeInv'
    BY <1>3, TickAges
  <2>. QED
    BY <2>1, <2>2, <2>3, <2>4 DEF TypeOK
<1>4. CASE EvalSucceeds
  <2>1. next' \in 1 .. RuleCount + 1 /\ current' \subseteq Alerts
    BY <1>4, FiringAlerts DEF EvalSucceeds, TypeOK, Rules
  <2>. QED
    BY <1>4, <2>1, EvalAges DEF EvalSucceeds, TypeOK
<1>5. CASE EvalFails
  <2>1. next' \in 1 .. RuleCount + 1 /\ current' \subseteq Alerts
    BY <1>5, FiringAlerts DEF EvalFails, TypeOK, Rules
  <2>. QED
    BY <1>1, <1>5, <2>1 DEF EvalFails, TypeOK
<1>6. CASE Notify
  <2>1. lastSent' \in [Alerts -> 0 .. Repeat]
    BY <1>6 DEF Notify, ForgetSent, TypeOK
  <2>2. batch' \in [firing : SUBSET Alerts, resolved : SUBSET Alerts]
    BY <1>6 DEF Notify, TypeOK
  <2>3. mpc' \in {"wait", "eval", "send"} /\ attempt' \in 0 .. MaxAttempts - 1
    BY <1>6 DEF Notify
  <2>. QED
    BY <1>1, <1>6, <2>1, <2>2, <2>3 DEF Notify, TypeOK
<1>7. Told \in [Alerts -> {"none", "firing", "resolved"}]
  BY DEF Told, TypeOK
<1>8. NoBatch \in [firing : SUBSET Alerts, resolved : SUBSET Alerts]
  BY DEF NoBatch
<1>9. CASE PostSucceeds
  <2>1. lastSent' \in [Alerts -> 0 .. Repeat]
    BY <1>9 DEF PostSucceeds, TypeOK
  <2>. QED
    BY <1>1, <1>7, <1>8, <1>9, <2>1 DEF PostSucceeds, TypeOK
<1>10. CASE PostFails
  <2>1. view' \in [Alerts -> {"none", "firing", "resolved"}] /\ orphaned' \subseteq Alerts
    BY <1>7, <1>10 DEF PostFails, TypeOK
  <2>2. attempt' \in 0 .. MaxAttempts - 1
    BY <1>10 DEF PostFails, GivesUp, Failures, TypeOK
  <2>. QED
    BY <1>1, <1>8, <1>10, <2>1, <2>2 DEF PostFails, TypeOK
<1>11. CASE Restart
  <2>1. next' \in 1 .. RuleCount + 1 /\ attempt' \in 0 .. MaxAttempts - 1
    BY <1>11 DEF Restart
  <2>2. lastSent' \in [Alerts -> 0 .. Repeat]
    BY <1>11 DEF Restart, NeverSent
  <2>. QED
    BY <1>8, <1>11, <2>1, <2>2, RestartAges DEF Restart, TypeOK
<1>12. CASE UNCHANGED vars
  BY <1>1, <1>12 DEF vars, memory, TypeOK
<1>. QED
  BY <1>2, <1>3, <1>4, <1>5, <1>6, <1>9, <1>10, <1>11, <1>12 DEF Next

-----------------------------------------------------------------------------
\* What is sent and remembered goes with what fires.
LEMMA BatchNext ==
  TypeOK /\ BatchInv /\ SentInv /\ [Next]_vars => BatchInv' /\ SentInv'
<1> SUFFICES ASSUME TypeOK, BatchInv, SentInv, [Next]_vars PROVE BatchInv' /\ SentInv'
  OBVIOUS
<1> USE AlertsAssumption
<1>0. /\ NoBatch.firing = {} /\ NoBatch.resolved = {}
      /\ Repeat \in Nat /\ lastSent \in [Alerts -> 0 .. Repeat]
  BY DEF NoBatch, TypeOK
<1>1. ASSUME UNCHANGED <<mpc, batch, firing, lastSent>> PROVE BatchInv' /\ SentInv'
  BY <1>1 DEF BatchInv, SentInv
<1>2. CASE \/ \E r \in Rules : \E vec \in SUBSET AlertsOf[r] : Change(r, vec)
           \/ EvalSucceeds \/ EvalFails \/ UNCHANGED vars
  BY <1>1, <1>2 DEF Change, EvalSucceeds, EvalFails, vars, memory
<1>3. ASSUME NEW d \in Gaps, Tick(d) PROVE BatchInv' /\ SentInv'
  <2>1. \A a \in Alerts : lastSent[a] >= Repeat => lastSent'[a] >= Repeat
    BY <1>0, <1>3, OlderBounds DEF Tick
  <2>2. UNCHANGED <<batch, firing>> /\ mpc = "wait"
    BY <1>3 DEF Tick
  <2>. QED
    BY <2>1, <2>2 DEF BatchInv, SentInv
<1>4. CASE Notify
  <2>1. /\ firing' = current
        /\ batch'.firing \subseteq current
        /\ batch'.resolved = firing \ current
        /\ mpc' # "send" => batch' = NoBatch
    BY <1>4 DEF Notify
  <2>2. \A a \in Alerts : lastSent'[a] = IF a \in firing \ current THEN Repeat ELSE lastSent[a]
    BY <1>4 DEF Notify, ForgetSent
  <2>. QED
    BY <1>0, <2>1, <2>2 DEF BatchInv, SentInv
<1>5. CASE PostSucceeds
  BY <1>0, <1>5 DEF PostSucceeds, BatchInv, SentInv
<1>6. CASE PostFails
  BY <1>0, <1>6 DEF PostFails, BatchInv, SentInv
<1>7. CASE Restart
  BY <1>0, <1>7 DEF Restart, BatchInv, SentInv, NeverSent
<1>. QED
  BY <1>2, <1>3, <1>4, <1>5, <1>6, <1>7 DEF Next

\* What the receiver is told makes it agree with the manager, once or any number of times.
LEMMA ToldSync ==
  ASSUME TypeOK, BatchInv, SyncInv, ~dropped, NEW a \in Alerts
  PROVE  /\ a \in firing => Told[a] = "firing"
         /\ Told[a] = "firing" => a \in firing \cup (orphaned \ (batch.firing \cup batch.resolved))
<1>1. Told[a] = IF a \in batch.firing THEN "firing"
                ELSE IF a \in batch.resolved THEN "resolved" ELSE view[a]
  BY DEF Told
<1>2. /\ a \in batch.firing => a \in firing
      /\ a \in batch.resolved => a \notin firing
  BY DEF BatchInv
<1>3. /\ a \in firing => view[a] = "firing" \/ a \in batch.firing
      /\ view[a] = "firing" => a \in firing \cup orphaned \cup batch.resolved
  BY DEF SyncInv
<1>. QED
  BY <1>1, <1>2, <1>3

\* What the receiver does not know is in the batch, until it is posted or dropped.
LEMMA SyncNext ==
  TypeOK /\ BatchInv /\ SentInv /\ SyncInv /\ [Next]_vars => SyncInv'
<1> SUFFICES ASSUME TypeOK, BatchInv, SentInv, SyncInv, [Next]_vars PROVE SyncInv'
  OBVIOUS
<1>0. NoBatch.firing = {} /\ NoBatch.resolved = {}
  BY DEF NoBatch
<1>1. ASSUME UNCHANGED <<batch, firing, view, orphaned, dropped>> PROVE SyncInv'
  BY <1>1 DEF SyncInv
<1>2. CASE \/ \E r \in Rules : \E vec \in SUBSET AlertsOf[r] : Change(r, vec)
           \/ \E d \in Gaps : Tick(d)
           \/ EvalSucceeds \/ EvalFails \/ UNCHANGED vars
  BY <1>1, <1>2 DEF Change, Tick, EvalSucceeds, EvalFails, vars, memory
<1>3. CASE Notify
  <2> SUFFICES ASSUME ~dropped, NEW a \in Alerts
               PROVE  /\ a \in current => view[a] = "firing" \/ a \in batch'.firing
                      /\ view[a] = "firing" => a \in current \cup orphaned \cup batch'.resolved
    BY <1>3 DEF Notify, SyncInv
  <2>1. batch = NoBatch
    BY <1>3 DEF Notify, BatchInv
  <2>2. /\ batch'.firing = {b \in current \ firing : lastSent[b] >= Repeat}
        /\ batch'.resolved = firing \ current
    BY <1>3 DEF Notify
  <2>3. a \notin firing => lastSent[a] >= Repeat
    BY DEF SentInv
  <2>4. /\ a \in firing => view[a] = "firing"
        /\ view[a] = "firing" => a \in firing \cup orphaned
    BY <1>0, <2>1 DEF SyncInv
  <2>. QED
    BY <2>2, <2>3, <2>4
<1>4. CASE PostSucceeds
  BY <1>0, <1>4, ToldSync DEF PostSucceeds, SyncInv
<1>5. CASE PostFails
  <2>1. CASE GivesUp
    BY <1>5, <2>1 DEF PostFails, SyncInv
  <2>2. CASE ~GivesUp /\ UNCHANGED <<view, orphaned>>
    BY <1>1, <1>5, <2>2 DEF PostFails
  <2>3. CASE /\ ~GivesUp /\ view' = Told
             /\ orphaned' = orphaned \ (batch.firing \cup batch.resolved)
    BY <1>5, <2>3, ToldSync DEF PostFails, SyncInv
  <2>. QED
    BY <1>5, <2>1, <2>2, <2>3 DEF PostFails
<1>6. CASE Restart
  BY <1>0, <1>6 DEF Restart, SyncInv
<1>. QED
  BY <1>2, <1>3, <1>4, <1>5, <1>6 DEF Next

-----------------------------------------------------------------------------
\* The parts together are inductive.
LEMMA Invariance == Spec => []IInv
<1>1. IInv /\ [Next]_vars => IInv'
  BY TypeNext, BatchNext, SyncNext DEF IInv
<1>. QED
  BY <1>1, InitIInv, PTL DEF Spec

\* THEOREM: rules, manager, notifier and receiver stay within their types; the attempts of
\* a batch end, and no age passes its cap.
THEOREM AlertTypes == Spec => []TypeOK
<1>1. IInv => TypeOK
  BY DEF IInv
<1>. QED
  BY <1>1, Invariance, PTL

\* THEOREM: an alert fires only after its expression was not found false for its For,
\* however often queries failed, conditions flickered or the process was restarted.
THEOREM ForIsRespected == Spec => []ForRespected
<1>1. IInv => ForRespected
  <2> SUFFICES ASSUME IInv, NEW r \in Rules, NEW a \in Alerts, active[r][a].state = "firing"
               PROVE  falseAgo[r][a] >= For[r]
    BY DEF ForRespected
  <2>1. /\ active[r][a].age \in Nat /\ falseAgo[r][a] \in Nat
        /\ active[r][a].age >= For[r] /\ active[r][a].age <= falseAgo[r][a]
    BY DEF IInv, TypeOK, AgeInv
  <2>2. For[r] \in Nat
    BY AlertsAssumption
  <2>. QED
    BY <2>1, <2>2
<1>. QED
  BY <1>1, Invariance, PTL

\* THEOREM: while nothing is being evaluated or sent, the receiver holds firing what the
\* manager does, through lost answers and retries, until a batch is dropped; and what a
\* restart orphaned stays so only until it is told of again.
THEOREM ReceiverIsInSync == Spec => []InSync
<1>1. IInv => InSync
  <2> SUFFICES ASSUME IInv, mpc = "wait", ~dropped, NEW a \in Alerts
               PROVE  /\ a \in firing => view[a] = "firing"
                      /\ view[a] = "firing" => a \in firing \cup orphaned
    BY DEF InSync
  <2>1. batch.firing = {} /\ batch.resolved = {}
    BY DEF IInv, BatchInv, NoBatch
  <2>. QED
    BY <2>1 DEF IInv, SyncInv
<1>. QED
  BY <1>1, Invariance, PTL
=============================================================================
