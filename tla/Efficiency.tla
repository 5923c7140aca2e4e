------------------------------ MODULE Efficiency ------------------------------
(***************************************************************************)
(* GpuEfficiency: GPUs of low use can be reported as false alarms, those   *)
(* not used for long get a reason. The page remembers what it has reported *)
(* and registered beside the snapshot. srv is the reason of each GPU       *)
(* ("none" before there is one, "gone" when it is not idle any more).      *)
(***************************************************************************)
EXTENDS Feed

CONSTANT Reasons

EfficiencySrv == [Gpus -> Reasons \cup {"none", "gone"}]

EfficiencyFresh == [done |-> {}, overlay |-> [g \in Gpus |-> None]]

\* What the row of a GPU shows: what was registered here hides what the server has.
ReasonShown(g) == IF local.overlay[g] # None THEN local.overlay[g] ELSE snap[g]

\* The button is disabled once the report was accepted, not while it is out. Its table
\* is of the store's series and does not wait for the snapshot.
OnFalsePositive(g) ==
  /\ Cardinality(acts) < MaxActs /\ status = "authed" /\ g \notin local.done
  /\ Send("report-false-positive", g, None, None)
  /\ UNCHANGED <<serverVars, status, snap, fetch, local, histVars>>

OnRegisterReason(g, v) ==
  /\ CanSend /\ snap[g] # "gone" /\ v # ReasonShown(g)
  /\ Send("register-idle-reason", g, v, None)
  /\ UNCHANGED <<serverVars, status, snap, fetch, local, histVars>>

EfficiencyOutcomes(a) ==
  IF a.act = "report-false-positive" THEN {srv}
  ELSE IF srv[a.of] # "gone" THEN {[srv EXCEPT ![a.of] = a.val]} ELSE {}

\* Another operator registers a reason, or a GPU is put to use.
EfficiencyEvents(s) ==
  {[s EXCEPT ![g] = v] : g \in {h \in Gpus : s[h] # "gone"}, v \in Reasons \cup {"gone"}} \ {s}

\* A refusal is not shown.
EfficiencyAfter(a) ==
  IF a.is # "ok" THEN local
  ELSE IF a.act = "report-false-positive" THEN [local EXCEPT !.done = @ \cup {a.of}]
  ELSE [local EXCEPT !.overlay[a.of] = a.val]

EfficiencyNext ==
  \E g \in Gpus : OnFalsePositive(g) \/ \E v \in Reasons : OnRegisterReason(g, v)

=============================================================================
