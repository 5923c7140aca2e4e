------------------------------- MODULE Incident -------------------------------
(***************************************************************************)
(* GpuIncident: the panel with the one action the scenario waits for, and  *)
(* the report of a false alarm; and the SituationBoard of GpuOverview,     *)
(* which offers the same action. For the panel, srv is that action, or     *)
(* "nothing".                                                              *)
(***************************************************************************)
EXTENDS Feed

CTA == {"approve-isolation", "start-burnin", "return-to-service"}

IncidentSrv == CTA \cup {"nothing"}

IncidentFresh == [pending |-> FALSE, error |-> FALSE]

\* run: both buttons are disabled while either is out.
Run(act) ==
  /\ CanSend /\ ~local.pending
  /\ Send(act, Victim, None, None)
  /\ local' = [pending |-> TRUE, error |-> FALSE]
  /\ UNCHANGED <<serverVars, status, snap, fetch, histVars>>

\* The button goes by the snapshot, which the scenario may have left behind.
RunCta == snap \in CTA /\ Run(snap)

ReportFalsePositive == Run("report-false-positive")

IncidentOutcomes(a) ==
  CASE a.act = "report-false-positive" -> {srv}
    [] a.act = srv -> {"nothing"}
    [] OTHER -> {}

\* The scenario goes on, by itself or by another operator.
IncidentEvents(s) == IF s = "nothing" THEN CTA ELSE {"nothing"}

IncidentAfter(a) == [pending |-> FALSE, error |-> a.is # "ok"]

IncidentNext == RunCta \/ ReportFalsePositive

-----------------------------------------------------------------------------
(* The board, on the page of the fleet: its table of what to do in each     *)
(* phase decides, and srv is the phase. Those of the scenario that differ   *)
(* here, in their order.                                                    *)

Scenario == <<"normal", "awaiting-approval", "draining", "burnin-failed", "burnin-2",
              "ready-to-return", "returned">>

BoardSrv == {Scenario[i] : i \in DOMAIN Scenario}

PLAYBOOK(phase) ==
  CASE phase = "awaiting-approval" -> "approve-isolation"
    [] phase = "burnin-failed"     -> "start-burnin"
    [] phase = "ready-to-return"   -> "return-to-service"
    [] OTHER -> None

BoardFresh == [acting |-> FALSE]

BoardAct ==
  /\ CanSend /\ PLAYBOOK(snap) # None /\ ~local.acting
  /\ Send(PLAYBOOK(snap), Victim, None, None)
  /\ local' = [acting |-> TRUE]
  /\ UNCHANGED <<serverVars, status, snap, fetch, histVars>>

\* The scenario goes on, by itself, by another operator or by what was asked for.
BoardEvents(s) ==
  {Scenario[(i % Len(Scenario)) + 1] : i \in {j \in DOMAIN Scenario : Scenario[j] = s}}

BoardOutcomes(a) == IF a.act = PLAYBOOK(srv) THEN BoardEvents(srv) ELSE {}

\* A refusal is not shown.
BoardAfter(a) == BoardFresh

=============================================================================
