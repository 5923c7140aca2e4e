----------------------------- MODULE Remediation -----------------------------
(***************************************************************************)
(* GpuRemediation: the mode selector, the approval of an isolation and the *)
(* jump to it.                                                             *)
(*                                                                         *)
(* srv is the phase of the scenario up to the isolation, the mode and      *)
(* whether the scenario goes on by itself.                                 *)
(***************************************************************************)
EXTENDS Feed

Modes == {"observe", "approve", "auto"}

ASSUME RemediationAssumption == None \notin Modes

RemediationSrv ==
  [phase : {"normal", "degrading", "awaiting-approval", "draining"}, mode : Modes]

AutoAdvance(s) == s.mode # "observe"

\* phaseAtLeast(phase, "draining"): the approval card gives way to what was done.
IsolationDone == snap.phase = "draining"

\* The phases in which the server names the approval as its pending action.
GateOpen(s) == s.phase \in {"degrading", "awaiting-approval"}

CanApprove == GateOpen(snap)

\* The notice that nothing will happen by itself.
Stalled == snap.mode = "observe" /\ snap.phase = "awaiting-approval" /\ ~AutoAdvance(snap)

RemediationFresh ==
  [pending |-> None, modeError |-> FALSE, card |-> 0,
   confirm |-> FALSE, busy |-> FALSE, jumping |-> FALSE, error |-> FALSE]

\* The next approval card is another one: what the handlers of this one set is lost.
CardFresh(l) == [RemediationFresh EXCEPT !.pending = l.pending, !.modeError = l.modeError,
                                         !.card = l.card + 1]

\* A new snapshot may unmount the approval card, and with it its state.
RemediationSettled(l, s) ==
  IF snap # NoSnap /\ s.phase = "draining" /\ ~IsolationDone THEN CardFresh(l) ELSE l

\* onSelect returns at once while a change is out.
MaySelect(m) == local.pending = None /\ m # snap.mode

SelectMode(m) ==
  /\ CanSend /\ MaySelect(m)
  /\ Send("set-mode", None, m, None)
  /\ local' = [local EXCEPT !.pending = m, !.modeError = FALSE]
  /\ UNCHANGED <<serverVars, status, snap, fetch, histVars>>

OpenConfirm ==
  /\ snap # NoSnap /\ ~IsolationDone /\ CanApprove /\ ~local.busy /\ ~local.confirm
  /\ local' = [local EXCEPT !.confirm = TRUE]
  /\ UNCHANGED <<serverVars, status, snap, fetch, acts, histVars>>

\* The button is disabled while it is busy; Escape and a click beside the dialog are not.
CancelConfirm ==
  /\ local.confirm
  /\ local' = [local EXCEPT !.confirm = FALSE]
  /\ UNCHANGED <<serverVars, status, snap, fetch, acts, histVars>>

\* The dialog stays when the phase moves on: its button asks only whether it is busy.
Approve ==
  /\ CanSend /\ local.confirm /\ ~local.busy
  /\ Send("approve-isolation", None, local.card, None)
  /\ local' = [local EXCEPT !.busy = TRUE]
  /\ UNCHANGED <<serverVars, status, snap, fetch, histVars>>

JumpToApproval ==
  /\ CanSend /\ ~IsolationDone /\ ~CanApprove /\ ~local.jumping
  /\ Send("jump-phase", None, local.card, None)
  /\ local' = [local EXCEPT !.jumping = TRUE]
  /\ UNCHANGED <<serverVars, status, snap, fetch, histVars>>

RemediationOutcomes(a) ==
  CASE a.act = "set-mode" -> {[srv EXCEPT !.mode = a.val]}
    [] a.act = "jump-phase" -> {[srv EXCEPT !.phase = "awaiting-approval"]}
    [] a.act = "approve-isolation" ->
         IF GateOpen(srv) THEN {[srv EXCEPT !.phase = "draining"]} ELSE {}

RemediationEvents(s) ==
  {t \in {[s EXCEPT !.phase = p] : p \in {"normal", "degrading", "awaiting-approval", "draining"}} :
     \/ <<s.phase, t.phase>> \in {<<"normal", "degrading">>, <<"degrading", "awaiting-approval">>,
                                  <<"draining", "normal">>}
     \/ s.mode = "auto" /\ s.phase = "awaiting-approval" /\ t.phase = "draining"}

\* The answers of the three handlers; the approval card may be gone by then.
RemediationAfter(a) ==
  IF a.act = "set-mode" THEN [local EXCEPT !.pending = None, !.modeError = (a.is # "ok")]
  ELSE IF a.val # local.card THEN local
  ELSE IF a.act = "jump-phase" THEN [local EXCEPT !.jumping = FALSE, !.error = (a.is # "ok")]
  ELSE [local EXCEPT !.busy = FALSE, !.confirm = FALSE, !.error = (a.is # "ok")]

RemediationNext ==
  \/ \E m \in Modes : SelectMode(m)
  \/ OpenConfirm \/ CancelConfirm \/ Approve \/ JumpToApproval

=============================================================================
