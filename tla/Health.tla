-------------------------------- MODULE Health --------------------------------
(***************************************************************************)
(* GpuHealth with the AlertTimeline: alerts the operator acknowledges. The *)
(* timeline remembers which buttons were pressed until it is unmounted.    *)
(* srv is, of each alert, whether it is on the list and acknowledged. An   *)
(* alert's id is its own (demoApi.ts:319): one that has left the list does *)
(* not come back to it.                                                    *)
(***************************************************************************)
EXTENDS Feed

CONSTANT Alarms

AlarmStates == {"coming", "open", "acked", "gone"}

HealthSrv == [Alarms -> AlarmStates]

OnList(s, n) == s[n] \in {"open", "acked"}

HealthFresh == [acked |-> {}]

IsAcked(n) == snap[n] = "acked" \/ n \in local.acked

\* The mark is set at once; nobody looks at the answer.
OnAck(n) ==
  /\ CanSend /\ OnList(snap, n) /\ ~IsAcked(n)
  /\ Send("ack-alert", n, None, None)
  /\ local' = [acked |-> local.acked \cup {n}]
  /\ UNCHANGED <<serverVars, status, snap, fetch, histVars>>

HealthOutcomes(a) == IF OnList(srv, a.of) THEN {[srv EXCEPT ![a.of] = "acked"]} ELSE {}

\* Alerts are raised, acknowledged elsewhere, and fall off the list.
HealthEvents(s) ==
  {t \in {[s EXCEPT ![n] = v] : n \in Alarms, v \in AlarmStates} :
     \E n \in Alarms : <<s[n], t[n]>> \in
       {<<"coming", "open">>, <<"open", "acked">>, <<"open", "gone">>, <<"acked", "gone">>}}

\* The marks that still wait for the server: an alert may have left the list by then.
Unsettled == {n \in local.acked : srv[n] = "open"}

HealthNext == \E n \in Alarms : OnAck(n)

=============================================================================
