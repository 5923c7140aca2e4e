-------------------------------- MODULE Ruleset --------------------------------
(***************************************************************************)
(* GpuRuleset: the rules of the detection, each enabled or not, and the    *)
(* button that turns one of them. srv tells of each rule if it is enabled. *)
(***************************************************************************)
EXTENDS Feed

CONSTANT Rules

ASSUME RulesetAssumption == None \notin Rules

RulesetSrv == [Rules -> BOOLEAN]

RulesetFresh == [pending |-> None, error |-> FALSE]

\* All the buttons are disabled while a change is out.
MayToggle == local.pending = None

\* The new value is the opposite of the one on the screen.
Toggle(r) ==
  /\ CanSend /\ MayToggle
  /\ Send("set-rule-enabled", r, ~snap[r], None)
  /\ local' = [pending |-> r, error |-> FALSE]
  /\ UNCHANGED <<serverVars, status, snap, fetch, histVars>>

RulesetOutcomes(a) == {[srv EXCEPT ![a.of] = a.val]}

RulesetAfter(a) == [pending |-> None, error |-> (a.is # "ok")]

RulesetNext == \E r \in Rules : Toggle(r)

=============================================================================
