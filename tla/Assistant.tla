------------------------------- MODULE Assistant -------------------------------
(***************************************************************************)
(* GpuAssistant: a conversation, one intent of which, the isolation of the *)
(* victim, is an action. Of the conversation the model keeps how many      *)
(* questions are open, that is, without the answer that must follow. srv   *)
(* is the phase of the scenario up to the isolation.                       *)
(***************************************************************************)
EXTENDS Feed

AssistantSrv == {"normal", "awaiting-approval", "draining"}

AssistantFresh == [seeded |-> FALSE, acting |-> FALSE, open |-> 0]

\* The first snapshot starts the conversation with the questions of the demonstration,
\* each with its answer; the others leave it as it is.
AssistantSettled(l, s) == [l EXCEPT !.seeded = (l.seeded \/ s # NoSnap)]

\* runIsolate: the question is appended and the action sent.
RunIsolate ==
  /\ CanSend
  /\ Send("approve-isolation", None, None, None)
  /\ local' = [local EXCEPT !.acting = TRUE, !.open = @ + 1]
  /\ UNCHANGED <<serverVars, status, snap, fetch, histVars>>

\* The chips are disabled while an isolation is out.
ChipIsolate == ~local.acting /\ RunIsolate

\* A typed question is not: the form asks only for a text.
TypedIsolate == local.acting /\ RunIsolate

AssistantOutcomes(a) == IF srv = "awaiting-approval" THEN {"draining"} ELSE {}

AssistantEvents(s) ==
  {t \in AssistantSrv :
     <<s, t>> \in {<<"normal", "awaiting-approval">>, <<"draining", "normal">>}}

AnswersSuccessOnly(a) ==
  [local EXCEPT !.acting = FALSE, !.open = IF a.is = "ok" THEN @ - 1 ELSE @]

\* Done or refused, an answer is appended.
AssistantAfter(a) == [local EXCEPT !.acting = FALSE, !.open = @ - 1]

AssistantNext == ChipIsolate \/ TypedIsolate

=============================================================================
