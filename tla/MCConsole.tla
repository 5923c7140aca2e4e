------------------------------ MODULE MCConsole ------------------------------
(***************************************************************************)
(* Console with two idle GPUs, two burn-in configurations of which one is  *)
(* accepted, two rules, two reasons and two alerts; each page is started   *)
(* from the states of the server in which it has something to do.          *)
(***************************************************************************)
EXTENDS Console, TLC

CONSTANTS g1, g2, c1, r1, a1

MCLine == <<g1, g2>>

Verdict(v, w) == g1 :> v @@ g2 :> w

Scene(ph, v, w) == [phase |-> ph, verdict |-> Verdict(v, w), cfg |-> c1]

MCStarts ==
  [page : {"validation"},
   srv  : {Scene("burnin-failed", "gone", "gone"), Scene("normal", "validating", "validating"),
           Scene("normal", "idle", "ready"), Scene("ready-to-return", "gone", "gone")}]
  \cup [page : {"idle"}, srv : {Verdict("idle", "ready"), Verdict("failed", "gone")}]
  \cup [page : {"remediation"},
   srv  : {[phase |-> "awaiting-approval", mode |-> "observe"], [phase |-> "normal", mode |-> "auto"]}]
  \cup [page : {"ruleset"}, srv : {[r \in Rules |-> r = r1]}]
  \cup [page : {"assistant"}, srv : {"awaiting-approval", "normal"}]
  \cup [page : {"incident"}, srv : {"approve-isolation"}]
  \cup [page : {"board"}, srv : {"awaiting-approval", "ready-to-return"}]
  \cup [page : {"efficiency"}, srv : {[g \in Gpus |-> IF g = g1 THEN "none" ELSE "gone"]}]
  \cup [page : {"health"}, srv : {[n \in Alarms |-> IF n = a1 THEN "open" ELSE "coming"]}]

\* The pages without a query of the time series.
ExpiryStarts == {st \in MCStarts : st.page \in {"idle", "remediation", "ruleset"}}
=============================================================================
