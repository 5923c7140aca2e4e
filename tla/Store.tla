--------------------------------- MODULE Store ---------------------------------
(***************************************************************************)
(* What the storage engine promises those who append, read and restart it, *)
(* without head, log, blocks or compaction: a set of samples that survives *)
(* a kill and one that readers see. A sample leaves either only when the   *)
(* engine may give it up.                                                  *)
(***************************************************************************)
CONSTANT Sample

VARIABLES
  up,        \* is the process serving?
  acked,     \* the samples it has acknowledged
  givenUp,   \* the samples it need not keep: too old, or gone with a block's name
  stored,    \* the samples a restart would find
  visible    \* the samples a reader finds

storeVars == <<up, acked, givenUp, stored, visible>>

Init ==
  /\ up = TRUE
  /\ acked = {} /\ givenUp = {} /\ stored = {} /\ visible = {}

\* An acknowledged sample is stored by then, and readers see it already.
Acknowledge(s) ==
  /\ up /\ s \in visible
  /\ acked' = acked \cup {s}
  /\ stored \subseteq stored' /\ s \in stored' \cup givenUp
  /\ UNCHANGED <<up, givenUp, visible>>

\* Appends under way, compactions, truncations and retention passes, also those that
\* fail half way. More may be stored or seen, acknowledged or not.
Work ==
  /\ up
  /\ givenUp \subseteq givenUp'
  /\ stored \ givenUp' \subseteq stored'
  /\ visible \ givenUp' \subseteq visible'
  /\ UNCHANGED <<up, acked>>

\* A kill takes nothing from what is stored ...
Kill ==
  /\ up /\ up' = FALSE
  /\ visible' = {}
  /\ UNCHANGED <<acked, givenUp, stored>>

\* ... and a restart makes all of it visible.
Recover ==
  /\ ~up /\ up' = TRUE
  /\ stored \subseteq visible'
  /\ UNCHANGED <<acked, givenUp, stored>>

Next == (\E s \in Sample : Acknowledge(s)) \/ Work \/ Kill \/ Recover

Spec == Init /\ [][Next]_storeVars
=============================================================================
