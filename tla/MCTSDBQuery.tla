---------------------------- MODULE MCTSDBQuery ----------------------------
(* A small instance of the storage engine with a reader for TLC. *)
EXTENDS TSDBQuery, TLC
CONSTANTS A, B

Symmetry == Permutations(Lsets)

\* The local variables of a call are dead once it has ended: every step that reads one
\* comes after a step of the same call that sets it.
Local(v, live) == IF pc \in live THEN v ELSE 0
View ==
  <<memVars, pc, walVars, blocks, histVars, clock, appends, crashes, faults, qvars,
    Local(cur, {"logSeries", "logSamples"}), Local(pos, {"replay"}),
    Local(now, PCs \ {"idle", "logSeries", "logSamples", "down", "replay"})>>
=============================================================================
