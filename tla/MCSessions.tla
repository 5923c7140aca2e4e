----------------------------- MODULE MCSessions -----------------------------
(* A small instance of the session store for TLC. *)
EXTENDS Sessions
CONSTANTS P, Q, K, L
=============================================================================
