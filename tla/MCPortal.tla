------------------------------ MODULE MCPortal ------------------------------
(* A small instance of the console in front of its login for TLC. *)
EXTENDS Portal
CONSTANTS A, B
=============================================================================
