------------------------------ MODULE MCAlerts ------------------------------
(* Two rules that share an alert, one of them without For, for TLC. *)
EXTENDS Alerts
CONSTANTS A, B

MCAlertsOf == <<{A}, {A, B}>>
MCFor == <<2, 0>>
=============================================================================
