--------------------------------- MODULE MCViews ---------------------------------
EXTENDS Views, TLC

CONSTANTS g1, g2, g3, n1, n2, c1, c2, r1, k1, t1, m1

MCNodeOf == (g1 :> n1) @@ (g2 :> n1) @@ (g3 :> n2)
MCLabelOf ==
  [csp      |-> (g1 :> c1) @@ (g2 :> c1) @@ (g3 :> c2),
   region   |-> (g1 :> r1) @@ (g2 :> r1) @@ (g3 :> None),
   cluster  |-> (g1 :> k1) @@ (g2 :> k1) @@ (g3 :> k1),
   tenant   |-> (g1 :> None) @@ (g2 :> t1) @@ (g3 :> t1),
   workload |-> (g1 :> None) @@ (g2 :> "training") @@ (g3 :> "inference"),
   model    |-> (g1 :> m1) @@ (g2 :> m1) @@ (g3 :> m1)]
MCFleetAlerts ==
  {[of |-> None, node |-> None, severity |-> "major", acked |-> TRUE],
   [of |-> None, node |-> None, severity |-> "info", acked |-> FALSE]}
MCAddresses == {Root, Explorer}
MCByIdleness == <<g3, g1, g2>>
MCDeviceOf == (g1 :> "d1") @@ (g2 :> "d2") @@ (g3 :> "d1")
MCByName == <<g1, g2, g3>>
=============================================================================
