--------------------------- MODULE MCScatterTable ---------------------------
(* Instances of ScatterTable for TLC. *)
EXTENDS ScatterTable, TLC

CONSTANTS a, b, k1, k2, k3

\* Two keys that collide at home, and one at home where one of them spills to.
Colliding == k1 :> 1 @@ k2 :> 1 @@ k3 :> 0
=============================================================================
