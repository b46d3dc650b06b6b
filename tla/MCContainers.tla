---------------------------- MODULE MCContainers ----------------------------
(***************************************************************************)
(* An instance of Containers for TLC: two arrays of up to three elements,  *)
(* on the heap or with room for two inside; two lists and four nodes; an   *)
(* arena of three pages of two elements; every library of up to four       *)
(* entries; a table of two slots that may grow to four.                    *)
(***************************************************************************)
EXTENDS Containers, TLC

CONSTANTS c1, c2, v1, v2, n1, n2, n3, n4, p1, p2, p3, k1, k2, k3, k4, k5

TwoContainers == {c1, c2}
TwoValues == {v1, v2}
NoneOrTwo == {0, 2}
FourNodes == {n1, n2, n3, n4}
ThreePages == {p1, p2, p3}
OneToFour == 1..4
OneToThree == 1..3
OneTable == {c1}
FiveKeys == {k1, k2, k3, k4, k5}

\* Keys that collide at home, keys at home on slots the others spill to, and one
\* that collides in an array of two slots and parts in one of four.
Colliding == k1 :> 0 @@ k2 :> 0 @@ k3 :> 1 @@ k4 :> 1 @@ k5 :> 2
=============================================================================
