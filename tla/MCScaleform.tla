---------------------------- MODULE MCScaleform -----------------------------
(* An instance of SmartPointers for TLC: Scaleform::Ptr, two threads. *)
EXTENDS SmartPointers, TLC

CONSTANTS t1, t2, p, q, r, a, b

OnTwoThreads == "scaleform" :> {t1, t2}
OwnPointers == t1 :> {p, q} @@ t2 :> {r}
=============================================================================
