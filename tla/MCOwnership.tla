---------------------------- MODULE MCOwnership -----------------------------
(***************************************************************************)
(* An instance of Ownership for TLC.                                       *)
(***************************************************************************)
EXTENDS Ownership, TLC

CONSTANTS t1, t2, p, q, r, a, b, x, y

\* Two threads with three pointers, and an object that can refer to another;
\* Scaleform's pointers with one thread, their counts not being atomic.
TwoThreads == "bethesda" :> {t1, t2} @@ "scaleform" :> {t1}
ThreePointers == t1 :> {p, q} @@ t2 :> {r}
AB == {a, b}

\* Fields small enough for the threads to fill them, but for the streams'.
SmallFields == "havok" :> 4 @@ "string" :> 4 @@ "stream" :> 6
OnlyB == {b}

PQ == {p, q}
XY == {x, y}
BoxesAlike == Permutations(XY)
=============================================================================
