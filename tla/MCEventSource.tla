--------------------------- MODULE MCEventSource ---------------------------
(* Instances of EventSource for TLC. *)
EXTENDS EventSource

CONSTANTS t1, t2, s1, s2, s3, srcA, srcB

\* Callbacks of the one source call back into it.
Reentrant == {<<srcA, srcA>>}

\* Callbacks of srcA call srcB, never the other way round; those of srcB call
\* back into it.
Ordered == {<<srcA, srcB>>, <<srcB, srcB>>}
=============================================================================
