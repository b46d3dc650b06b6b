---------------------------- MODULE MCTrampoline ----------------------------
(* Instances of Trampoline for TLC: 16 pages of 16 bytes, .text from page 5 *)
(* to the middle of page 7, a reach of 64 bytes, an allocation granularity  *)
(* of two pages.                                                            *)
EXTENDS Trampoline

CONSTANTS g1, g2, d1, d2

TwoSites == {80, 104}
Lengths == [src \in TwoSites |-> IF src = 104 THEN 6 ELSE 5]

\* The pool is page 4; the address space around the code is free, or partly
\* taken.
Roomy == {4..7, (4..7) \cup {10, 11}}

\* Everything the search meets below the code and next to it is taken.
Crowded == {0..8, 0..7}
=============================================================================
