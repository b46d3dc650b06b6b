------------------------------ MODULE KeySets ------------------------------
(***************************************************************************)
(* What BSTScatterTable (RE/Bethesda/BSTHashMap.h) promises: each table is *)
(* a finite set of keys, whatever the layout of its slots.                 *)
(***************************************************************************)
CONSTANTS Tables, Keys

VARIABLE contents   \* contents[t]: the keys table t holds

SetInit == contents = [t \in Tables |-> {}]

Add(t, k) == contents' = [contents EXCEPT ![t] = @ \cup {k}]
Remove(t, k) == contents' = [contents EXCEPT ![t] = @ \ {k}]
Empty(t) == contents' = [contents EXCEPT ![t] = {}]
AddAll(t, u) == contents' = [contents EXCEPT ![t] = @ \cup contents[u]]
Copy(t, u) == contents' = [contents EXCEPT ![t] = contents[u]]
Move(t, u) == contents' = [contents EXCEPT ![t] = contents[u], ![u] = {}]

SetNext ==
    \/ \E t \in Tables, k \in Keys : Add(t, k) \/ Remove(t, k)
    \/ \E t \in Tables : Empty(t)
    \/ \E t, u \in Tables : t # u /\ (AddAll(t, u) \/ Copy(t, u) \/ Move(t, u))

SetSpec == SetInit /\ [][SetNext]_contents
=============================================================================
