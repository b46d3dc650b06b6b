------------------------------ MODULE ExtraMap ------------------------------
(***************************************************************************)
(* What ExtraDataList (RE/Bethesda/BSExtraData.h) promises its callers: a  *)
(* set with at most one extra of each type, queried by type.               *)
(***************************************************************************)
CONSTANTS
    Threads,
    Extras,
    TypeOf,     \* the type of each extra
    Nil

VARIABLES
    present,    \* the extras callers have given to the list
    answer      \* answer[t]: what t's last query returned

mapVars == <<present, answer>>

OfType(type) == {e \in present : TypeOf[e] = type}

MapInit ==
    /\ present = {}
    /\ answer = [t \in Threads |-> Nil]

Add(e) ==
    /\ OfType(TypeOf[e]) = {}
    /\ present' = present \cup {e}
    /\ UNCHANGED answer

Remove(type) ==
    /\ present' = present \ OfType(type)
    /\ UNCHANGED answer

Query(t, type) ==
    /\ \E e \in Extras \cup {Nil} :
           /\ IF OfType(type) = {} THEN e = Nil ELSE e \in OfType(type)
           /\ answer' = [answer EXCEPT ![t] = e]
    /\ UNCHANGED present

MapNext ==
    \/ \E e \in Extras : Add(e) \/ Remove(TypeOf[e])
    \/ \E t \in Threads, e \in Extras : Query(t, TypeOf[e])

MapSpec == MapInit /\ [][MapNext]_mapVars
=============================================================================
