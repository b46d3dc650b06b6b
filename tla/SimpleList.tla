----------------------------- MODULE SimpleList ------------------------------
(***************************************************************************)
(* BSSimpleList: a forward list whose first element is inside the list,    *)
(* its root, and the others in nodes of their own.  A list is empty when   *)
(* its root has no successor and a falsy value, so that a falsy element    *)
(* cannot always be told from none.  The calls are operators from heaps to *)
(* heaps; an element's position counts from 1, 0 is before_begin().        *)
(***************************************************************************)
EXTENDS Naturals, Sequences, FiniteSets, SequencesExt

CONSTANTS
    Lists,
    Nodes,      \* the memory for nodes
    Values,     \* the truthy values
    Zero,       \* the falsy one
    NULL

VARIABLES
    heap,       \* the roots, the nodes and which of these exist
    crashed     \* a null pointer was followed

listVars == <<heap, crashed>>

Root == [value |-> Zero, next |-> NULL]

Init ==
    /\ heap = [root |-> [l \in Lists |-> Root], node |-> [n \in Nodes |-> Root], used |-> {}]
    /\ crashed = FALSE
-----------------------------------------------------------------------------
\* The nodes from one on, as far as there are any.
Chain(h, first) ==
    LET met[i \in 1..(Cardinality(Nodes) + 1)] ==
            IF i = 1 THEN first
            ELSE IF met[i - 1] = NULL THEN NULL ELSE h.node[met[i - 1]].next
    IN  [i \in {j \in DOMAIN met : met[j] # NULL} |-> met[i]]

IsEmpty(h, l) == h.root[l] = Root

Behind(h, l) == Chain(h, h.root[l].next)
Size(h, l) == IF IsEmpty(h, l) THEN 0 ELSE 1 + Len(Behind(h, l))

\* The elements from begin() to end().
Items(h, l) ==
    IF IsEmpty(h, l) THEN <<>>
    ELSE <<h.root[l].value>> \o [i \in 1..Len(Behind(h, l)) |-> h.node[Behind(h, l)[i]].value]

\* The node of element i; the first one's is the root.
NodeAt(h, l, i) == IF i > Size(h, l) THEN NULL ELSE Behind(h, l)[i - 1]
SetNext(h, l, i, n) ==
    IF i = 1 THEN [h EXCEPT !.root[l].next = n] ELSE [h EXCEPT !.node[NodeAt(h, l, i)].next = n]

\* What a node that is gone holds is not kept.
Delete(h, ns) ==
    [h EXCEPT !.used = @ \ ns, !.node = [n \in Nodes |-> IF n \in ns THEN Root ELSE @[n]]]

\* delRange: the nodes of elements "from" up to, not with, "to".
NodesOf(h, l, from, to) == {NodeAt(h, l, i) : i \in from..(to - 1)}
DeleteRange(h, l, from, to) == Delete(h, NodesOf(h, l, from, to))

\* allocate_range: nodes chained in the order of the values, the last one's
\* successor being "after".
Take(h, k) == SubSeq(SetToSeq(Nodes \ h.used), 1, k)
Allocated(h, ns, s, after) ==
    [h EXCEPT
        !.used = @ \cup Range(ns),
        !.node = [n \in Nodes |->
                     IF n \notin Range(ns) THEN @[n]
                     ELSE LET i == CHOOSE j \in DOMAIN ns : ns[j] = n
                          IN  [value |-> s[i], next |-> IF i = Len(ns) THEN after ELSE ns[i + 1]]]]
-----------------------------------------------------------------------------
(***************************************************************************)
(* The calls.                                                              *)
(***************************************************************************)

\* Mutant: the element of the root is overwritten.
RootNotMovedOut(h, l) == h

\* The root's element is moved to a node of its own, when its value is truthy.
RootMovedOut(h, l) ==
    IF h.root[l].value = Zero THEN h
    ELSE LET x == Take(h, 1)
         IN  [Allocated(h, x, <<h.root[l].value>>, h.root[l].next) EXCEPT !.root[l].next = x[1]]

\* insert_after of the values s, which are not none: before the first element,
\* the first new node is moved into the root and deleted.
InsertAfter(h, l, i, s) ==
    IF i = 0
    THEN LET h1 == RootMovedOut(h, l)
             ns == Take(h1, Len(s))
             h2 == Allocated(h1, ns, s, h1.root[l].next)
         IN  [Delete(h2, {ns[1]}) EXCEPT !.root[l] = h2.node[ns[1]]]
    ELSE LET ns == Take(h, Len(s))
         IN  Allocated(SetNext(h, l, i, ns[1]), ns, s, NodeAt(h, l, i + 1))

\* erase_after(first, last): the elements between two positions.  Before the
\* first one, the last one is moved into the root; when that is the root itself,
\* the loop never meets it and runs off the end of the list.
EraseRange(h, l, i, j) ==
    IF i > 0
    THEN Delete(SetNext(h, l, i, NodeAt(h, l, j)), NodesOf(h, l, i + 1, j))
    ELSE IF j = Size(h, l) + 1
    THEN [DeleteRange(h, l, 2, j) EXCEPT !.root[l] = Root]
    ELSE [DeleteRange(h, l, 2, j + 1) EXCEPT !.root[l] = h.node[NodeAt(h, l, j)]]

RunsOff(h, l, i, j) == i = 0 /\ j = 1 /\ ~IsEmpty(h, l)

Clear(h, l) == EraseRange(h, l, 0, Size(h, l) + 1)

Assign(h, l, s) == IF s = <<>> THEN Clear(h, l) ELSE InsertAfter(Clear(h, l), l, 0, s)

Resize(h, l, k, v) ==
    IF k <= Size(h, l) THEN EraseRange(h, l, k, Size(h, l) + 1)
    ELSE InsertAfter(h, l, Size(h, l), [i \in 1..(k - Size(h, l)) |-> v])

MoveAssign(h, l, m) ==
    LET g == Clear(h, l) IN [g EXCEPT !.root = [@ EXCEPT ![l] = g.root[m], ![m] = Root]]

Swap(h, l, m) == [h EXCEPT !.root = [@ EXCEPT ![l] = h.root[m], ![m] = h.root[l]]]
-----------------------------------------------------------------------------
Free(k) == Cardinality(Nodes \ heap.used) >= k      \* bound: the nodes

Becomes(h) == ~crashed /\ heap' = h /\ UNCHANGED crashed

Ranges == UNION {[1..n -> Values] : n \in 1..2}

\* insert_after, emplace_after, push_front.
DoInsert(l) ==
    \E i \in 0..Size(heap, l), s \in Ranges :
        Free(Len(s) + 1) /\ Becomes(InsertAfter(heap, l, i, s))

DoEraseRange(l) ==
    \E i \in 0..Size(heap, l) : \E j \in (i + 1)..(Size(heap, l) + 1) :
        /\ ~RunsOff(heap, l, i, j)
        /\ Becomes(EraseRange(heap, l, i, j))

\* erase_after(pos), pop_front: which of erase_after(pos, ++pos)'s arguments is
\* made first is not specified.
EraseAfter(l) ==
    \E i \in 0..Size(heap, l) :
        \E first \in {i, i + 1} :
            /\ ~crashed
            /\ crashed' = (first = i /\ RunsOff(heap, l, i, i + 1))
            /\ heap' = IF first = i /\ ~crashed' THEN EraseRange(heap, l, i, i + 1) ELSE heap

DoAssign(l) == \E s \in Ranges \cup {<<>>} : Free(Len(s)) /\ Becomes(Assign(heap, l, s))

DoResize(l) ==
    \E k \in 0..(Size(heap, l) + 2), v \in Values \cup {Zero} :
        Free((k + 1) - Size(heap, l)) /\ Becomes(Resize(heap, l, k, v))

DoMoveAssign(l, m) == l # m /\ Becomes(MoveAssign(heap, l, m))
DoSwap(l, m) == l # m /\ Becomes(Swap(heap, l, m))

Next ==
    \E l \in Lists :
        \/ DoInsert(l) \/ DoEraseRange(l) \/ EraseAfter(l) \/ DoAssign(l) \/ DoResize(l)
        \/ \E m \in Lists : DoMoveAssign(l, m) \/ DoSwap(l, m)

Spec == Init /\ [][Next]_listVars
-----------------------------------------------------------------------------
\* Every node that exists is in one place of one list, and the lists have no
\* other: nothing is deleted while it is linked, nothing is left behind.
NodesOwned ==
    /\ heap.used = UNION {Range(Behind(heap, l)) : l \in Lists}
    /\ \A l, m \in Lists : \A i \in DOMAIN Behind(heap, l), j \in DOMAIN Behind(heap, m) :
           Behind(heap, l)[i] = Behind(heap, m)[j] => l = m /\ i = j

\* The first element is falsy: it cannot be told from none.
FalsyFirst(l) == heap.root[l].value = Zero

\* Every call does to the elements what its name says, for truthy values; but
\* erase_after(pos) erases nothing, from before_begin() it may crash.
CallsAsSequences ==
    \A l \in Lists :
        LET s == Items(heap, l)
            n == Size(heap, l)
        IN  ~crashed =>
            /\ \A i \in 0..n, t \in Ranges :
                 \/ ~Free(Len(t) + 1)
                 \/ i = 0 /\ n > 0 /\ FalsyFirst(l)
                 \/ Items(InsertAfter(heap, l, i, t), l) = SubSeq(s, 1, i) \o t \o SubSeq(s, i + 1, n)
            /\ \A i \in 0..n : \A j \in (i + 1)..(n + 1) :
                 \/ RunsOff(heap, l, i, j)
                 \/ Zero \in Range(s)
                 \/ Items(EraseRange(heap, l, i, j), l) = SubSeq(s, 1, i) \o SubSeq(s, j, n)
            /\ \A k \in 0..(n + 2), v \in Values :
                 \/ ~Free((k + 1) - n)
                 \/ Zero \in Range(s)
                 \/ Items(Resize(heap, l, k, v), l) = [i \in 1..k |-> IF i <= n THEN s[i] ELSE v]
            /\ \A t \in Ranges \cup {<<>>} : Free(Len(t)) => Items(Assign(heap, l, t), l) = t
            /\ \A m \in Lists \ {l} :
                 /\ Items(MoveAssign(heap, l, m), l) = Items(heap, m)
                 /\ Items(MoveAssign(heap, l, m), m) = <<>>
                 /\ Items(Swap(heap, l, m), l) = Items(heap, m)
=============================================================================
