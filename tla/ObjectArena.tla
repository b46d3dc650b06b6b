----------------------------- MODULE ObjectArena -----------------------------
(***************************************************************************)
(* BSTObjectArena: elements in pages of N, appended to the last page,      *)
(* destroyed from the first.  Pages that are done with are kept in a free  *)
(* list of the arena's and taken from there before any is allocated.       *)
(*                                                                         *)
(* clear() runs the element's destructors, each round of its loop is a     *)
(* step.                                                                   *)
(***************************************************************************)
EXTENDS Naturals, Sequences, FiniteSets, SequencesExt

CONSTANTS
    Pages,      \* the memory for pages
    Values,
    Hole,       \* what a place holds where nothing was stored
    NULL,
    N           \* the elements a page holds

VARIABLES
    pages,      \* the pages allocated
    next,       \* Page::next
    buffer,     \* Page::buffer
    head, tail, free,
    nextAt,     \* _next: the page whose next it points at, NULL for _head
    first, last, \* _begin and _end: a page and a place in it, <<NULL, 0>> for none
    size,
    clearing    \* what the loop in clear() is run for, "no" if it is not

pageVars == <<pages, next, buffer, head, tail, free, nextAt>>
arenaVars == <<pageVars, first, last, size, clearing>>

Nowhere == <<NULL, 0>>

\* The constructor, and what the destructor leaves.
Fresh ==
    /\ pages = {}
    /\ next = [p \in Pages |-> NULL]
    /\ buffer = [p \in Pages |-> [i \in 0..(N - 1) |-> Hole]]
    /\ head = NULL /\ tail = NULL /\ free = NULL
    /\ nextAt = NULL
    /\ first = Nowhere /\ last = Nowhere
    /\ size = 0

Init == Fresh /\ clearing = "no"
-----------------------------------------------------------------------------
\* A page from the free list, or else a new one.
PageFrom(p) == IF free # NULL THEN p = free ELSE p \in Pages \ pages

\* Mutant: the last place of a page is left out.
NeedsPageEarly == tail = NULL \/ last = <<tail, N - 1>>

\* allocate_buffer: the last page is full, or there is none.
NeedsPage == tail = NULL \/ last = <<tail, N>>

\* The links once page p is the last one.
Linked(p) == LET cut == [next EXCEPT ![p] = NULL]
             IN  IF nextAt = NULL THEN cut ELSE [cut EXCEPT ![nextAt] = p]

\* Mutant: the page stays in the free list.
LinkPageKeeps(p) ==
    /\ PageFrom(p)
    /\ pages' = pages \cup {p}
    /\ next' = Linked(p)
    /\ head' = IF nextAt = NULL THEN p ELSE head
    /\ nextAt' = p
    /\ tail' = p
    /\ UNCHANGED free

LinkPage(p) ==
    /\ PageFrom(p)
    /\ pages' = pages \cup {p}
    /\ free' = IF free = NULL THEN NULL ELSE next[free]
    /\ next' = Linked(p)
    /\ head' = IF nextAt = NULL THEN p ELSE head
    /\ nextAt' = p
    /\ tail' = p

Store(p, i, v) ==
    /\ buffer' = [buffer EXCEPT ![p][i] = v]
    /\ last' = <<p, i + 1>>
    /\ size' = size + 1

\* _begin once page p is the last one: it is set when it was null.
BeginWith(p) == IF first = Nowhere THEN <<p, 0>> ELSE first

\* emplace_back.
EmplaceBack ==
    /\ clearing = "no"
    /\ \E v \in Values :
         IF NeedsPage
         THEN \E p \in Pages :
                /\ LinkPage(p)
                /\ Store(p, 0, v)
                /\ first' = BeginWith(p)
         ELSE /\ Store(last[1], last[2], v)
              /\ UNCHANGED <<pages, next, head, tail, free, nextAt, first>>
    /\ UNCHANGED clearing

\* clear(), by itself or first in the destructor.
Clear ==
    /\ clearing = "no"
    /\ clearing' \in {"clear", "destroy"}
    /\ UNCHANGED <<pageVars, first, last, size>>

\* All of the first page's elements are destroyed: it goes to the free list.
PageDone ==
    LET p == head
    IN  /\ free' = p
        /\ head' = next[p]
        /\ next' = [next EXCEPT ![p] = free]
        /\ IF p = tail
           THEN nextAt' = NULL /\ tail' = NULL /\ last' = Nowhere /\ first' = Nowhere
           ELSE first' = <<next[p], 0>> /\ UNCHANGED <<nextAt, tail, last>>

\* One round of clear()'s loop.
DestroyFirst ==
    /\ clearing # "no" /\ size > 0
    /\ size' = size - 1
    /\ buffer' = [buffer EXCEPT ![first[1]][first[2]] = Hole]
    /\ IF first[2] + 1 = N
       THEN PageDone
       ELSE first' = <<first[1], first[2] + 1>> /\ UNCHANGED <<next, head, tail, free, nextAt, last>>
    /\ UNCHANGED <<pages, clearing>>

ClearDone ==
    /\ clearing = "clear" /\ size = 0
    /\ clearing' = "no"
    /\ UNCHANGED <<pageVars, first, last, size>>

\* The pages from one to the end of its list.
Chain(p) ==
    LET met[i \in 1..(Cardinality(Pages) + 1)] ==
            IF i = 1 THEN p ELSE IF met[i - 1] = NULL THEN NULL ELSE next[met[i - 1]]
    IN  [i \in {j \in DOMAIN met : met[j] # NULL} |-> met[i]]

\* The rest of the destructor: the pages of both lists are deleted.  The memory
\* is used for another arena.
Destroy ==
    /\ clearing = "destroy" /\ size = 0
    /\ clearing' = "no"
    /\ pages' = pages \ (Range(Chain(head)) \cup Range(Chain(free)))
    /\ next' = [p \in Pages |-> NULL]
    /\ head' = NULL /\ tail' = NULL /\ free' = NULL /\ nextAt' = NULL
    /\ first' = Nowhere /\ last' = Nowhere
    /\ UNCHANGED <<buffer, size>>

Room == Cardinality(pages) < Cardinality(Pages) \/ free # NULL \/ ~NeedsPage    \* bound: the memory for pages

Next ==
    \/ Room /\ EmplaceBack
    \/ Clear \/ DestroyFirst \/ ClearDone \/ Destroy

Spec == Init /\ [][Next]_arenaVars
-----------------------------------------------------------------------------
\* iterator::operator++.
Following(at) ==
    IF at[2] + 1 = N /\ <<at[1], N>> # last THEN <<next[at[1]], 0>> ELSE <<at[1], at[2] + 1>>

\* The places an iterator is at that starts at begin() and is moved on once for
\* every element.
Walk ==
    LET at[i \in 1..(size + 1)] == IF i = 1 THEN first ELSE Following(at[i - 1])
    IN  at

Elements == [i \in 1..size |-> buffer[Walk[i][1]][Walk[i][2]]]

\* Every page allocated is in one of the two lists and in one place of it (so
\* that the destructor deletes each of them once), operator++ goes from begin() to
\* end() through as many elements as size() says, all of them alive, in pages of
\* the arena, and none elsewhere, and the next page will be linked behind the last.
PagesAccounted ==
    LET active == Chain(head)
        spare == Chain(free)
    IN  /\ pages = Range(active) \cup Range(spare)
        /\ IsInjective(active) /\ IsInjective(spare) /\ Range(active) \cap Range(spare) = {}
        /\ \A i \in 1..(size + 1) : Walk[i] = last <=> i = size + 1
        /\ \A i \in 1..size : Walk[i][1] \in Range(active)
        /\ \A p \in Pages, i \in 0..(N - 1) :
               buffer[p][i] # Hole <=> \E k \in 1..size : Walk[k] = <<p, i>>
        /\ IF active = <<>> THEN tail = NULL /\ nextAt = NULL
                            ELSE tail = Last(active) /\ nextAt = tail

Queue == INSTANCE ObjectQueue WITH queue <- Elements

\* The arena is a queue, over any number of pages and through their reuse.
ImplementsQueue == Queue!Spec
=============================================================================
