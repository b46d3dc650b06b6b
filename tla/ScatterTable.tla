---------------------------- MODULE ScatterTable ----------------------------
(***************************************************************************)
(* BSTScatterTable (RE/Bethesda/BSTHashMap.h), the scatter table with      *)
(* chaining behind BSTHashMap, BSTSet, BSTStaticHashMap and                *)
(* BSTScrapHashMap: a power-of-two array of slots, each chain threaded     *)
(* through the array and starting at the home slot of its keys.  A table   *)
(* is used by one thread at a time, so each public member is one step; the *)
(* erase loop of a caller, which spans several calls, is several.          *)
(***************************************************************************)
EXTENDS Integers, FiniteSets, FiniteSetsExt

CONSTANTS
    Tables,         \* the table objects
    Keys,
    Hash,           \* Hash[k]: hash_function(k)
    MinSize,        \* allocator_type::min_size()
    MaxCapacity,    \* the most slots the allocator hands out (N of a
                    \* BSTStaticHashMap; a bound on the others)
    Vacant,         \* a slot whose entry has no value (next == nullptr)
    Sentinel,       \* the end of a chain
    NoSlot          \* end()

\* The capacities TLC computes with; the code stops at 2^31.
PowersOfTwo == {2^e : e \in 0..30}

ASSUME ScatterTableAssumption ==
    /\ \A k \in Keys : Hash[k] \in Nat
    /\ MinSize \in PowersOfTwo /\ MaxCapacity \in PowersOfTwo
    /\ MinSize <= MaxCapacity
    /\ Vacant \notin [key : Keys, next : Nat \cup {Sentinel}]
    /\ Sentinel \notin Nat /\ NoSlot \notin Nat

VARIABLES
    table,      \* table[t]: the members of table t
    cursor,     \* cursor[t]: the slot a caller's erase loop stands on
    visited,    \* visited[t]: the keys that loop has been at
    failed      \* report_and_fail was called: the process is gone

vars == <<table, cursor, visited, failed>>

-----------------------------------------------------------------------------
\* _capacity, _free, _good and the entries.
Fresh(capacity) ==
    [capacity |-> capacity, free |-> capacity, good |-> 0,
     slots |-> [i \in 0..(capacity - 1) |-> Vacant]]

Slots(tbl) == 0..(tbl.capacity - 1)
Taken(tbl) == {i \in Slots(tbl) : tbl.slots[i] # Vacant}
Size(tbl) == tbl.capacity - tbl.free

\* get_entry_for
Home(tbl, k) == Hash[k] % tbl.capacity

\* The slots a walk along next from slot h passes: the least set of slots that
\* holds h and, with an entry, its next.
Closed(tbl, S) == \A i \in S \cap Taken(tbl) : tbl.slots[i].next \in S \cup {Sentinel}

Chain(tbl, h) ==
    LET closed == {S \in SUBSET Slots(tbl) : h \in S /\ Closed(tbl, S)}
    IN  {i \in Slots(tbl) : \A S \in closed : i \in S}

\* do_find
Find(tbl, k) ==
    LET hits == IF Size(tbl) = 0 THEN {}
                ELSE {i \in Chain(tbl, Home(tbl, k)) \cap Taken(tbl) :
                          tbl.slots[i].key = k}
    IN  IF hits = {} THEN NoSlot ELSE CHOOSE i \in hits : TRUE

Found(tbl) == {k \in Keys : Find(tbl, k) # NoSlot}

\* get_free_entry: the first vacant slot at or, wrapping, after _good.
FreeSlot(tbl) ==
    LET at(n) == (tbl.good + n) % tbl.capacity
    IN  at(Min({n \in Slots(tbl) : tbl.slots[at(n)] = Vacant}))

\* The entry of the chain of slot h whose next is slot e.
Before(tbl, h, e) ==
    CHOOSE i \in Chain(tbl, h) \cap Taken(tbl) : tbl.slots[i].next = e

-----------------------------------------------------------------------------
\* The three ways do_insert finds room for a key that is not there.
Entry(k, next) == [key |-> k, next |-> next]

PlaceAtHome(tbl, k) ==
    [tbl EXCEPT !.slots[Home(tbl, k)] = Entry(k, Sentinel), !.free = @ - 1]

\* The occupant is at home: the new entry is spliced in behind it.
SpliceBehind(tbl, k) ==
    LET e == Home(tbl, k)
        f == FreeSlot(tbl)
    IN  [tbl EXCEPT !.slots[f] = Entry(k, tbl.slots[e].next),
                    !.slots[e].next = f,
                    !.good = f, !.free = @ - 1]

\* The occupant belongs to another chain: it moves out and is relinked.
Evict(tbl, k) ==
    LET e    == Home(tbl, k)
        f    == FreeSlot(tbl)
        prev == Before(tbl, Home(tbl, tbl.slots[e].key), e)
    IN  [tbl EXCEPT !.slots[f] = tbl.slots[e],
                    !.slots[prev].next = f,
                    !.slots[e] = Entry(k, Sentinel),
                    !.good = f, !.free = @ - 1]

\* do_insert in a table that has a free slot.
Insert(tbl, k) ==
    LET e == Home(tbl, k)
    IN  CASE Find(tbl, k) # NoSlot -> tbl
          [] OTHER ->
             CASE tbl.slots[e] = Vacant -> PlaceAtHome(tbl, k)
               [] tbl.slots[e] # Vacant /\ Home(tbl, tbl.slots[e].key) = e ->
                      SpliceBehind(tbl, k)
               [] OTHER -> Evict(tbl, k)

\* Mutant: the tail of a chain is vacated without being detached from it.
EraseUndetached(tbl, e) ==
    IF tbl.slots[e].next = Sentinel
    THEN [tbl EXCEPT !.slots[e] = Vacant, !.free = @ + 1]
    ELSE LET n == tbl.slots[e].next
         IN  [tbl EXCEPT !.slots[e] = tbl.slots[n], !.slots[n] = Vacant,
                         !.free = @ + 1]

\* do_erase of the entry in slot e: a tail is detached from its chain, any
\* other entry is overwritten by the one after it.
Erase(tbl, e) ==
    LET n    == tbl.slots[e].next
        h    == Home(tbl, tbl.slots[e].key)
        freed == [tbl EXCEPT !.free = @ + 1]
    IN  CASE n # Sentinel ->
               [freed EXCEPT !.slots[e] = tbl.slots[n], !.slots[n] = Vacant]
          [] n = Sentinel /\ h = e -> [freed EXCEPT !.slots[e] = Vacant]
          [] OTHER ->
               [freed EXCEPT !.slots[Before(tbl, h, e)].next = Sentinel,
                             !.slots[e] = Vacant]

\* The sizes a table may have.  The one for count entries is std::bit_ceil(count),
\* raised to the smallest size the allocator works with.
Capacities == {c \in PowersOfTwo : MinSize <= c /\ c <= MaxCapacity}
CapacityFor(count) == Min({c \in Capacities : count <= c})

\* MaxCapacity is a size itself, and no table is larger.
CanReserve(count) == count <= MaxCapacity

\* The loop of an insertion over the slots of another table or array.
InsertEntry(tbl, slot) == IF slot = Vacant THEN tbl ELSE Insert(tbl, slot.key)

InsertAll(tbl, from) ==
    LET after[n \in 0..from.capacity] ==
            IF n = 0 THEN tbl ELSE InsertEntry(after[n - 1], from.slots[n - 1])
    IN  after[from.capacity]

\* Mutant: the loop over the old array starts behind its first slot.
ReserveSkipsFirst(tbl, count) ==
    IF count <= tbl.capacity THEN tbl
    ELSE InsertAll(Fresh(CapacityFor(count)), [tbl EXCEPT !.slots[0] = Vacant])

\* reserve: a larger array, into which the old entries are inserted anew.
Reserve(tbl, count) ==
    IF count <= tbl.capacity THEN tbl ELSE InsertAll(Fresh(CapacityFor(count)), tbl)

\* insert(first, last)
InsertRange(tbl, from) == InsertAll(Reserve(tbl, Size(tbl) + Size(from)), from)

\* Mutant: clear() leaves _free as it was.
ClearKeepsFree(tbl) == [Fresh(tbl.capacity) EXCEPT !.free = tbl.free]

Clear(tbl) == IF Size(tbl) > 0 THEN Fresh(tbl.capacity) ELSE tbl

\* make_iterator(slot i): seek() to the first taken slot from i on.
Seek(tbl, i) ==
    LET ahead == {j \in Taken(tbl) : j >= i}
    IN  IF ahead = {} THEN NoSlot ELSE Min(ahead)

-----------------------------------------------------------------------------
Init ==
    /\ table = [t \in Tables |-> Fresh(0)]
    /\ cursor = [t \in Tables |-> NoSlot]
    /\ visited = [t \in Tables |-> {}]
    /\ failed = FALSE

\* Calls that invalidate iterators come outside erase loops.
Usable(t) == ~failed /\ cursor[t] = NoSlot

Become(t, tbl) ==
    /\ table' = [table EXCEPT ![t] = tbl]
    /\ UNCHANGED <<cursor, visited, failed>>

\* The allocation fails or the size is above 2^31.
Fail ==
    /\ failed' = TRUE
    /\ UNCHANGED <<table, cursor, visited>>

\* insert(value), emplace: a full table grows by reserve(_capacity + 1).
InsertKey(t, k) ==
    LET tbl   == table[t]
        grows == tbl.free = 0 /\ Find(tbl, k) = NoSlot
        count == IF grows THEN tbl.capacity + 1 ELSE 0
    IN  /\ Usable(t)
        /\ \/ CanReserve(count) /\ Become(t, Insert(Reserve(tbl, count), k))
           \/ ~CanReserve(count) /\ Fail

\* erase(key)
EraseKey(t, k) ==
    /\ Usable(t)
    /\ Find(table[t], k) # NoSlot
    /\ Become(t, Erase(table[t], Find(table[t], k)))

ReserveFor(t, count) ==
    /\ Usable(t)
    /\ \/ CanReserve(count) /\ Become(t, Reserve(table[t], count))
       \/ ~CanReserve(count) /\ Fail

ClearAll(t) == Usable(t) /\ Become(t, Clear(table[t]))

\* The destructor's free_resources, and a new object in its place.
Rebuild(t) == Usable(t) /\ Become(t, Fresh(0))

\* insert(u.begin(), u.end())
InsertFrom(t, u) ==
    LET count == Size(table[t]) + Size(table[u])
    IN  /\ Usable(t) /\ t # u
        /\ \/ /\ CanReserve(count)
              /\ Become(t, InsertRange(table[t], table[u]))
           \/ ~CanReserve(count) /\ Fail

\* operator=(const&) and, from a table just built, the copy constructor.
\* A copy needs no more slots than its source has.
CopyFrom(t, u) ==
    /\ Usable(t) /\ t # u
    /\ Become(t, InsertRange(Clear(table[t]), table[u]))

\* Mutant: the two tables trade their members.
MoveSwaps(t, u) ==
    /\ Usable(t) /\ cursor[u] = NoSlot /\ t # u
    /\ table' = [table EXCEPT ![t] = table[u], ![u] = table[t]]
    /\ UNCHANGED <<cursor, visited, failed>>

\* operator=(&&) and the move constructor (heap tables only): the members of
\* u go to t, u is left without resources.
MoveFrom(t, u) ==
    /\ Usable(t) /\ cursor[u] = NoSlot /\ t # u
    /\ table' = [table EXCEPT ![t] = table[u], ![u] = Fresh(0)]
    /\ UNCHANGED <<cursor, visited, failed>>

\* A caller's loop: for (it = begin(); it != end();) it = keep ? ++it : erase(it)
SweepBegin(t) ==
    /\ Usable(t)
    /\ Size(table[t]) > 0
    /\ cursor' = [cursor EXCEPT ![t] = Seek(table[t], 0)]
    /\ visited' = [visited EXCEPT ![t] = {}]
    /\ UNCHANGED <<table, failed>>

\* Mutant: do_erase returns the slot it has just refilled.
SweepEraseStays(t) ==
    /\ ~failed /\ cursor[t] # NoSlot
    /\ table' = [table EXCEPT ![t] = Erase(@, cursor[t])]
    /\ visited' = [visited EXCEPT ![t] = @ \cup {table[t].slots[cursor[t]].key}]
    /\ cursor' = [cursor EXCEPT ![t] = Seek(table'[t], @)]
    /\ UNCHANGED failed

\* do_erase returns an iterator to the slot after the erased one.
SweepErase(t) ==
    /\ ~failed /\ cursor[t] # NoSlot
    /\ table' = [table EXCEPT ![t] = Erase(@, cursor[t])]
    /\ visited' = [visited EXCEPT ![t] = @ \cup {table[t].slots[cursor[t]].key}]
    /\ cursor' = [cursor EXCEPT ![t] = Seek(table'[t], @ + 1)]
    /\ UNCHANGED failed

SweepKeep(t) ==
    /\ ~failed /\ cursor[t] # NoSlot
    /\ visited' = [visited EXCEPT ![t] = @ \cup {table[t].slots[cursor[t]].key}]
    /\ cursor' = [cursor EXCEPT ![t] = Seek(table[t], @ + 1)]
    /\ UNCHANGED <<table, failed>>

Next ==
    \/ \E t \in Tables :
        \/ ClearAll(t) \/ Rebuild(t)
        \/ SweepBegin(t) \/ SweepErase(t) \/ SweepKeep(t)
        \/ \E k \in Keys : InsertKey(t, k) \/ EraseKey(t, k)
        \/ \E count \in 1..(MaxCapacity + 1) : ReserveFor(t, count)
    \/ \E t, u \in Tables : InsertFrom(t, u) \/ CopyFrom(t, u) \/ MoveFrom(t, u)

Spec == Init /\ [][Next]_vars

-----------------------------------------------------------------------------
\* Types; in particular the free slots are never more than the slots, and no
\* next pointer leaves the array.
TypeOK ==
    /\ \A t \in Tables :
        LET tbl == table[t]
        IN  /\ tbl.capacity \in 0..MaxCapacity
            /\ tbl.free \in 0..tbl.capacity
            /\ tbl.good \in 0..tbl.capacity
            /\ DOMAIN tbl.slots = Slots(tbl)
            /\ \A i \in Taken(tbl) :
                   /\ tbl.slots[i].key \in Keys
                   /\ tbl.slots[i].next \in Slots(tbl) \cup {Sentinel}
    /\ cursor \in [Tables -> Nat \cup {NoSlot}]
    /\ visited \in [Tables -> SUBSET Keys]
    /\ failed \in BOOLEAN

\* Every entry can be reached from the home slot of its key, every chain holds
\* the entries of one home slot only, and no chain is shared or circular (no
\* entry has two predecessors, a chain's head has none): do_find and the two
\* walks to a predecessor (do_erase, do_insert) end, and at the right entry.
ChainsHome ==
    \A t \in Tables :
        LET tbl == table[t]
            linked == {i \in Taken(tbl) : tbl.slots[i].next # Sentinel}
        IN  /\ \A i \in Taken(tbl) : i \in Chain(tbl, Home(tbl, tbl.slots[i].key))
            /\ \A i \in linked :
                   LET n == tbl.slots[i].next
                       home == Home(tbl, tbl.slots[i].key)
                   IN  /\ n \in Taken(tbl) \ {home}
                       /\ Home(tbl, tbl.slots[n].key) = home
                       /\ \A j \in linked : tbl.slots[j].next = n => j = i

\* _free is the number of vacant slots, so get_free_entry's search ends
\* whenever do_insert starts it, and _capacity is a power of two, so the
\* quick modulo is one.
FreeExact ==
    /\ TypeOK
    /\ \A t \in Tables :
        LET tbl == table[t]
        IN  /\ tbl.free = Cardinality(Slots(tbl) \ Taken(tbl))
            /\ tbl.capacity \in PowersOfTwo \cup {0}
            /\ tbl.capacity > 0 => tbl.good < tbl.capacity

\* An erase loop never comes to an element it has been at already, although
\* erasing moves elements between slots while the loop runs.
SweepNeverRevisits ==
    \A t \in Tables :
        cursor[t] # NoSlot =>
            /\ cursor[t] \in Taken(table[t])
            /\ table[t].slots[cursor[t]].key \notin visited[t]

\* What do_find finds is a set of keys that changes as the calls say: no
\* insertion, eviction, erasure or rehash loses another key.
Sets == INSTANCE KeySets WITH contents <- [t \in Tables |-> Found(table[t])]

ImplementsSets == Sets!SetSpec
=============================================================================
