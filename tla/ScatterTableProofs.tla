------------------------- MODULE ScatterTableProofs -------------------------
(***************************************************************************)
(* Proofs about ScatterTable, for every set of tables and of keys, every   *)
(* hash function and every size of the array.                              *)
(***************************************************************************)
EXTENDS ScatterTable, FiniteSetTheorems, WellFoundedInduction, TLAPS

\* Sets of numbers have a least member, which is what Min returns.
Below == {ss \in Nat \X Nat : ss[1] < ss[2]}

LEMMA MinFacts ==
  ASSUME NEW S, S \subseteq Nat, S # {}
  PROVE  Min(S) \in S /\ \A y \in S : Min(S) <= y
<1>1. Below = OpToRel(<, Nat)
  BY DEF OpToRel, Below
<1>2. PICK x \in S : \A y \in S : <<y, x>> \notin Below
  BY <1>1, WFMin, NatLessThanWellFounded
<1>3. ASSUME NEW y \in S PROVE x <= y
  <2>1. x \in Nat /\ y \in Nat
    OBVIOUS
  <2>2. ~(y < x)
    BY <1>2, <2>1 DEF Below
  <2> QED
    BY <2>1, <2>2
<1> QED
  BY <1>3 DEF Min

-----------------------------------------------------------------------------
(***************************************************************************)
(* What is true of every table: its members fit each other (IsTable), no   *)
(* key is in it twice, the links are chains, every entry is on the chain   *)
(* of its home slot.                                                       *)
(***************************************************************************)
SlotValue(c) == [key : Keys, next : 0..(c - 1) \cup {Sentinel}] \cup {Vacant}

IsTable(tbl) ==
    /\ tbl = [capacity |-> tbl.capacity, free |-> tbl.free, good |-> tbl.good,
              slots |-> tbl.slots]
    /\ tbl.capacity \in Capacities \cup {0}
    /\ tbl.slots \in [Slots(tbl) -> SlotValue(tbl.capacity)]
    /\ tbl.free = Cardinality(Slots(tbl) \ Taken(tbl))
    /\ tbl.good \in 0..tbl.capacity
    /\ tbl.capacity > 0 => tbl.good < tbl.capacity

KeysOnce(tbl) ==
    \A i, j \in Taken(tbl) : tbl.slots[i].key = tbl.slots[j].key => i = j

Follows(tbl, i, n) == i \in Taken(tbl) /\ tbl.slots[i].next = n /\ n # Sentinel

LinksAgree(tbl) ==
    \A i, n \in Slots(tbl) : Follows(tbl, i, n) =>
        /\ n \in Taken(tbl)
        /\ n # Home(tbl, tbl.slots[i].key)
        /\ Home(tbl, tbl.slots[n].key) = Home(tbl, tbl.slots[i].key)
        /\ \A j \in Slots(tbl) : Follows(tbl, j, n) => j = i

AtHome(tbl) == \A i \in Taken(tbl) : i \in Chain(tbl, Home(tbl, tbl.slots[i].key))

Good(tbl) == IsTable(tbl) /\ KeysOnce(tbl) /\ LinksAgree(tbl) /\ AtHome(tbl)

\* The keys of the entries.
Held(tbl) == {tbl.slots[i].key : i \in Taken(tbl)}

LEMMA CapacityFacts ==
  ASSUME NEW c \in Capacities
  PROVE  c \in Nat \ {0} /\ c \in PowersOfTwo /\ c <= MaxCapacity
<1>1. \A p \in PowersOfTwo : p \in Nat \ {0}
  BY DEF PowersOfTwo
<1> QED
  BY <1>1 DEF Capacities

LEMMA HomeInSlots ==
  ASSUME NEW tbl, NEW k \in Keys, tbl.capacity \in Nat \ {0}
  PROVE  Home(tbl, k) \in Slots(tbl)
<1>1. \A h \in Nat, c \in Nat \ {0} : h % c \in 0..(c - 1)
  OBVIOUS
<1> QED
  BY <1>1, ScatterTableAssumption DEF Home, Slots

\* A table's slots, its taken ones, and what is in them.
LEMMA TableFacts ==
  ASSUME NEW tbl, IsTable(tbl)
  PROVE  /\ tbl.capacity \in Nat
         /\ Slots(tbl) \subseteq Nat
         /\ IsFiniteSet(Slots(tbl)) /\ Cardinality(Slots(tbl)) = tbl.capacity
         /\ Taken(tbl) \subseteq Slots(tbl)
         /\ Taken(tbl) # {} => tbl.capacity \in Nat \ {0}
         /\ \A i \in Taken(tbl) : /\ tbl.slots[i] = Entry(tbl.slots[i].key, tbl.slots[i].next)
                                  /\ tbl.slots[i].key \in Keys
                                  /\ tbl.slots[i].next \in Slots(tbl) \cup {Sentinel}
                                  /\ Home(tbl, tbl.slots[i].key) \in Slots(tbl)
<1>1. tbl.capacity \in Nat
  BY CapacityFacts DEF IsTable
<1>2. Slots(tbl) \subseteq Nat /\ Taken(tbl) \subseteq Slots(tbl)
  BY <1>1 DEF Slots, Taken
<1>3. IsFiniteSet(Slots(tbl)) /\ Cardinality(Slots(tbl)) = tbl.capacity
  BY <1>1, FS_Interval DEF Slots
<1>4. Taken(tbl) # {} => tbl.capacity \in Nat \ {0}
  BY <1>1, <1>2 DEF Slots
<1>5. ASSUME NEW i \in Taken(tbl)
      PROVE  /\ tbl.slots[i] = Entry(tbl.slots[i].key, tbl.slots[i].next)
             /\ tbl.slots[i].key \in Keys
             /\ tbl.slots[i].next \in Slots(tbl) \cup {Sentinel}
  BY <1>5 DEF Taken, IsTable, SlotValue, Entry, Slots
<1>6. ASSUME NEW i \in Taken(tbl) PROVE Home(tbl, tbl.slots[i].key) \in Slots(tbl)
  BY <1>4, <1>5, HomeInSlots
<1> QED
  BY <1>1, <1>2, <1>3, <1>4, <1>5, <1>6

-----------------------------------------------------------------------------
(***************************************************************************)
(* Chains.                                                                 *)
(***************************************************************************)
\* A closed set with the head holds the chain.
LEMMA ChainWithin ==
  ASSUME NEW tbl, NEW h, NEW S, S \subseteq Slots(tbl), h \in S, Closed(tbl, S)
  PROVE  Chain(tbl, h) \subseteq S
BY DEF Chain

\* A chain holds its head and is closed itself.
LEMMA ChainClosed ==
  ASSUME NEW tbl, IsTable(tbl), NEW h \in Slots(tbl)
  PROVE  h \in Chain(tbl, h) /\ Closed(tbl, Chain(tbl, h)) /\ Chain(tbl, h) \subseteq Slots(tbl)
<1>1. h \in Chain(tbl, h) /\ Chain(tbl, h) \subseteq Slots(tbl)
  BY DEF Chain
<1>2. ASSUME NEW i \in Chain(tbl, h) \cap Taken(tbl), tbl.slots[i].next # Sentinel
      PROVE  tbl.slots[i].next \in Chain(tbl, h)
  <2>1. tbl.slots[i].next \in Slots(tbl)
    BY <1>2, TableFacts
  <2> QED
    BY <1>2, <2>1 DEF Chain, Closed
<1> QED
  BY <1>1, <1>2 DEF Closed

\* The entries of a chain have one home: the slot they are found from, or the
\* home of the entry that sits there.
LEMMA ChainOfOneHome ==
  ASSUME NEW tbl, IsTable(tbl), LinksAgree(tbl), NEW h \in Taken(tbl), NEW i \in Chain(tbl, h)
  PROVE  i \in Taken(tbl) /\ Home(tbl, tbl.slots[i].key) = Home(tbl, tbl.slots[h].key)
<1> DEFINE S == {j \in Taken(tbl) : Home(tbl, tbl.slots[j].key) = Home(tbl, tbl.slots[h].key)}
<1>1. Closed(tbl, S)
  <2>1. ASSUME NEW j \in S, tbl.slots[j].next # Sentinel PROVE tbl.slots[j].next \in S
    <3>1. tbl.slots[j].next \in Slots(tbl) /\ j \in Slots(tbl)
      BY <2>1, TableFacts
    <3> QED
      BY <2>1, <3>1 DEF LinksAgree, Follows
  <2> QED
    BY <2>1 DEF Closed
<1>2. h \in S /\ S \subseteq Slots(tbl)
  BY TableFacts
<1>3. Chain(tbl, h) \subseteq S
  BY <1>1, <1>2, ChainWithin
<1> QED
  BY <1>3

\* An entry's home slot is taken, by an entry of the same home.
LEMMA HeadTaken ==
  ASSUME NEW tbl, Good(tbl), NEW i \in Taken(tbl)
  PROVE  LET h == Home(tbl, tbl.slots[i].key)
         IN  h \in Taken(tbl) /\ Home(tbl, tbl.slots[h].key) = h
<1> DEFINE h == Home(tbl, tbl.slots[i].key)
<1>1. h \in Slots(tbl) /\ i \in Chain(tbl, h)
  BY TableFacts DEF Good, AtHome
<1>2. h \in Taken(tbl)
  <2> SUFFICES ASSUME h \notin Taken(tbl) PROVE FALSE
    OBVIOUS
  <2>1. Closed(tbl, {h})
    BY DEF Closed
  <2>2. Chain(tbl, h) \subseteq {h}
    BY <1>1, <2>1, ChainWithin
  <2> QED
    BY <1>1, <2>2
<1>3. Home(tbl, tbl.slots[h].key) = h
  BY <1>1, <1>2, ChainOfOneHome DEF Good
<1> QED
  BY <1>2, <1>3

\* The walk to the predecessor of an entry that is not at home ends, at the one
\* entry whose next it is.
LEMMA BeforeFacts ==
  ASSUME NEW tbl, Good(tbl), NEW e \in Taken(tbl), NEW h, h = Home(tbl, tbl.slots[e].key), h # e
  PROVE  LET p == Before(tbl, h, e)
         IN  /\ p \in Taken(tbl) \ {e} /\ tbl.slots[p].next = e
             /\ \A j \in Taken(tbl) : tbl.slots[j].next = e => j = p
<1>1. e \in Slots(tbl) /\ e # Sentinel /\ h \in Slots(tbl) /\ e \in Chain(tbl, h)
  BY TableFacts, ScatterTableAssumption DEF Good, AtHome
<1>2. PICK i \in (Chain(tbl, h) \ {e}) \cap Taken(tbl) : tbl.slots[i].next = e
  <2> DEFINE S == Chain(tbl, h) \ {e}
  <2>1. ~Closed(tbl, S)
    <3>1. h \in S /\ S \subseteq Slots(tbl)
      BY <1>1, ChainClosed DEF Good
    <3> QED
      BY <1>1, <3>1, ChainWithin
  <2>2. \A i \in S \cap Taken(tbl) : tbl.slots[i].next \in Chain(tbl, h) \cup {Sentinel}
    BY <1>1, ChainClosed DEF Good, Closed
  <2> QED
    BY <2>1, <2>2 DEF Closed
<1>3. \A j \in Taken(tbl) : tbl.slots[j].next = e => j = i
  <2>1. \A j \in Taken(tbl) : j \in Slots(tbl)
    BY TableFacts DEF Good
  <2> QED
    BY <1>1, <1>2, <2>1 DEF Good, LinksAgree, Follows
<1>4. Before(tbl, h, e) = i
  BY <1>2, <1>3 DEF Before
<1> QED
  BY <1>2, <1>3, <1>4

-----------------------------------------------------------------------------
(***************************************************************************)
(* The searches: do_find and get_free_entry.                               *)
(***************************************************************************)
LEMMA SizeFacts ==
  ASSUME NEW tbl, IsTable(tbl)
  PROVE  /\ IsFiniteSet(Taken(tbl)) /\ Cardinality(Taken(tbl)) \in Nat
         /\ Size(tbl) = Cardinality(Taken(tbl))
         /\ tbl.free \in 0..tbl.capacity
         /\ tbl.free > 0 => Slots(tbl) \ Taken(tbl) # {}
<1>1. /\ IsFiniteSet(Slots(tbl)) /\ Cardinality(Slots(tbl)) = tbl.capacity
      /\ Taken(tbl) \subseteq Slots(tbl) /\ tbl.capacity \in Nat
  BY TableFacts
<1> DEFINE vacant == Slots(tbl) \ Taken(tbl)
<1>2. IsFiniteSet(Taken(tbl)) /\ Cardinality(Taken(tbl)) \in Nat
  BY <1>1, FS_Subset, FS_CardinalityType
<1>3. IsFiniteSet(vacant) /\ Cardinality(vacant) \in Nat
  BY <1>1, FS_Subset, FS_CardinalityType
<1>4. Cardinality(vacant) = tbl.capacity - Cardinality(Taken(tbl))
  <2>1. Cardinality(vacant) = Cardinality(Slots(tbl)) - Cardinality(Slots(tbl) \cap Taken(tbl))
    BY <1>1, FS_Difference
  <2>2. Slots(tbl) \cap Taken(tbl) = Taken(tbl)
    BY <1>1
  <2> QED
    BY <1>1, <2>1, <2>2
<1>5. tbl.free = Cardinality(vacant)
  BY DEF IsTable
<1>6. Cardinality({}) = 0
  BY FS_EmptySet
<1>7. vacant = {} => Cardinality(vacant) = 0
  BY <1>6
<1> HIDE DEF vacant
<1>8. Size(tbl) = Cardinality(Taken(tbl)) /\ tbl.free \in 0..tbl.capacity
  BY <1>1, <1>2, <1>3, <1>4, <1>5 DEF Size
<1>9. tbl.free > 0 => vacant # {}
  BY <1>5, <1>7
<1> QED
  BY <1>2, <1>8, <1>9 DEF vacant

\* do_find comes to the entry of a key that is in the table.
LEMMA FindHit ==
  ASSUME NEW tbl, Good(tbl), NEW i \in Taken(tbl)
  PROVE  Find(tbl, tbl.slots[i].key) = i
<1> DEFINE k == tbl.slots[i].key
           hits == {j \in Chain(tbl, Home(tbl, k)) \cap Taken(tbl) : tbl.slots[j].key = k}
<1>1. Size(tbl) # 0
  <2>1. IsFiniteSet(Taken(tbl)) /\ Size(tbl) = Cardinality(Taken(tbl))
    BY SizeFacts DEF Good
  <2> QED
    BY <2>1, FS_EmptySet
<1>2. hits = {i}
  BY DEF Good, AtHome, KeysOnce
<1>3. Find(tbl, k) = CHOOSE j \in hits : TRUE
  BY <1>1, <1>2 DEF Find
<1> QED
  BY <1>2, <1>3

\* do_find finds nothing else.
LEMMA FindMiss ==
  ASSUME NEW tbl, NEW k, k \notin Held(tbl)
  PROVE  Find(tbl, k) = NoSlot
<1>1. ~\E j \in Taken(tbl) : tbl.slots[j].key = k
  BY DEF Held
<1> DEFINE hits == IF Size(tbl) = 0 THEN {}
                   ELSE {j \in Chain(tbl, Home(tbl, k)) \cap Taken(tbl) : tbl.slots[j].key = k}
<1>2. hits = {}
  BY <1>1
<1> QED
  BY <1>2 DEF Find

LEMMA FindFacts ==
  ASSUME NEW tbl, Good(tbl), NEW k \in Keys
  PROVE  /\ Find(tbl, k) # NoSlot <=> k \in Held(tbl)
         /\ Find(tbl, k) # NoSlot => /\ Find(tbl, k) \in Taken(tbl)
                                     /\ tbl.slots[Find(tbl, k)].key = k
<1>1. CASE k \in Held(tbl)
  <2>1. PICK i \in Taken(tbl) : tbl.slots[i].key = k
    BY <1>1 DEF Held
  <2>2. Find(tbl, k) = i
    BY <2>1, FindHit
  <2>3. i # NoSlot
    BY TableFacts, ScatterTableAssumption DEF Good
  <2> QED
    BY <1>1, <2>1, <2>2, <2>3
<1>2. CASE k \notin Held(tbl)
  BY <1>2, FindMiss
<1> QED
  BY <1>1, <1>2

LEMMA FoundIsHeld ==
  ASSUME NEW tbl, Good(tbl)
  PROVE  Found(tbl) = Held(tbl)
<1>1. Held(tbl) \subseteq Keys
  BY TableFacts DEF Good, Held
<1> QED
  BY <1>1, FindFacts DEF Found

\* get_free_entry's search, wrapping around the array, ends at a vacant slot.
LEMMA FreeSlotFacts ==
  ASSUME NEW tbl, Good(tbl), tbl.free > 0
  PROVE  FreeSlot(tbl) \in Slots(tbl) \ Taken(tbl)
<1> DEFINE c == tbl.capacity
           at(n) == (tbl.good + n) % c
           free == {n \in Slots(tbl) : tbl.slots[at(n)] = Vacant}
<1>1. c \in Nat /\ IsTable(tbl)
  BY TableFacts DEF Good
<1>2. PICK v \in Slots(tbl) : v \notin Taken(tbl)
  BY <1>1, SizeFacts
<1>3. c \in Nat \ {0} /\ v \in 0..(c - 1) /\ tbl.good \in 0..(c - 1)
  BY <1>1, <1>2 DEF Slots, IsTable
<1>4. \E n \in Slots(tbl) : at(n) = v
  <2>1. \A d \in Nat \ {0} : \A w \in 0..(d - 1) : w % d = w /\ (w + d) % d = w
    OBVIOUS
  <2>2. CASE tbl.good <= v
    <3>1. v - tbl.good \in 0..(c - 1) /\ tbl.good + (v - tbl.good) = v
      BY <1>3, <2>2
    <3> QED
      BY <1>3, <2>1, <3>1 DEF Slots
  <2>3. CASE tbl.good > v
    <3>1. v + c - tbl.good \in 0..(c - 1) /\ tbl.good + (v + c - tbl.good) = v + c
      BY <1>3, <2>3
    <3> QED
      BY <1>3, <2>1, <3>1 DEF Slots
  <2> QED
    BY <1>3, <2>2, <2>3
<1>5. free # {} /\ free \subseteq Nat
  BY <1>1, <1>2, <1>4, TableFacts DEF Taken
<1>6. Min(free) \in free
  BY <1>5, MinFacts
<1>7. FreeSlot(tbl) = at(Min(free))
  BY DEF FreeSlot
<1>8. \A n \in Nat : at(n) \in Slots(tbl)
  <2>1. \A m \in Nat : \A d \in Nat \ {0} : m % d \in 0..(d - 1)
    OBVIOUS
  <2>2. \A n \in Nat : tbl.good + n \in Nat
    BY <1>3
  <2> QED
    BY <1>3, <2>1, <2>2 DEF Slots
<1>9. Min(free) \in Nat
  BY <1>5, <1>6
<1> HIDE DEF free, at
<1>10. tbl.slots[at(Min(free))] = Vacant
  BY <1>6 DEF free
<1> QED
  BY <1>7, <1>8, <1>9, <1>10 DEF Taken

-----------------------------------------------------------------------------
(***************************************************************************)
(* do_insert.  One vacant slot f is taken, nothing else is vacated.        *)
(***************************************************************************)
LEMMA TableExcept ==
  ASSUME NEW x, IsTable(x), NEW s, NEW f, NEW g
  PROVE  /\ [x EXCEPT !.slots = s, !.free = f]
              = [capacity |-> x.capacity, free |-> f, good |-> x.good, slots |-> s]
         /\ [x EXCEPT !.slots = s, !.good = g, !.free = f]
              = [capacity |-> x.capacity, free |-> f, good |-> g, slots |-> s]
         /\ [x EXCEPT !.free = f, !.slots = s]
              = [capacity |-> x.capacity, free |-> f, good |-> x.good, slots |-> s]
<1>1. DOMAIN x = {"capacity", "free", "good", "slots"}
  BY DEF IsTable
<1>2. [x EXCEPT !.slots = s, !.good = g, !.free = f]
        = [i \in DOMAIN x |-> IF i = "free" THEN f ELSE IF i = "good" THEN g
                              ELSE IF i = "slots" THEN s ELSE x[i]]
  OBVIOUS
<1>3. [x EXCEPT !.slots = s, !.free = f]
        = [i \in DOMAIN x |-> IF i = "free" THEN f ELSE IF i = "slots" THEN s ELSE x[i]]
  OBVIOUS
<1>4. [x EXCEPT !.free = f, !.slots = s]
        = [i \in DOMAIN x |-> IF i = "free" THEN f ELSE IF i = "slots" THEN s ELSE x[i]]
  OBVIOUS
<1>5. [i \in DOMAIN x |-> IF i = "free" THEN f ELSE IF i = "good" THEN g
                          ELSE IF i = "slots" THEN s ELSE x[i]]
        = [capacity |-> x.capacity, free |-> f, good |-> g, slots |-> s]
  BY <1>1
<1>6. [i \in DOMAIN x |-> IF i = "free" THEN f ELSE IF i = "slots" THEN s ELSE x[i]]
        = [capacity |-> x.capacity, free |-> f, good |-> x.good, slots |-> s]
  BY <1>1
<1> QED
  BY <1>2, <1>3, <1>4, <1>5, <1>6

LEMMA OneMoreTaken ==
  ASSUME NEW tbl, IsTable(tbl), NEW new, NEW f \in Slots(tbl) \ Taken(tbl),
         NEW g \in Slots(tbl), NEW s \in [Slots(tbl) -> SlotValue(tbl.capacity)],
         new = [capacity |-> tbl.capacity, free |-> tbl.free - 1, good |-> g, slots |-> s],
         \A i \in Slots(tbl) : s[i] # Vacant <=> i \in Taken(tbl) \cup {f}
  PROVE  IsTable(new) /\ Slots(new) = Slots(tbl) /\ Taken(new) = Taken(tbl) \cup {f}
<1>1. /\ new.capacity = tbl.capacity /\ new.free = tbl.free - 1
      /\ new.good = g /\ new.slots = s
  OBVIOUS
<1>2. Slots(new) = Slots(tbl)
  BY <1>1 DEF Slots
<1>3. Taken(new) = Taken(tbl) \cup {f}
  BY <1>1, <1>2, TableFacts DEF Taken
<1> DEFINE vacant == Slots(tbl) \ Taken(tbl)
<1>4. new.free = Cardinality(Slots(new) \ Taken(new))
  <2>1. IsFiniteSet(vacant)
    BY TableFacts, FS_Subset
  <2>2. Cardinality(vacant \ {f}) = Cardinality(vacant) - 1
    BY <2>1, FS_RemoveElement
  <2>3. Slots(new) \ Taken(new) = vacant \ {f}
    BY <1>2, <1>3
  <2> QED
    BY <1>1, <2>2, <2>3 DEF IsTable
<1>5. g \in 0..tbl.capacity /\ g < tbl.capacity
  BY TableFacts DEF Slots
<1> QED
  BY <1>1, <1>2, <1>3, <1>4, <1>5 DEF IsTable

\* What an insertion makes of a table.
Added(tbl, new, k) ==
    /\ Good(new)
    /\ new.capacity = tbl.capacity /\ new.free = tbl.free - 1
    /\ Held(new) = Held(tbl) \cup {k}

\* The home slot is vacant: nobody's chain passes it.
LEMMA PlaceAtHomeAdds ==
  ASSUME NEW tbl, Good(tbl), NEW k \in Keys, k \notin Held(tbl),
         tbl.capacity > 0, tbl.slots[Home(tbl, k)] = Vacant
  PROVE  Added(tbl, PlaceAtHome(tbl, k), k)
<1> DEFINE e == Home(tbl, k)
           s == [tbl.slots EXCEPT ![e] = Entry(k, Sentinel)]
           new == PlaceAtHome(tbl, k)
<1>1. IsTable(tbl) /\ KeysOnce(tbl) /\ LinksAgree(tbl) /\ AtHome(tbl)
  BY DEF Good
<1>2. tbl.capacity \in Nat \ {0} /\ e \in Slots(tbl) \ Taken(tbl)
  BY <1>1, TableFacts, HomeInSlots DEF Taken
<1>3. new = [capacity |-> tbl.capacity, free |-> tbl.free - 1, good |-> tbl.good, slots |-> s]
  <2>1. new = [tbl EXCEPT !.slots = s, !.free = tbl.free - 1]
    BY DEF PlaceAtHome
  <2> HIDE DEF s, new
  <2> QED
    BY <1>1, <2>1, TableExcept
<1>4. /\ s \in [Slots(tbl) -> SlotValue(tbl.capacity)]
      /\ s[e] = Entry(k, Sentinel)
      /\ \A i \in Slots(tbl) \ {e} : s[i] = tbl.slots[i]
  BY <1>1, <1>2 DEF IsTable, SlotValue, Entry
<1>5. Entry(k, Sentinel) # Vacant /\ Entry(k, Sentinel).key = k /\ Entry(k, Sentinel).next = Sentinel
  BY ScatterTableAssumption DEF Entry
<1>6. tbl.good \in Slots(tbl)
  BY <1>1, <1>2 DEF IsTable, Slots
<1>7. \A i \in Slots(tbl) : s[i] # Vacant <=> i \in Taken(tbl) \cup {e}
  BY <1>2, <1>4, <1>5 DEF Taken
<1> HIDE DEF e, s, new
<1>8. IsTable(new) /\ Slots(new) = Slots(tbl) /\ Taken(new) = Taken(tbl) \cup {e}
  BY <1>1, <1>2, <1>3, <1>4, <1>6, <1>7, OneMoreTaken
<1>9. new.capacity = tbl.capacity /\ new.free = tbl.free - 1 /\ new.slots = s
  BY <1>3
<1>10. \A j \in Keys : Home(new, j) = Home(tbl, j)
  BY <1>9 DEF Home
<1>11. /\ new.slots[e].key = k /\ new.slots[e].next = Sentinel
       /\ \A i \in Taken(tbl) : new.slots[i] = tbl.slots[i]
  BY <1>1, <1>2, <1>4, <1>5, <1>9, TableFacts
<1>12. Held(new) = Held(tbl) \cup {k}
  BY <1>2, <1>8, <1>11 DEF Held
<1>13. KeysOnce(new)
  BY <1>1, <1>8, <1>11 DEF KeysOnce, Held
<1>14. LinksAgree(new)
  BY <1>1, <1>2, <1>8, <1>10, <1>11, TableFacts DEF LinksAgree, Follows
<1>15. AtHome(new)
  <2>1. ASSUME NEW i \in Taken(tbl), NEW S \in SUBSET Slots(new),
               Home(tbl, tbl.slots[i].key) \in S, Closed(new, S)
        PROVE  i \in S
    <3>1. Closed(tbl, S)
      BY <1>8, <1>11, <2>1 DEF Closed
    <3> QED
      BY <1>1, <1>8, <2>1, <3>1 DEF AtHome, Chain
  <2>2. \A i \in Taken(tbl) : i \in Chain(new, Home(new, new.slots[i].key))
    <3> TAKE i \in Taken(tbl)
    <3>1. Home(new, new.slots[i].key) = Home(tbl, tbl.slots[i].key) /\ i \in Slots(new)
      BY <1>1, <1>8, <1>10, <1>11, TableFacts
    <3> QED
      BY <2>1, <3>1 DEF Chain
  <2>3. e \in Chain(new, Home(new, new.slots[e].key))
    BY <1>2, <1>8, <1>10, <1>11 DEF Chain, e
  <2> QED
    BY <1>8, <2>2, <2>3 DEF AtHome
<1> QED
  BY <1>8, <1>9, <1>12, <1>13, <1>14, <1>15 DEF Added, Good, new

\* The occupant of the home slot e is at home: the new entry, in slot f, becomes
\* the second of the chain.
LEMMA SpliceBehindAdds ==
  ASSUME NEW tbl, Good(tbl), NEW k \in Keys, k \notin Held(tbl), tbl.free > 0,
         NEW e, e = Home(tbl, k), e \in Taken(tbl), Home(tbl, tbl.slots[e].key) = e
  PROVE  Added(tbl, SpliceBehind(tbl, k), k)
<1> DEFINE f == FreeSlot(tbl)
           m == tbl.slots[e].next
           s == [tbl.slots EXCEPT ![f] = Entry(k, m), ![e].next = f]
           new == SpliceBehind(tbl, k)
<1>1. IsTable(tbl) /\ KeysOnce(tbl) /\ LinksAgree(tbl) /\ AtHome(tbl)
  BY DEF Good
<1>2. /\ tbl.capacity \in Nat \ {0} /\ e \in Slots(tbl) /\ e # f
      /\ f \in Slots(tbl) \ Taken(tbl) /\ f \in Nat /\ f # Sentinel
  BY <1>1, TableFacts, FreeSlotFacts, ScatterTableAssumption
<1>3. new = [capacity |-> tbl.capacity, free |-> tbl.free - 1, good |-> f, slots |-> s]
  <2>1. new = [tbl EXCEPT !.slots = s, !.good = f, !.free = tbl.free - 1]
    <3>1. new = [tbl EXCEPT !.slots[f] = Entry(k, m), !.slots[e].next = f,
                            !.good = f, !.free = @ - 1]
      BY DEF SpliceBehind
    <3> DEFINE u == Entry(k, m)
    <3> HIDE DEF f, u, m, new
    <3>2. [tbl EXCEPT !.slots[f] = u, !.slots[e].next = f, !.good = f, !.free = @ - 1]
            = [tbl EXCEPT !.slots = [tbl.slots EXCEPT ![f] = u, ![e].next = f],
                          !.good = f, !.free = tbl.free - 1]
      <4>1. tbl = [capacity |-> tbl.capacity, free |-> tbl.free, good |-> tbl.good,
                   slots |-> tbl.slots]
        BY <1>1 DEF IsTable
      <4> QED
        BY <4>1
    <3> QED
      BY <3>1, <3>2 DEF u
  <2> HIDE DEF s, f, new
  <2> QED
    BY <1>1, <2>1, TableExcept
<1>4. /\ tbl.slots[e] = Entry(tbl.slots[e].key, m) /\ tbl.slots[e].key \in Keys
      /\ m \in Slots(tbl) \cup {Sentinel}
  BY <1>1, TableFacts
<1>5. /\ s \in [Slots(tbl) -> SlotValue(tbl.capacity)]
      /\ s[f] = Entry(k, m) /\ s[e] = Entry(tbl.slots[e].key, f)
      /\ \A i \in Slots(tbl) \ {e, f} : s[i] = tbl.slots[i]
  <2> HIDE DEF f, m
  <2>1. /\ Entry(k, m) \in SlotValue(tbl.capacity)
        /\ Entry(tbl.slots[e].key, f) \in SlotValue(tbl.capacity)
    BY <1>2, <1>4 DEF SlotValue, Entry, Slots
  <2>2. s = [tbl.slots EXCEPT ![f] = Entry(k, m), ![e] = Entry(tbl.slots[e].key, f)]
    <3>1. [Entry(tbl.slots[e].key, m) EXCEPT !.next = f] = Entry(tbl.slots[e].key, f)
      BY DEF Entry
    <3>2. s = [tbl.slots EXCEPT ![f] = Entry(k, m), ![e] = [tbl.slots[e] EXCEPT !.next = f]]
      BY <1>1, <1>2 DEF IsTable
    <3> QED
      BY <1>4, <3>1, <3>2
  <2> QED
    BY <1>1, <1>2, <2>1, <2>2 DEF IsTable
<1>6. \A j \in Keys : \A n : /\ Entry(j, n).key = j /\ Entry(j, n).next = n
                             /\ n \in Nat \cup {Sentinel} => Entry(j, n) # Vacant
  BY ScatterTableAssumption DEF Entry
<1>7. \A i \in Slots(tbl) : s[i] # Vacant <=> i \in Taken(tbl) \cup {f}
  <2>1. m \in Nat \cup {Sentinel}
    BY <1>1, <1>4, TableFacts
  <2>2. s[f] # Vacant /\ s[e] # Vacant
    BY <1>2, <1>4, <1>5, <1>6, <2>1
  <2> HIDE DEF f, s
  <2> QED
    BY <1>2, <1>5, <2>2 DEF Taken
<1> HIDE DEF f, m, s, new
<1>8. IsTable(new) /\ Slots(new) = Slots(tbl) /\ Taken(new) = Taken(tbl) \cup {f}
  BY <1>1, <1>2, <1>3, <1>5, <1>7, OneMoreTaken
<1>9. new.capacity = tbl.capacity /\ new.free = tbl.free - 1 /\ new.slots = s
  BY <1>3
<1>10. \A j \in Keys : Home(new, j) = Home(tbl, j)
  BY <1>9 DEF Home
<1>11. /\ new.slots[f].key = k /\ new.slots[f].next = m
       /\ new.slots[e].key = tbl.slots[e].key /\ new.slots[e].next = f
       /\ \A i \in Taken(tbl) \ {e} : new.slots[i] = tbl.slots[i]
  BY <1>1, <1>2, <1>4, <1>5, <1>6, <1>9, TableFacts
<1>12. \A i \in Taken(tbl) : new.slots[i].key = tbl.slots[i].key
  BY <1>11
<1>13. Held(new) = Held(tbl) \cup {k}
  BY <1>2, <1>8, <1>11, <1>12 DEF Held
<1>14. KeysOnce(new)
  BY <1>1, <1>8, <1>11, <1>12 DEF KeysOnce, Held
<1>15. LinksAgree(new)
  <2>1. \A i \in Taken(tbl) : tbl.slots[i].key \in Keys /\ i \in Slots(tbl)
    BY <1>1, TableFacts
  <2>2. \A i \in Taken(new) : Home(new, new.slots[i].key) =
                                IF i = f THEN e ELSE Home(tbl, tbl.slots[i].key)
    BY <1>8, <1>10, <1>11, <1>12, <2>1
  <2>3. \A i, n \in Slots(tbl) : Follows(new, i, n) <=>
            \/ i = f /\ n = m /\ m # Sentinel
            \/ i = e /\ n = f
            \/ i \in Taken(tbl) \ {e} /\ Follows(tbl, i, n)
    BY <1>2, <1>8, <1>11 DEF Follows
  <2>4. \A i \in Slots(tbl) : ~Follows(tbl, i, f)
    BY <1>1, <1>2 DEF LinksAgree
  <2>5. m # Sentinel => m \in Slots(tbl) /\ Follows(tbl, e, m)
    BY <1>4, <2>1 DEF Follows, m
  <2>6. ASSUME NEW i \in Slots(tbl), NEW n \in Slots(tbl), Follows(new, i, n)
        PROVE  /\ n \in Taken(new)
               /\ n # Home(new, new.slots[i].key)
               /\ Home(new, new.slots[n].key) = Home(new, new.slots[i].key)
               /\ \A j \in Slots(tbl) : Follows(new, j, n) => j = i
    <3>1. CASE i = f /\ n = m /\ m # Sentinel
      <4>1. /\ m \in Taken(tbl) /\ m # e /\ Home(tbl, tbl.slots[m].key) = e
            /\ \A j \in Slots(tbl) : Follows(tbl, j, m) => j = e
        BY <1>1, <1>2, <2>5, <3>1 DEF LinksAgree
      <4> QED
        BY <1>2, <1>8, <2>2, <2>3, <3>1, <4>1
    <3>2. CASE i = e /\ n = f
      <4>1. f # e /\ f # m
        BY <1>1, <1>2, <2>4, <2>5
      <4> QED
        BY <1>2, <1>8, <2>2, <2>3, <2>4, <3>2, <4>1
    <3>3. CASE i \in Taken(tbl) \ {e} /\ Follows(tbl, i, n)
      <4>1. /\ n \in Taken(tbl) /\ n # Home(tbl, tbl.slots[i].key)
            /\ Home(tbl, tbl.slots[n].key) = Home(tbl, tbl.slots[i].key)
            /\ \A j \in Slots(tbl) : Follows(tbl, j, n) => j = i
        BY <1>1, <3>3 DEF LinksAgree
      <4>2. n # f /\ i # f
        BY <1>2, <3>3, <4>1
      <4>3. n = m => i = e
        BY <1>2, <2>5, <3>3, <4>1 DEF Follows
      <4> QED
        BY <1>2, <1>8, <2>2, <2>3, <3>3, <4>1, <4>2, <4>3
    <3> QED
      BY <2>3, <2>6, <3>1, <3>2, <3>3
  <2> QED
    BY <1>8, <2>6 DEF LinksAgree
<1>16. AtHome(new)
  <2>1. ASSUME NEW h \in Slots(tbl), NEW S \in SUBSET Slots(new), h \in S, Closed(new, S)
        PROVE  Chain(tbl, h) \subseteq S
    <3>1. Closed(tbl, S)
      <4>1. ASSUME NEW i \in S \cap Taken(tbl)
            PROVE  tbl.slots[i].next \in S \cup {Sentinel}
        <5>1. CASE i = e
          BY <1>2, <1>8, <1>11, <2>1, <5>1 DEF Closed, m
        <5>2. CASE i # e
          BY <1>8, <1>11, <2>1, <5>2 DEF Closed
        <5> QED
          BY <5>1, <5>2
      <4> QED
        BY <4>1 DEF Closed
    <3> QED
      BY <1>8, <2>1, <3>1, ChainWithin
  <2>2. ASSUME NEW i \in Taken(tbl) PROVE i \in Chain(new, Home(new, new.slots[i].key))
    <3>1. Home(new, new.slots[i].key) = Home(tbl, tbl.slots[i].key) /\ i \in Slots(new)
      BY <1>1, <1>8, <1>10, <1>12, TableFacts
    <3>2. Home(tbl, tbl.slots[i].key) \in Slots(tbl)
      BY <1>1, TableFacts
    <3>3. i \in Chain(tbl, Home(tbl, tbl.slots[i].key))
      BY <1>1 DEF AtHome
    <3> QED
      BY <2>1, <3>1, <3>2, <3>3 DEF Chain
  <2>3. f \in Chain(new, Home(new, new.slots[f].key))
    <3>1. Home(new, new.slots[f].key) = e
      BY <1>10, <1>11
    <3>2. \A S \in SUBSET Slots(new) : e \in S /\ Closed(new, S) => f \in S
      BY <1>2, <1>8, <1>11 DEF Closed
    <3> QED
      BY <1>2, <1>8, <3>1, <3>2 DEF Chain
  <2> QED
    BY <1>8, <2>2, <2>3 DEF AtHome
<1> QED
  BY <1>8, <1>9, <1>13, <1>14, <1>15, <1>16 DEF Added, Good, new

\* The occupant of the home slot e is of another chain: it moves to slot f, its
\* predecessor p is led there, and the new entry starts a chain.
LEMMA EvictAdds ==
  ASSUME NEW tbl, Good(tbl), NEW k \in Keys, k \notin Held(tbl), tbl.free > 0,
         NEW e, e = Home(tbl, k), e \in Taken(tbl), Home(tbl, tbl.slots[e].key) # e
  PROVE  Added(tbl, Evict(tbl, k), k)
<1> DEFINE f == FreeSlot(tbl)
           h == Home(tbl, tbl.slots[e].key)
           p == Before(tbl, h, e)
           m == tbl.slots[e].next
           s == [tbl.slots EXCEPT ![f] = tbl.slots[e], ![p].next = f, ![e] = Entry(k, Sentinel)]
           new == Evict(tbl, k)
<1>1. IsTable(tbl) /\ KeysOnce(tbl) /\ LinksAgree(tbl) /\ AtHome(tbl)
  BY DEF Good
<1>2. /\ p \in Taken(tbl) \ {e} /\ tbl.slots[p].next = e
      /\ \A j \in Taken(tbl) : tbl.slots[j].next = e => j = p
      /\ h \in Taken(tbl) /\ h # e /\ h \in Slots(tbl)
  BY <1>1, BeforeFacts, HeadTaken, TableFacts
<1>3. /\ tbl.capacity \in Nat \ {0} /\ e \in Slots(tbl) /\ p \in Slots(tbl)
      /\ f \in Slots(tbl) \ Taken(tbl) /\ f \in Nat /\ f # Sentinel /\ e # f /\ p # f /\ h # f
  BY <1>1, <1>2, TableFacts, FreeSlotFacts, ScatterTableAssumption
<1>4. new = [capacity |-> tbl.capacity, free |-> tbl.free - 1, good |-> f, slots |-> s]
  <2>1. new = [tbl EXCEPT !.slots = s, !.good = f, !.free = tbl.free - 1]
    <3> DEFINE u == tbl.slots[e]
               w == Entry(k, Sentinel)
    <3>1. new = [tbl EXCEPT !.slots[f] = u, !.slots[p].next = f, !.slots[e] = w,
                            !.good = f, !.free = @ - 1]
      BY DEF Evict
    <3> HIDE DEF f, u, w, p, new
    <3>2. [tbl EXCEPT !.slots[f] = u, !.slots[p].next = f, !.slots[e] = w,
                      !.good = f, !.free = @ - 1]
            = [tbl EXCEPT !.slots = [tbl.slots EXCEPT ![f] = u, ![p].next = f, ![e] = w],
                          !.good = f, !.free = tbl.free - 1]
      <4>1. tbl = [capacity |-> tbl.capacity, free |-> tbl.free, good |-> tbl.good,
                   slots |-> tbl.slots]
        BY <1>1 DEF IsTable
      <4> QED
        BY <4>1
    <3> QED
      BY <3>1, <3>2 DEF u, w
  <2> HIDE DEF s, f, new
  <2> QED
    BY <1>1, <2>1, TableExcept
<1>5. \A i \in Taken(tbl) : /\ tbl.slots[i] = Entry(tbl.slots[i].key, tbl.slots[i].next)
                            /\ tbl.slots[i].key \in Keys /\ i \in Slots(tbl)
                            /\ tbl.slots[i].next \in Slots(tbl) \cup {Sentinel}
  BY <1>1, TableFacts
<1>6. \A j \in Keys : \A n : /\ Entry(j, n).key = j /\ Entry(j, n).next = n
                             /\ n \in Nat \cup {Sentinel} => Entry(j, n) # Vacant
  BY ScatterTableAssumption DEF Entry
<1>7. /\ s \in [Slots(tbl) -> SlotValue(tbl.capacity)]
      /\ s[f] = tbl.slots[e] /\ s[p] = Entry(tbl.slots[p].key, f) /\ s[e] = Entry(k, Sentinel)
      /\ \A i \in Slots(tbl) \ {e, f, p} : s[i] = tbl.slots[i]
  <2> HIDE DEF f, p
  <2>1. /\ Entry(k, Sentinel) \in SlotValue(tbl.capacity)
        /\ tbl.slots[e] \in SlotValue(tbl.capacity)
        /\ Entry(tbl.slots[p].key, f) \in SlotValue(tbl.capacity)
    BY <1>1, <1>2, <1>3, <1>5 DEF SlotValue, Entry, Slots, IsTable
  <2>2. s = [tbl.slots EXCEPT ![f] = tbl.slots[e], ![p] = Entry(tbl.slots[p].key, f),
                              ![e] = Entry(k, Sentinel)]
    <3>1. [Entry(tbl.slots[p].key, e) EXCEPT !.next = f] = Entry(tbl.slots[p].key, f)
      BY DEF Entry
    <3>2. s = [tbl.slots EXCEPT ![f] = tbl.slots[e], ![p] = [tbl.slots[p] EXCEPT !.next = f],
                                ![e] = Entry(k, Sentinel)]
      BY <1>1, <1>2, <1>3 DEF IsTable
    <3>3. tbl.slots[p] = Entry(tbl.slots[p].key, e)
      BY <1>2, <1>5
    <3> QED
      BY <3>1, <3>2, <3>3
  <2> QED
    BY <1>1, <1>2, <1>3, <2>1, <2>2 DEF IsTable
<1>8. \A i \in Slots(tbl) : s[i] # Vacant <=> i \in Taken(tbl) \cup {f}
  <2>1. s[f] # Vacant /\ s[e] # Vacant /\ s[p] # Vacant
    BY <1>2, <1>3, <1>5, <1>6, <1>7 DEF Taken
  <2> HIDE DEF f, s, p
  <2> QED
    BY <1>2, <1>3, <1>7, <2>1 DEF Taken
<1> HIDE DEF f, h, m, p, s, new
<1>9. IsTable(new) /\ Slots(new) = Slots(tbl) /\ Taken(new) = Taken(tbl) \cup {f}
  BY <1>1, <1>3, <1>4, <1>7, <1>8, OneMoreTaken
<1>10. new.capacity = tbl.capacity /\ new.free = tbl.free - 1 /\ new.slots = s
  BY <1>4
<1>11. \A j \in Keys : Home(new, j) = Home(tbl, j)
  BY <1>10 DEF Home
<1>12. /\ new.slots[f] = tbl.slots[e]
       /\ new.slots[e].key = k /\ new.slots[e].next = Sentinel
       /\ new.slots[p].key = tbl.slots[p].key /\ new.slots[p].next = f
       /\ \A i \in Taken(tbl) \ {e, p} : new.slots[i] = tbl.slots[i]
  BY <1>2, <1>3, <1>5, <1>6, <1>7, <1>10
<1>13. \A i \in Taken(tbl) \ {e} : new.slots[i].key = tbl.slots[i].key
  BY <1>12
<1>14. Held(new) = Held(tbl) \cup {k}
  <2>1. \A i \in Taken(new) : new.slots[i].key \in Held(tbl) \cup {k}
    BY <1>9, <1>12, <1>13 DEF Held
  <2>2. \A i \in Taken(tbl) : tbl.slots[i].key \in Held(new)
    BY <1>3, <1>9, <1>12, <1>13 DEF Held
  <2>3. k \in Held(new)
    BY <1>9, <1>12 DEF Held
  <2> QED
    BY <2>1, <2>2, <2>3 DEF Held
<1>15. KeysOnce(new)
  BY <1>1, <1>3, <1>9, <1>12, <1>13 DEF KeysOnce, Held
<1>16. \A i \in Taken(new) : Home(new, new.slots[i].key) =
          IF i = f THEN h ELSE IF i = e THEN e ELSE Home(tbl, tbl.slots[i].key)
  BY <1>5, <1>9, <1>11, <1>12, <1>13 DEF h
<1>17. LinksAgree(new)
  <2>1. \A i, n \in Slots(tbl) : Follows(new, i, n) <=>
            \/ i = f /\ Follows(tbl, e, n)
            \/ i = p /\ n = f
            \/ i \in Taken(tbl) \ {e, p} /\ Follows(tbl, i, n)
    BY <1>2, <1>3, <1>9, <1>12 DEF Follows
  <2>2. \A i \in Slots(tbl) : ~Follows(tbl, i, f)
    BY <1>1, <1>3 DEF LinksAgree
  <2>3. Follows(tbl, p, e) /\ \A j \in Slots(tbl) : Follows(tbl, j, e) => j = p
    BY <1>2, <1>3, ScatterTableAssumption, <1>1, TableFacts DEF Follows
  <2>4. Home(tbl, tbl.slots[p].key) = h
    BY <1>1, <1>3, <2>3 DEF LinksAgree, h
  <2>5. ASSUME NEW i \in Slots(tbl), NEW n \in Slots(tbl), Follows(new, i, n)
        PROVE  /\ n \in Taken(new)
               /\ n # Home(new, new.slots[i].key)
               /\ Home(new, new.slots[n].key) = Home(new, new.slots[i].key)
               /\ \A j \in Slots(tbl) : Follows(new, j, n) => j = i
    <3>1. CASE i = f /\ Follows(tbl, e, n)
      <4>1. /\ n \in Taken(tbl) /\ n # h /\ Home(tbl, tbl.slots[n].key) = h
            /\ \A j \in Slots(tbl) : Follows(tbl, j, n) => j = e
        BY <1>1, <1>3, <3>1 DEF LinksAgree, h
      <4>2. n # e /\ n # f
        BY <1>2, <1>3, <2>3, <3>1, <4>1
      <4> QED
        BY <1>3, <1>9, <1>16, <2>1, <3>1, <4>1, <4>2
    <3>2. CASE i = p /\ n = f
      BY <1>2, <1>3, <1>9, <1>16, <2>1, <2>2, <2>4, <3>2
    <3>3. CASE i \in Taken(tbl) \ {e, p} /\ Follows(tbl, i, n)
      <4>1. /\ n \in Taken(tbl) /\ n # Home(tbl, tbl.slots[i].key)
            /\ Home(tbl, tbl.slots[n].key) = Home(tbl, tbl.slots[i].key)
            /\ \A j \in Slots(tbl) : Follows(tbl, j, n) => j = i
        BY <1>1, <3>3 DEF LinksAgree
      <4>2. n # f /\ i # f /\ n # e
        BY <1>3, <2>3, <3>3, <4>1
      <4>3. ~Follows(tbl, e, n)
        BY <1>3, <3>3, <4>1
      <4> QED
        BY <1>9, <1>16, <2>1, <3>3, <4>1, <4>2, <4>3
    <3> QED
      BY <2>1, <2>5, <3>1, <3>2, <3>3
  <2> QED
    BY <1>9, <2>5 DEF LinksAgree
<1>18. AtHome(new)
  <2>1. ASSUME NEW g \in Slots(tbl), g # e, NEW S \in SUBSET Slots(new), g \in S, Closed(new, S)
        PROVE  \A i \in Chain(tbl, g) : IF i = e THEN f \in S ELSE i \in S
    <3> DEFINE T == {i \in Slots(tbl) : IF i = e THEN f \in S ELSE i \in S}
    <3>1. Closed(tbl, T)
      <4>1. ASSUME NEW i \in T, i \in Taken(tbl), tbl.slots[i].next # Sentinel
            PROVE  tbl.slots[i].next \in T
        <5>1. tbl.slots[i].next \in Slots(tbl)
          BY <1>5, <4>1
        <5>2. CASE i = e
          <6>1. tbl.slots[e].next \in S
            BY <1>9, <1>12, <2>1, <4>1, <5>2 DEF Closed
          <6>2. tbl.slots[e].next # e
            BY <1>2, <5>2
          <6> QED
            BY <5>1, <5>2, <6>1, <6>2
        <5>3. CASE i = p
          <6>1. f \in S
            BY <1>2, <1>3, <1>9, <1>12, <2>1, <4>1, <5>3 DEF Closed
          <6> QED
            BY <1>2, <1>3, <5>3, <6>1
        <5>4. CASE i \notin {e, p}
          <6>1. tbl.slots[i].next \in S
            BY <1>9, <1>12, <2>1, <4>1, <5>4 DEF Closed
          <6>2. tbl.slots[i].next # e
            BY <1>2, <4>1, <5>4
          <6> QED
            BY <5>1, <6>1, <6>2
        <5> QED
          BY <5>2, <5>3, <5>4
      <4> QED
        BY <4>1 DEF Closed
    <3>2. g \in T /\ T \subseteq Slots(tbl)
      BY <2>1
    <3>3. Chain(tbl, g) \subseteq T
      BY <3>1, <3>2, ChainWithin
    <3> QED
      BY <3>3
  <2>2. ASSUME NEW i \in Taken(tbl)
        PROVE  /\ Home(tbl, tbl.slots[i].key) \in Slots(tbl) \ {e}
               /\ i \in Chain(tbl, Home(tbl, tbl.slots[i].key))
    <3>1. Home(tbl, tbl.slots[i].key) # e
      <4>1. Home(tbl, tbl.slots[i].key) = e => Home(tbl, tbl.slots[e].key) = e
        BY HeadTaken
      <4> QED
        BY <1>2, <4>1 DEF h
    <3> QED
      BY <1>1, <3>1, TableFacts DEF AtHome
  <2>3. ASSUME NEW i \in Taken(tbl) \ {e} PROVE i \in Chain(new, Home(new, new.slots[i].key))
    <3>1. Home(new, new.slots[i].key) = Home(tbl, tbl.slots[i].key) /\ i \in Slots(new)
      BY <1>3, <1>5, <1>9, <1>16
    <3> QED
      BY <2>1, <2>2, <3>1 DEF Chain
  <2>4. f \in Chain(new, Home(new, new.slots[f].key))
    <3>1. Home(new, new.slots[f].key) = h /\ f \in Slots(new)
      BY <1>3, <1>9, <1>16
    <3>2. e \in Chain(tbl, h)
      BY <2>2 DEF h
    <3> QED
      BY <1>2, <2>1, <3>1, <3>2 DEF Chain
  <2>5. e \in Chain(new, Home(new, new.slots[e].key))
    <3>1. Home(new, new.slots[e].key) = e /\ e \in Slots(new)
      BY <1>3, <1>9, <1>16
    <3> QED
      BY <3>1 DEF Chain
  <2> QED
    BY <1>9, <2>3, <2>4, <2>5 DEF AtHome
<1> QED
  BY <1>9, <1>10, <1>14, <1>15, <1>17, <1>18 DEF Added, Good, new

\* do_insert keeps a table a table, and adds the key it is given.
LEMMA InsertAdds ==
  ASSUME NEW tbl, Good(tbl), NEW k \in Keys, k \notin Held(tbl) => tbl.free > 0
  PROVE  /\ k \in Held(tbl) => Insert(tbl, k) = tbl
         /\ k \notin Held(tbl) => Added(tbl, Insert(tbl, k), k)
<1>1. CASE k \in Held(tbl)
  <2>1. Find(tbl, k) # NoSlot
    BY <1>1, FindFacts
  <2> QED
    BY <1>1, <2>1 DEF Insert
<1>2. CASE k \notin Held(tbl)
  <2> DEFINE e == Home(tbl, k)
  <2>1. Find(tbl, k) = NoSlot
    BY <1>2, FindMiss
  <2>2. tbl.capacity \in Nat \ {0} /\ e \in Slots(tbl)
    <3>1. tbl.free \in 0..tbl.capacity /\ tbl.capacity \in Nat /\ tbl.free > 0
      BY <1>2, SizeFacts, TableFacts DEF Good
    <3>2. tbl.capacity \in Nat \ {0}
      BY <3>1
    <3> QED
      BY <3>2, HomeInSlots
  <2>3. CASE tbl.slots[e] = Vacant
    <3>1. Insert(tbl, k) = PlaceAtHome(tbl, k)
      BY <2>1, <2>3 DEF Insert
    <3>2. tbl.capacity > 0
      BY <2>2
    <3> QED
      BY <1>2, <2>3, <3>1, <3>2, PlaceAtHomeAdds
  <2>4. CASE tbl.slots[e] # Vacant /\ Home(tbl, tbl.slots[e].key) = e
    <3>1. Insert(tbl, k) = SpliceBehind(tbl, k)
      BY <2>1, <2>4 DEF Insert
    <3>2. e \in Taken(tbl)
      BY <2>2, <2>4 DEF Taken
    <3> HIDE DEF e
    <3> QED
      BY <1>2, <2>4, <3>1, <3>2, SpliceBehindAdds DEF e
  <2>5. CASE tbl.slots[e] # Vacant /\ Home(tbl, tbl.slots[e].key) # e
    <3>1. Insert(tbl, k) = Evict(tbl, k)
      BY <2>1, <2>5 DEF Insert
    <3>2. e \in Taken(tbl)
      BY <2>2, <2>5 DEF Taken
    <3> QED
      BY <1>2, <2>5, <3>1, <3>2, EvictAdds
  <2> QED
    BY <1>2, <2>3, <2>4, <2>5
<1> QED
  BY <1>1, <1>2

-----------------------------------------------------------------------------
(***************************************************************************)
(* The tables a rehash and a copy are built in.                            *)
(***************************************************************************)
\* An array of vacant slots is a table, with or without slots.
LEMMA FreshIsGood ==
  ASSUME NEW c \in Capacities \cup {0}
  PROVE  /\ Good(Fresh(c)) /\ Held(Fresh(c)) = {}
         /\ Fresh(c).capacity = c /\ Fresh(c).free = c
<1> DEFINE tbl == Fresh(c)
<1>1. c \in Nat
  BY CapacityFacts
<1>2. /\ tbl.capacity = c /\ tbl.free = c /\ tbl.good = 0
      /\ tbl.slots = [i \in 0..(c - 1) |-> Vacant]
      /\ tbl = [capacity |-> tbl.capacity, free |-> tbl.free, good |-> tbl.good,
                slots |-> tbl.slots]
  BY DEF Fresh
<1> HIDE DEF tbl
<1>3. Slots(tbl) = 0..(c - 1) /\ Taken(tbl) = {}
  BY <1>1, <1>2 DEF Slots, Taken
<1>4. Cardinality(Slots(tbl) \ Taken(tbl)) = c
  <2>1. Cardinality(0..(c - 1)) = c
    BY <1>1, FS_Interval
  <2>2. Slots(tbl) \ Taken(tbl) = 0..(c - 1)
    BY <1>3
  <2> QED
    BY <2>1, <2>2
<1>5. IsTable(tbl)
  BY <1>1, <1>2, <1>3, <1>4 DEF IsTable, SlotValue
<1>6. KeysOnce(tbl) /\ LinksAgree(tbl) /\ AtHome(tbl) /\ Held(tbl) = {}
  BY <1>3 DEF KeysOnce, LinksAgree, AtHome, Held, Follows
<1> QED
  BY <1>2, <1>5, <1>6 DEF Good, tbl

LEMMA CapacityForFacts ==
  ASSUME NEW count \in Nat, count <= MaxCapacity
  PROVE  CapacityFor(count) \in Capacities /\ count <= CapacityFor(count)
<1> DEFINE enough == {c \in Capacities : count <= c}
<1>1. MaxCapacity \in Capacities
  <2>1. \A p \in PowersOfTwo : p \in Nat
    BY DEF PowersOfTwo
  <2> QED
    BY <2>1, ScatterTableAssumption DEF Capacities
<1>2. enough \subseteq Nat /\ enough # {}
  BY <1>1, CapacityFacts
<1>3. Min(enough) \in enough
  BY <1>2, MinFacts
<1> QED
  BY <1>3 DEF CapacityFor

\* The loop of an insertion has its intermediate tables: after[n] is the table
\* when the first n slots of the other one have been seen to.
LEMMA InsertAllSteps ==
  ASSUME NEW tbl, NEW from, from.capacity \in Nat
  PROVE  \E after : /\ after[0] = tbl
                    /\ \A n \in 1..from.capacity :
                           after[n] = InsertEntry(after[n - 1], from.slots[n - 1])
                    /\ InsertAll(tbl, from) = after[from.capacity]
<1> DEFINE Step(g, n) == IF n = 0 THEN tbl ELSE InsertEntry(g[n - 1], from.slots[n - 1])
           Run(g, m) == g = [n \in 0..m |-> Step(g, n)]
           without == {m \in Nat : ~\E g : Run(g, m)}
<1>1. \A m \in Nat : \E g : Run(g, m)
  <2> SUFFICES ASSUME without # {} PROVE FALSE
    OBVIOUS
  <2>1. without \subseteq Nat
    OBVIOUS
  <2>2. PICK m \in without : \A y \in without : m <= y
    <3> HIDE DEF without
    <3> QED
      BY <2>1, MinFacts
  <2>3. m # 0
    <3>1. Run([n \in 0..0 |-> tbl], 0)
      OBVIOUS
    <3> QED
      BY <2>2, <3>1
  <2>4. m - 1 \in Nat /\ m - 1 \notin without
    BY <2>2, <2>3
  <2>5. PICK g : Run(g, m - 1)
    BY <2>4
  <2> DEFINE more == [n \in 0..m |-> IF n < m THEN g[n] ELSE Step(g, m)]
  <2>6. ASSUME NEW n \in 0..m PROVE more[n] = Step(more, n)
    <3>1. CASE n = m
      <4>1. m - 1 \in 0..m /\ m - 1 < m
        BY <2>2, <2>3
      <4>2. more[m - 1] = g[m - 1] /\ more[m] = Step(g, m)
        BY <2>2, <4>1
      <4> HIDE DEF more
      <4> QED
        BY <2>3, <3>1, <4>2
    <3>2. CASE n = 0
      BY <2>2, <2>3, <2>4, <2>5, <3>2
    <3>3. CASE n # 0 /\ n < m
      <4>1. n \in 0..(m - 1) /\ n - 1 \in 0..m /\ n - 1 < m
        BY <2>2, <3>3
      <4>2. more[n] = g[n] /\ more[n - 1] = g[n - 1]
        BY <3>3, <4>1
      <4>3. g[n] = Step(g, n)
        BY <2>5, <4>1
      <4> HIDE DEF more
      <4> QED
        BY <3>3, <4>2, <4>3
    <3> QED
      BY <2>2, <3>1, <3>2, <3>3
  <2>7. Run(more, m)
    <3>1. more = [n \in 0..m |-> more[n]]
      OBVIOUS
    <3> HIDE DEF more
    <3> QED
      BY <2>6, <3>1
  <2> QED
    BY <2>2, <2>7
<1> DEFINE c == from.capacity
           after == CHOOSE g : Run(g, c)
<1>2. Run(after, c)
  BY <1>1
<1>3. InsertAll(tbl, from) = after[c]
  BY DEF InsertAll
<1>4. after[0] = tbl
  <2>1. 0 \in 0..c
    OBVIOUS
  <2> HIDE DEF after
  <2> QED
    BY <1>2, <2>1
<1>5. \A n \in 1..c : after[n] = InsertEntry(after[n - 1], from.slots[n - 1])
  <2>1. \A n \in 1..c : n \in 0..c /\ n # 0
    OBVIOUS
  <2> HIDE DEF after
  <2> QED
    BY <1>2, <2>1
<1> HIDE DEF after
<1> QED
  BY <1>3, <1>4, <1>5

\* The loop adds the keys it meets.  It has a free slot for each of them when the
\* table starts with as many as the other one has entries.
LEMMA InsertAllFacts ==
  ASSUME NEW tbl, Good(tbl), NEW from, Good(from), Size(from) <= tbl.free
  PROVE  LET new == InsertAll(tbl, from)
         IN  /\ Good(new) /\ new.capacity = tbl.capacity
             /\ Held(new) = Held(tbl) \cup Held(from)
             /\ new.free >= tbl.free - Size(from)
<1> DEFINE c == from.capacity
           seen(n) == {i \in Taken(from) : i < n}
           keysOf(S) == {from.slots[i].key : i \in S}
<1>1. /\ c \in Nat /\ IsTable(from) /\ Taken(from) \subseteq 0..(c - 1)
      /\ Taken(from) = {i \in 0..(c - 1) : from.slots[i] # Vacant}
      /\ \A i \in Taken(from) : from.slots[i].key \in Keys
  BY TableFacts DEF Good, Slots, Taken
<1>2. /\ IsFiniteSet(Taken(from)) /\ Size(from) = Cardinality(Taken(from))
      /\ Cardinality(Taken(from)) \in Nat
  BY <1>1, SizeFacts
<1>3. tbl.free \in Nat
  BY SizeFacts, TableFacts DEF Good
<1>4. \A n \in 0..c : /\ IsFiniteSet(seen(n)) /\ Cardinality(seen(n)) \in Nat
                      /\ Cardinality(seen(n)) <= Size(from)
  <2> TAKE n \in 0..c
  <2>1. seen(n) \subseteq Taken(from)
    OBVIOUS
  <2> QED
    BY <1>2, <2>1, FS_Subset, FS_CardinalityType
<1>5. PICK after : /\ after[0] = tbl
                   /\ \A n \in 1..c : after[n] = InsertEntry(after[n - 1], from.slots[n - 1])
                   /\ InsertAll(tbl, from) = after[c]
  BY <1>1, InsertAllSteps
<1> DEFINE P(n) == /\ Good(after[n]) /\ after[n].capacity = tbl.capacity
                   /\ Held(after[n]) = Held(tbl) \cup keysOf(seen(n))
                   /\ after[n].free >= tbl.free - Cardinality(seen(n))
                   /\ after[n].free \in Nat
           wrong == {n \in 0..c : ~P(n)}
<1>6. P(0)
  <2>1. seen(0) = {}
    BY <1>1
  <2>2. Cardinality(seen(0)) = 0
    BY <2>1, FS_EmptySet
  <2>3. keysOf(seen(0)) = {}
    BY <2>1
  <2> HIDE DEF seen, keysOf
  <2> QED
    BY <1>3, <1>5, <2>2, <2>3
<1>7. ASSUME NEW n \in 1..c, P(n - 1) PROVE P(n)
  <2> DEFINE old == after[n - 1]
             slot == from.slots[n - 1]
  <2>1. after[n] = InsertEntry(old, slot)
    BY <1>5
  <2>2. n - 1 \in 0..(c - 1) /\ n - 1 \in 0..c /\ n \in 0..c
    BY <1>1
  <2>3. CASE slot = Vacant
    <3>1. after[n] = old
      BY <2>1, <2>3 DEF InsertEntry
    <3>2. seen(n) = seen(n - 1)
      BY <1>1, <2>2, <2>3
    <3> HIDE DEF seen, keysOf
    <3> QED
      BY <1>7, <3>1, <3>2
  <2>4. CASE slot # Vacant
    <3>1. n - 1 \in Taken(from) /\ slot.key \in Keys
      BY <1>1, <2>2, <2>4
    <3>2. seen(n) = seen(n - 1) \cup {n - 1} /\ n - 1 \notin seen(n - 1)
      BY <1>1, <2>2, <3>1
    <3>3. Cardinality(seen(n)) = Cardinality(seen(n - 1)) + 1
      <4> HIDE DEF seen
      <4> QED
        BY <1>4, <2>2, <3>2, FS_AddElement
    <3>4. keysOf(seen(n)) = keysOf(seen(n - 1)) \cup {slot.key}
      <4> HIDE DEF seen
      <4> QED
        BY <3>2
    <3> HIDE DEF seen, keysOf, slot
    <3>5. old.free > 0
      BY <1>2, <1>3, <1>4, <1>7, <2>2, <3>3
    <3>6. after[n] = Insert(old, slot.key)
      BY <2>1, <2>4 DEF InsertEntry
    <3>7. CASE slot.key \in Held(old)
      <4>1. after[n] = old
        BY <1>7, <3>1, <3>5, <3>6, <3>7, InsertAdds
      <4>2. Held(after[n]) = Held(tbl) \cup keysOf(seen(n))
        BY <1>7, <3>4, <3>7, <4>1
      <4> QED
        BY <1>3, <1>4, <1>7, <2>2, <3>3, <4>1, <4>2
    <3>8. CASE slot.key \notin Held(old)
      <4>1. Added(old, after[n], slot.key)
        BY <1>7, <3>1, <3>5, <3>6, <3>8, InsertAdds
      <4>2. Held(after[n]) = Held(tbl) \cup keysOf(seen(n))
        BY <1>7, <3>4, <4>1 DEF Added
      <4>3. after[n].free = old.free - 1
        BY <4>1 DEF Added
      <4>4. Good(after[n]) /\ after[n].capacity = tbl.capacity
        BY <1>7, <4>1 DEF Added
      <4> QED
        BY <1>3, <1>4, <1>7, <2>2, <3>3, <3>5, <4>2, <4>3, <4>4
    <3> QED
      BY <3>7, <3>8
  <2> QED
    BY <2>3, <2>4
<1> HIDE DEF P
<1>8. wrong = {}
  <2> SUFFICES ASSUME wrong # {} PROVE FALSE
    OBVIOUS
  <2>1. wrong \subseteq Nat
    BY <1>1
  <2>2. PICK n \in wrong : \A y \in wrong : n <= y
    <3> HIDE DEF wrong
    <3> QED
      BY <2>1, MinFacts
  <2>3. n \in 1..c /\ n - 1 \in 0..c /\ n - 1 \notin wrong
    BY <1>1, <1>6, <2>2
  <2> QED
    BY <1>7, <2>2, <2>3
<1>9. P(c)
  BY <1>1, <1>8
<1>10. seen(c) = Taken(from)
  BY <1>1
<1> QED
  <2>1. Cardinality(seen(c)) = Size(from) /\ keysOf(seen(c)) = Held(from)
    BY <1>2, <1>10 DEF Held
  <2> HIDE DEF seen, keysOf
  <2> QED
    BY <1>5, <1>9, <2>1 DEF P

\* reserve keeps the keys, and makes the room it is asked for.
LEMMA ReserveFacts ==
  ASSUME NEW tbl, Good(tbl), NEW count \in Nat, CanReserve(count)
  PROVE  LET new == Reserve(tbl, count)
         IN  /\ Good(new) /\ Held(new) = Held(tbl)
             /\ count <= new.capacity /\ tbl.capacity <= new.capacity
             /\ Size(new) <= Size(tbl)
<1>1. IsTable(tbl) /\ tbl.capacity \in Nat /\ tbl.free \in 0..tbl.capacity /\ Size(tbl) \in Nat
  BY TableFacts, SizeFacts DEF Good
<1>2. CASE count <= tbl.capacity
  BY <1>1, <1>2 DEF Reserve
<1>3. CASE ~(count <= tbl.capacity)
  <2> DEFINE c == CapacityFor(count)
             fresh == Fresh(c)
             new == InsertAll(fresh, tbl)
  <2>1. c \in Capacities /\ count <= c /\ c \in Nat
    BY CapacityForFacts, CapacityFacts DEF CanReserve
  <2>2. Good(fresh) /\ Held(fresh) = {} /\ fresh.capacity = c /\ fresh.free = c
    BY <2>1, FreshIsGood
  <2>3. Size(tbl) <= c
    BY <1>1, <1>3, <2>1 DEF Size
  <2> HIDE DEF fresh, c
  <2>4. /\ Good(new) /\ new.capacity = c /\ Held(new) = Held(tbl)
        /\ new.free >= c - Size(tbl)
    BY <2>2, <2>3, InsertAllFacts
  <2>5. Reserve(tbl, count) = new
    BY <1>3 DEF Reserve, fresh, c
  <2> HIDE DEF new
  <2>6. IsTable(new) /\ new.free \in Nat
    <3>1. new.free \in 0..new.capacity
      BY <2>4, SizeFacts DEF Good
    <3> QED
      BY <2>1, <2>4, <3>1 DEF Good
  <2>7. Size(new) <= Size(tbl)
    BY <1>1, <2>1, <2>4, <2>6 DEF Size
  <2> QED
    BY <1>1, <1>3, <2>1, <2>4, <2>5, <2>7
<1> QED
  BY <1>2, <1>3

\* insert(first, last) unites the keys.
LEMMA InsertRangeFacts ==
  ASSUME NEW tbl, Good(tbl), NEW from, Good(from), CanReserve(Size(tbl) + Size(from))
  PROVE  /\ Good(InsertRange(tbl, from))
         /\ Held(InsertRange(tbl, from)) = Held(tbl) \cup Held(from)
<1> DEFINE count == Size(tbl) + Size(from)
           room == Reserve(tbl, count)
<1>1. Size(tbl) \in Nat /\ Size(from) \in Nat
  BY SizeFacts DEF Good
<1>2. /\ Good(room) /\ Held(room) = Held(tbl)
      /\ count <= room.capacity /\ Size(room) <= Size(tbl)
  BY <1>1, ReserveFacts
<1>3. Size(from) <= room.free
  <2>1. room.capacity \in Nat /\ room.free \in 0..room.capacity
    BY <1>2, TableFacts, SizeFacts DEF Good
  <2> HIDE DEF room
  <2> QED
    BY <1>1, <1>2, <2>1 DEF Size
<1> HIDE DEF room
<1> QED
  BY <1>2, <1>3, InsertAllFacts DEF InsertRange, room

LEMMA ClearFacts ==
  ASSUME NEW tbl, Good(tbl)
  PROVE  Good(Clear(tbl)) /\ Held(Clear(tbl)) = {} /\ Size(Clear(tbl)) = 0
<1>1. CASE Size(tbl) > 0
  <2>1. tbl.capacity \in Capacities \cup {0} /\ tbl.capacity \in Nat
    BY TableFacts DEF Good, IsTable
  <2> QED
    BY <1>1, <2>1, FreshIsGood DEF Clear, Size
<1>2. CASE ~(Size(tbl) > 0)
  <2>1. Size(tbl) \in Nat /\ Size(tbl) = Cardinality(Taken(tbl)) /\ IsFiniteSet(Taken(tbl))
    BY SizeFacts DEF Good
  <2>2. Size(tbl) = 0
    BY <1>2, <2>1
  <2>3. Taken(tbl) = {}
    BY <2>1, <2>2, FS_EmptySet
  <2> QED
    BY <1>2, <2>2, <2>3 DEF Clear, Held
<1> QED
  BY <1>1, <1>2

-----------------------------------------------------------------------------
(***************************************************************************)
(* do_erase.  One slot is vacated: the entry's own at the end of a chain,  *)
(* the next one, which moved here, elsewhere.                              *)
(***************************************************************************)
LEMMA OneLessTaken ==
  ASSUME NEW tbl, IsTable(tbl), NEW new, NEW v \in Taken(tbl),
         NEW s \in [Slots(tbl) -> SlotValue(tbl.capacity)],
         new = [capacity |-> tbl.capacity, free |-> tbl.free + 1, good |-> tbl.good, slots |-> s],
         \A i \in Slots(tbl) : s[i] # Vacant <=> i \in Taken(tbl) \ {v}
  PROVE  IsTable(new) /\ Slots(new) = Slots(tbl) /\ Taken(new) = Taken(tbl) \ {v}
<1>1. /\ new.capacity = tbl.capacity /\ new.free = tbl.free + 1
      /\ new.good = tbl.good /\ new.slots = s
  OBVIOUS
<1>2. Slots(new) = Slots(tbl)
  BY <1>1 DEF Slots
<1>3. Taken(new) = Taken(tbl) \ {v}
  BY <1>1, <1>2, TableFacts DEF Taken
<1> DEFINE vacant == Slots(tbl) \ Taken(tbl)
<1>4. new.free = Cardinality(Slots(new) \ Taken(new))
  <2>1. IsFiniteSet(vacant) /\ v \notin vacant
    BY TableFacts, FS_Subset
  <2>2. Cardinality(vacant \cup {v}) = Cardinality(vacant) + 1
    BY <2>1, FS_AddElement
  <2>3. Slots(new) \ Taken(new) = vacant \cup {v}
    BY <1>2, <1>3, TableFacts
  <2> QED
    BY <1>1, <2>2, <2>3 DEF IsTable
<1> QED
  BY <1>1, <1>2, <1>3, <1>4 DEF IsTable

\* What an erasure makes of a table: slot e is vacant, or holds the entry that
\* was in slot e's next, and nothing else moved.
Removed(tbl, new, e) ==
    /\ Good(new)
    /\ Held(new) = Held(tbl) \ {tbl.slots[e].key}
    /\ LET n == tbl.slots[e].next
           v == IF n = Sentinel THEN e ELSE n
       IN  /\ v \in Taken(tbl)
           /\ Taken(new) = Taken(tbl) \ {v}
           /\ \A i \in Taken(new) :
                  new.slots[i].key = IF i = e THEN tbl.slots[n].key ELSE tbl.slots[i].key

\* The entry has a successor, which moves into its slot.
LEMMA EraseInside ==
  ASSUME NEW tbl, Good(tbl), NEW e \in Taken(tbl), tbl.slots[e].next # Sentinel
  PROVE  Removed(tbl, Erase(tbl, e), e)
<1> DEFINE n == tbl.slots[e].next
           h == Home(tbl, tbl.slots[e].key)
           m == tbl.slots[n].next
           s == [tbl.slots EXCEPT ![e] = tbl.slots[n], ![n] = Vacant]
           new == Erase(tbl, e)
<1>1. IsTable(tbl) /\ KeysOnce(tbl) /\ LinksAgree(tbl) /\ AtHome(tbl)
  BY DEF Good
<1>2. \A i \in Taken(tbl) : /\ tbl.slots[i].key \in Keys /\ i \in Slots(tbl)
                            /\ tbl.slots[i].next \in Slots(tbl) \cup {Sentinel}
  BY <1>1, TableFacts
<1>3. e \in Slots(tbl) /\ n \in Slots(tbl) /\ Follows(tbl, e, n)
  BY <1>2 DEF Follows
<1>4. /\ n \in Taken(tbl) /\ n # h /\ Home(tbl, tbl.slots[n].key) = h
      /\ \A j \in Slots(tbl) : Follows(tbl, j, n) => j = e
  BY <1>1, <1>3 DEF LinksAgree
<1>5. n # e
  <2>1. CASE h = e
    BY <1>4, <2>1
  <2>2. CASE h # e
    <3>1. Before(tbl, h, e) \in Taken(tbl) \ {e} /\ tbl.slots[Before(tbl, h, e)].next = e
      BY <2>2, BeforeFacts
    <3>2. n = e => Follows(tbl, Before(tbl, h, e), e) /\ Before(tbl, h, e) \in Slots(tbl)
      BY <1>2, <3>1 DEF Follows
    <3> QED
      BY <1>4, <3>1, <3>2
  <2> QED
    BY <2>1, <2>2
<1>6. new = [capacity |-> tbl.capacity, free |-> tbl.free + 1, good |-> tbl.good, slots |-> s]
  <2>1. new = [tbl EXCEPT !.free = tbl.free + 1, !.slots = s]
    <3> DEFINE u == tbl.slots[n]
    <3>1. new = [[tbl EXCEPT !.free = @ + 1] EXCEPT !.slots[e] = u, !.slots[n] = Vacant]
      BY DEF Erase
    <3> HIDE DEF u, n, new
    <3>2. [[tbl EXCEPT !.free = @ + 1] EXCEPT !.slots[e] = u, !.slots[n] = Vacant]
            = [tbl EXCEPT !.free = tbl.free + 1,
                          !.slots = [tbl.slots EXCEPT ![e] = u, ![n] = Vacant]]
      <4>1. tbl = [capacity |-> tbl.capacity, free |-> tbl.free, good |-> tbl.good,
                   slots |-> tbl.slots]
        BY <1>1 DEF IsTable
      <4> QED
        BY <4>1
    <3> QED
      BY <3>1, <3>2 DEF u
  <2> HIDE DEF s, new
  <2> QED
    BY <1>1, <2>1, TableExcept
<1> HIDE DEF n, m, h
<1>7. /\ s \in [Slots(tbl) -> SlotValue(tbl.capacity)]
      /\ s[e] = tbl.slots[n] /\ s[n] = Vacant
      /\ \A i \in Slots(tbl) \ {e, n} : s[i] = tbl.slots[i]
  BY <1>1, <1>3, <1>5 DEF IsTable, SlotValue
<1>8. \A i \in Slots(tbl) : s[i] # Vacant <=> i \in Taken(tbl) \ {n}
  <2> HIDE DEF s
  <2> QED
    BY <1>3, <1>4, <1>5, <1>7 DEF Taken
<1> HIDE DEF s, new
<1>9. IsTable(new) /\ Slots(new) = Slots(tbl) /\ Taken(new) = Taken(tbl) \ {n}
  BY <1>1, <1>4, <1>6, <1>7, <1>8, OneLessTaken
<1>10. /\ new.capacity = tbl.capacity /\ new.slots[e] = tbl.slots[n]
       /\ \A i \in Taken(tbl) \ {e, n} : new.slots[i] = tbl.slots[i]
  BY <1>2, <1>6, <1>7
<1>11. \A j \in Keys : Home(new, j) = Home(tbl, j)
  BY <1>10 DEF Home
<1>12. \A i \in Taken(new) : Home(new, new.slots[i].key) =
          IF i = e THEN h ELSE Home(tbl, tbl.slots[i].key)
  BY <1>2, <1>4, <1>9, <1>10, <1>11
<1>13. Held(new) = Held(tbl) \ {tbl.slots[e].key}
  <2>1. \A i \in Taken(new) : new.slots[i].key \in Held(tbl) \ {tbl.slots[e].key}
    BY <1>1, <1>4, <1>5, <1>9, <1>10 DEF Held, KeysOnce
  <2>2. \A i \in Taken(tbl) \ {e} : tbl.slots[i].key \in Held(new)
    BY <1>4, <1>5, <1>9, <1>10 DEF Held
  <2> QED
    BY <2>1, <2>2 DEF Held
<1>14. KeysOnce(new)
  BY <1>1, <1>4, <1>9, <1>10 DEF KeysOnce
<1>15. LinksAgree(new)
  <2>1. \A i, j \in Slots(tbl) : Follows(new, i, j) <=>
            \/ i = e /\ Follows(tbl, n, j)
            \/ i \in Taken(tbl) \ {e, n} /\ Follows(tbl, i, j)
    BY <1>3, <1>4, <1>5, <1>9, <1>10 DEF Follows
  <2>2. ASSUME NEW i \in Slots(tbl), NEW j \in Slots(tbl), Follows(new, i, j)
        PROVE  /\ j \in Taken(new)
               /\ j # Home(new, new.slots[i].key)
               /\ Home(new, new.slots[j].key) = Home(new, new.slots[i].key)
               /\ \A g \in Slots(tbl) : Follows(new, g, j) => g = i
    <3>1. PICK o \in Slots(tbl) : /\ Follows(tbl, o, j) /\ o # e
                                  /\ \/ i = e /\ o = n
                                     \/ i # e /\ i # n /\ o = i
      <4>1. CASE i = e /\ Follows(tbl, n, j)
        BY <1>3, <1>5, <4>1
      <4>2. CASE i \in Taken(tbl) \ {e, n} /\ Follows(tbl, i, j)
        BY <4>2
      <4> QED
        BY <2>1, <2>2, <4>1, <4>2
    <3>2. /\ j \in Taken(tbl) /\ j # Home(tbl, tbl.slots[o].key)
          /\ Home(tbl, tbl.slots[j].key) = Home(tbl, tbl.slots[o].key)
          /\ \A g \in Slots(tbl) : Follows(tbl, g, j) => g = o
      BY <1>1, <3>1 DEF LinksAgree
    <3>3. j # n
      BY <1>4, <3>1
    <3>4. i \in Taken(new) /\ j \in Taken(new)
      BY <1>9, <2>2, <3>2, <3>3 DEF Follows
    <3>5. Home(new, new.slots[i].key) = Home(tbl, tbl.slots[o].key)
      BY <1>4, <1>12, <3>1, <3>4
    <3>6. Home(new, new.slots[j].key) = Home(tbl, tbl.slots[j].key)
      BY <1>12, <3>4 DEF h
    <3>7. ASSUME NEW g \in Slots(tbl), Follows(new, g, j) PROVE g = i
      <4>1. CASE g = e /\ Follows(tbl, n, j)
        <5>1. o = n
          BY <1>3, <3>2, <4>1
        <5> QED
          BY <3>1, <4>1, <5>1
      <4>2. CASE g \in Taken(tbl) \ {e, n} /\ Follows(tbl, g, j)
        BY <3>1, <3>2, <4>2
      <4> QED
        BY <2>1, <3>7, <4>1, <4>2
    <3> QED
      BY <3>2, <3>4, <3>5, <3>6, <3>7
  <2> QED
    BY <1>9, <2>2 DEF LinksAgree
<1>16. AtHome(new)
  <2>1. ASSUME NEW g \in Slots(tbl) \ {n}, NEW S \in SUBSET Slots(new), g \in S, Closed(new, S)
        PROVE  \A i \in Chain(tbl, g) \ {n} : i \in S
    <3> DEFINE T == {i \in Slots(tbl) : IF i = n THEN e \in S ELSE i \in S}
    <3>1. Closed(tbl, T)
      <4>1. ASSUME NEW i \in T, i \in Taken(tbl), tbl.slots[i].next # Sentinel
            PROVE  tbl.slots[i].next \in T
        <5>1. tbl.slots[i].next \in Slots(tbl) /\ Follows(tbl, i, tbl.slots[i].next)
          BY <1>2, <4>1 DEF Follows
        <5>2. CASE i = e
          BY <1>3, <1>5, <4>1, <5>2 DEF n
        <5>3. CASE i = n
          <6>1. e \in S
            BY <4>1, <5>3
          <6>2. tbl.slots[n].next \in S
            BY <1>4, <1>5, <1>9, <1>10, <2>1, <4>1, <5>3, <6>1 DEF Closed
          <6>3. tbl.slots[n].next # n
            BY <1>3, <1>4, <1>5, <5>1, <5>3
          <6> QED
            BY <5>1, <5>3, <6>2, <6>3
        <5>4. CASE i # e /\ i # n
          <6>1. tbl.slots[i].next \in S
            BY <1>9, <1>10, <2>1, <4>1, <5>4 DEF Closed
          <6>2. tbl.slots[i].next # n
            BY <1>2, <1>4, <4>1, <5>1, <5>4
          <6> QED
            BY <5>1, <6>1, <6>2
        <5> QED
          BY <5>2, <5>3, <5>4
      <4> QED
        BY <4>1 DEF Closed
    <3>2. g \in T /\ T \subseteq Slots(tbl)
      BY <2>1
    <3>3. Chain(tbl, g) \subseteq T
      BY <3>1, <3>2, ChainWithin
    <3> QED
      BY <3>3
  <2>2. ASSUME NEW i \in Taken(tbl)
        PROVE  /\ Home(tbl, tbl.slots[i].key) \in Slots(tbl) \ {n}
               /\ i \in Chain(tbl, Home(tbl, tbl.slots[i].key))
    <3>1. Home(tbl, tbl.slots[i].key) # n
      BY <1>4, HeadTaken
    <3> QED
      BY <1>1, <3>1, TableFacts DEF AtHome
  <2>3. ASSUME NEW i \in Taken(new) PROVE i \in Chain(new, Home(new, new.slots[i].key))
    <3>1. Home(new, new.slots[i].key) = Home(tbl, tbl.slots[i].key) /\ i \in Taken(tbl)
      BY <1>9, <1>12 DEF h
    <3>2. i \in Slots(new) /\ i # n
      BY <1>2, <1>9
    <3> QED
      BY <2>1, <2>2, <3>1, <3>2 DEF Chain
  <2> QED
    BY <2>3 DEF AtHome
<1>17. \A i \in Taken(new) :
          new.slots[i].key = IF i = e THEN tbl.slots[n].key ELSE tbl.slots[i].key
  BY <1>9, <1>10
<1>18. Good(new)
  BY <1>9, <1>14, <1>15, <1>16 DEF Good
<1> QED
  BY <1>4, <1>9, <1>13, <1>17, <1>18 DEF Removed, new, n

\* The entry is the last of its chain: its predecessor, if it has one, becomes it.
LEMMA EraseTail ==
  ASSUME NEW tbl, Good(tbl), NEW e \in Taken(tbl), tbl.slots[e].next = Sentinel
  PROVE  Removed(tbl, Erase(tbl, e), e)
<1> DEFINE h == Home(tbl, tbl.slots[e].key)
           new == Erase(tbl, e)
<1>1. IsTable(tbl) /\ KeysOnce(tbl) /\ LinksAgree(tbl) /\ AtHome(tbl)
  BY DEF Good
<1>2. \A i \in Taken(tbl) : /\ tbl.slots[i].key \in Keys /\ i \in Slots(tbl)
                            /\ tbl.slots[i] = Entry(tbl.slots[i].key, tbl.slots[i].next)
                            /\ tbl.slots[i].next \in Slots(tbl) \cup {Sentinel}
  BY <1>1, TableFacts
<1>3. \A j \in Keys : \A n : /\ Entry(j, n).key = j /\ Entry(j, n).next = n
                             /\ n \in Nat \cup {Sentinel} => Entry(j, n) # Vacant
  BY ScatterTableAssumption DEF Entry
<1>4. Slots(tbl) \subseteq Nat /\ e \in Slots(tbl)
  BY <1>1, TableFacts
<1>5. PICK s \in [Slots(tbl) -> SlotValue(tbl.capacity)] :
         /\ new = [capacity |-> tbl.capacity, free |-> tbl.free + 1, good |-> tbl.good,
                   slots |-> s]
         /\ s[e] = Vacant
         /\ \A i \in Slots(tbl) \ Taken(tbl) : s[i] = Vacant
         /\ \A i \in Taken(tbl) \ {e} :
                s[i] = Entry(tbl.slots[i].key, IF tbl.slots[i].next = e THEN Sentinel
                                               ELSE tbl.slots[i].next)
  <2>1. CASE h = e
    <3> DEFINE s == [tbl.slots EXCEPT ![e] = Vacant]
    <3>1. new = [tbl EXCEPT !.free = tbl.free + 1, !.slots = s]
      <4>1. new = [[tbl EXCEPT !.free = @ + 1] EXCEPT !.slots[e] = Vacant]
        BY <2>1 DEF Erase
      <4> HIDE DEF new
      <4>2. tbl = [capacity |-> tbl.capacity, free |-> tbl.free, good |-> tbl.good,
                   slots |-> tbl.slots]
        BY <1>1 DEF IsTable
      <4>3. [[tbl EXCEPT !.free = @ + 1] EXCEPT !.slots[e] = Vacant]
              = [tbl EXCEPT !.free = tbl.free + 1, !.slots = s]
        BY <4>2
      <4> QED
        BY <4>1, <4>3
    <3>2. new = [capacity |-> tbl.capacity, free |-> tbl.free + 1, good |-> tbl.good,
                 slots |-> s]
      <4> HIDE DEF s, new
      <4> QED
        BY <1>1, <3>1, TableExcept
    <3> HIDE DEF new
    <3>3. /\ s \in [Slots(tbl) -> SlotValue(tbl.capacity)] /\ s[e] = Vacant
          /\ \A i \in Slots(tbl) \ {e} : s[i] = tbl.slots[i]
      BY <1>1, <1>4 DEF IsTable, SlotValue
    <3>4. \A i \in Taken(tbl) : tbl.slots[i].next # e
      <4>1. \A i \in Slots(tbl) : ~Follows(tbl, i, e)
        BY <1>1, <1>4, <2>1 DEF LinksAgree
      <4>2. e # Sentinel
        BY <1>4, ScatterTableAssumption
      <4> QED
        BY <1>2, <4>1, <4>2 DEF Follows
    <3> HIDE DEF s
    <3>5. \A i \in Taken(tbl) \ {e} :
             s[i] = Entry(tbl.slots[i].key, IF tbl.slots[i].next = e THEN Sentinel
                                            ELSE tbl.slots[i].next)
      BY <1>2, <3>3, <3>4
    <3>6. \A i \in Slots(tbl) \ Taken(tbl) : s[i] = Vacant
      BY <3>3 DEF Taken
    <3> QED
      BY <3>2, <3>3, <3>5, <3>6
  <2>2. CASE h # e
    <3> DEFINE p == Before(tbl, h, e)
               s == [tbl.slots EXCEPT ![p].next = Sentinel, ![e] = Vacant]
    <3>1. /\ p \in Taken(tbl) \ {e} /\ tbl.slots[p].next = e
          /\ \A j \in Taken(tbl) : tbl.slots[j].next = e => j = p
      BY <2>2, BeforeFacts
    <3>2. new = [tbl EXCEPT !.free = tbl.free + 1, !.slots = s]
      <4>1. new = [[tbl EXCEPT !.free = @ + 1] EXCEPT !.slots[p].next = Sentinel,
                                                      !.slots[e] = Vacant]
        BY <2>2 DEF Erase
      <4> HIDE DEF new, p
      <4>2. tbl = [capacity |-> tbl.capacity, free |-> tbl.free, good |-> tbl.good,
                   slots |-> tbl.slots]
        BY <1>1 DEF IsTable
      <4>3. [[tbl EXCEPT !.free = @ + 1] EXCEPT !.slots[p].next = Sentinel,
                                                !.slots[e] = Vacant]
              = [tbl EXCEPT !.free = tbl.free + 1, !.slots = s]
        BY <4>2
      <4> QED
        BY <4>1, <4>3
    <3>3. new = [capacity |-> tbl.capacity, free |-> tbl.free + 1, good |-> tbl.good,
                 slots |-> s]
      <4> HIDE DEF s, new
      <4> QED
        BY <1>1, <3>2, TableExcept
    <3> HIDE DEF new, p
    <3>4. s = [tbl.slots EXCEPT ![p] = Entry(tbl.slots[p].key, Sentinel), ![e] = Vacant]
      <4>1. [Entry(tbl.slots[p].key, e) EXCEPT !.next = Sentinel]
              = Entry(tbl.slots[p].key, Sentinel)
        BY DEF Entry
      <4>2. tbl.slots[p] = Entry(tbl.slots[p].key, e)
        BY <1>2, <3>1
      <4>3. s = [tbl.slots EXCEPT ![p] = [tbl.slots[p] EXCEPT !.next = Sentinel],
                                  ![e] = Vacant]
        OBVIOUS
      <4> QED
        BY <4>1, <4>2, <4>3
    <3>5. Entry(tbl.slots[p].key, Sentinel) \in SlotValue(tbl.capacity)
      BY <1>2, <3>1 DEF SlotValue, Entry
    <3>6. /\ s \in [Slots(tbl) -> SlotValue(tbl.capacity)] /\ s[e] = Vacant
          /\ s[p] = Entry(tbl.slots[p].key, Sentinel)
          /\ \A i \in Slots(tbl) \ {e, p} : s[i] = tbl.slots[i]
      BY <1>1, <1>2, <1>4, <3>1, <3>4, <3>5 DEF IsTable, SlotValue
    <3> HIDE DEF s
    <3>7. \A i \in Taken(tbl) \ {e} :
             s[i] = Entry(tbl.slots[i].key, IF tbl.slots[i].next = e THEN Sentinel
                                            ELSE tbl.slots[i].next)
      BY <1>2, <3>1, <3>6
    <3>8. \A i \in Slots(tbl) \ Taken(tbl) : s[i] = Vacant
      BY <3>1, <3>6 DEF Taken
    <3> QED
      BY <3>3, <3>6, <3>7, <3>8
  <2> QED
    BY <2>1, <2>2
<1> HIDE DEF new
<1>6. \A i \in Slots(tbl) : s[i] # Vacant <=> i \in Taken(tbl) \ {e}
  <2>1. \A i \in Taken(tbl) \ {e} : s[i] # Vacant
    <3> TAKE i \in Taken(tbl) \ {e}
    <3>1. tbl.slots[i].key \in Keys /\ tbl.slots[i].next \in Nat \cup {Sentinel}
      BY <1>2, <1>4
    <3> QED
      BY <1>3, <1>5, <3>1
  <2> QED
    BY <1>5, <2>1
<1>7. IsTable(new) /\ Slots(new) = Slots(tbl) /\ Taken(new) = Taken(tbl) \ {e}
  BY <1>1, <1>5, <1>6, OneLessTaken
<1>8. /\ new.capacity = tbl.capacity
      /\ \A i \in Taken(new) :
             /\ new.slots[i].key = tbl.slots[i].key
             /\ new.slots[i].next = IF tbl.slots[i].next = e THEN Sentinel
                                    ELSE tbl.slots[i].next
  BY <1>2, <1>3, <1>5, <1>7
<1>9. \A i \in Taken(new) : Home(new, new.slots[i].key) = Home(tbl, tbl.slots[i].key)
  BY <1>8 DEF Home
<1>10. Held(new) = Held(tbl) \ {tbl.slots[e].key}
  BY <1>1, <1>7, <1>8 DEF Held, KeysOnce
<1>11. KeysOnce(new)
  BY <1>1, <1>7, <1>8 DEF KeysOnce
<1>12. LinksAgree(new)
  <2>1. \A i, n \in Slots(tbl) : Follows(new, i, n) => Follows(tbl, i, n) /\ n # e
    BY <1>7, <1>8 DEF Follows
  <2>2. ASSUME NEW i \in Slots(tbl), NEW n \in Slots(tbl), Follows(new, i, n)
        PROVE  /\ n \in Taken(new)
               /\ n # Home(new, new.slots[i].key)
               /\ Home(new, new.slots[n].key) = Home(new, new.slots[i].key)
               /\ \A j \in Slots(tbl) : Follows(new, j, n) => j = i
    <3>1. /\ n \in Taken(tbl) /\ n # Home(tbl, tbl.slots[i].key) /\ n # e
          /\ Home(tbl, tbl.slots[n].key) = Home(tbl, tbl.slots[i].key)
          /\ \A j \in Slots(tbl) : Follows(tbl, j, n) => j = i
      BY <1>1, <2>1, <2>2 DEF LinksAgree
    <3>2. i \in Taken(new) /\ n \in Taken(new)
      BY <1>7, <2>2, <3>1 DEF Follows
    <3> QED
      BY <1>9, <2>1, <3>1, <3>2
  <2> QED
    BY <1>7, <2>2 DEF LinksAgree
<1>13. AtHome(new)
  <2>1. ASSUME NEW i \in Taken(new), NEW S \in SUBSET Slots(new),
               Home(tbl, tbl.slots[i].key) \in S, Closed(new, S)
        PROVE  i \in S
    <3>1. Closed(tbl, S \cup {e})
      <4>1. ASSUME NEW j \in S \cup {e}, j \in Taken(tbl), tbl.slots[j].next # Sentinel
            PROVE  tbl.slots[j].next \in S \cup {e}
        <5>1. j # e
          BY <4>1
        <5>2. tbl.slots[j].next # e => new.slots[j].next = tbl.slots[j].next
          BY <1>7, <1>8, <4>1, <5>1
        <5> QED
          BY <1>7, <2>1, <4>1, <5>1, <5>2 DEF Closed
      <4> QED
        BY <4>1 DEF Closed
    <3>2. Chain(tbl, Home(tbl, tbl.slots[i].key)) \subseteq S \cup {e}
      BY <1>4, <1>7, <2>1, <3>1, ChainWithin
    <3> QED
      BY <1>1, <1>7, <2>1, <3>2 DEF AtHome
  <2>2. ASSUME NEW i \in Taken(new) PROVE i \in Chain(new, Home(new, new.slots[i].key))
    BY <1>2, <1>7, <1>9, <2>1, <2>2 DEF Chain
  <2> QED
    BY <2>2 DEF AtHome
<1>14. Good(new)
  BY <1>7, <1>11, <1>12, <1>13 DEF Good
<1> QED
  BY <1>7, <1>8, <1>10, <1>14 DEF Removed, new

LEMMA EraseRemoves ==
  ASSUME NEW tbl, Good(tbl), NEW e \in Taken(tbl)
  PROVE  Removed(tbl, Erase(tbl, e), e)
BY EraseInside, EraseTail

-----------------------------------------------------------------------------
(***************************************************************************)
(* The inductive invariant, and what a step does to the keys.  In an erase *)
(* loop nothing from the cursor on has been visited.                       *)
(***************************************************************************)
SweepAhead(t) ==
    cursor[t] # NoSlot =>
        /\ cursor[t] \in Taken(table[t])
        /\ \A i \in Taken(table[t]) : i >= cursor[t] => table[t].slots[i].key \notin visited[t]

IInv ==
    /\ table = [t \in Tables |-> table[t]]
    /\ cursor \in [Tables -> Nat \cup {NoSlot}]
    /\ visited \in [Tables -> SUBSET Keys]
    /\ failed \in BOOLEAN
    /\ \A t \in Tables : Good(table[t]) /\ SweepAhead(t)

Contents == [t \in Tables |-> Held(table[t])]

LEMMA SeekFacts ==
  ASSUME NEW tbl, Good(tbl), NEW i \in Nat, Seek(tbl, i) # NoSlot
  PROVE  Seek(tbl, i) \in Taken(tbl) /\ Seek(tbl, i) >= i
<1> DEFINE ahead == {j \in Taken(tbl) : j >= i}
<1>1. ahead \subseteq Nat
  BY TableFacts DEF Good
<1>2. ahead # {} /\ Seek(tbl, i) = Min(ahead)
  BY DEF Seek
<1>3. Min(ahead) \in ahead
  BY <1>1, <1>2, MinFacts
<1> QED
  BY <1>2, <1>3

\* A call that invalidates iterators.
LEMMA BecomeFacts ==
  ASSUME IInv, NEW t \in Tables, NEW new, Good(new), Usable(t), Become(t, new)
  PROVE  IInv' /\ Contents' = [Contents EXCEPT ![t] = Held(new)]
<1>1. /\ table' = [table EXCEPT ![t] = new]
      /\ cursor' = cursor /\ visited' = visited /\ failed' = failed /\ cursor[t] = NoSlot
  BY DEF Become, Usable
<1>2. \A u \in Tables : table'[u] = IF u = t THEN new ELSE table[u]
  BY <1>1 DEF IInv
<1>3. \A u \in Tables : Good(table'[u])
  BY <1>2 DEF IInv
<1>4. \A u \in Tables : SweepAhead(u)'
  BY <1>1, <1>2 DEF IInv, SweepAhead
<1>5. table' = [u \in Tables |-> table'[u]]
  BY <1>1 DEF IInv
<1>6. Contents' = [Contents EXCEPT ![t] = Held(new)]
  BY <1>2 DEF Contents
<1> QED
  BY <1>1, <1>3, <1>4, <1>5, <1>6 DEF IInv

LEMMA FailFacts ==
  ASSUME IInv, Fail
  PROVE  IInv' /\ Contents' = Contents
BY DEF IInv, Fail, Contents, SweepAhead

LEMMA InsertKeyFacts ==
  ASSUME IInv, NEW t \in Tables, NEW k \in Keys, InsertKey(t, k)
  PROVE  /\ IInv'
         /\ \/ Contents' = Contents
            \/ Contents' = [Contents EXCEPT ![t] = @ \cup {k}]
<1> DEFINE tbl == table[t]
           grows == tbl.free = 0 /\ Find(tbl, k) = NoSlot
           count == IF grows THEN tbl.capacity + 1 ELSE 0
           room == Reserve(tbl, count)
           new == Insert(room, k)
<1>1. Good(tbl)
  BY DEF IInv
<1>2. CASE ~CanReserve(count)
  BY <1>2, FailFacts DEF InsertKey
<1>3. CASE CanReserve(count)
  <2>1. tbl.capacity \in Nat /\ tbl.free \in 0..tbl.capacity /\ count \in Nat /\ Size(tbl) \in Nat
    BY <1>1, TableFacts, SizeFacts DEF Good
  <2>2. /\ Good(room) /\ Held(room) = Held(tbl) /\ count <= room.capacity
        /\ tbl.capacity <= room.capacity /\ Size(room) <= Size(tbl)
    <3> HIDE DEF tbl, count
    <3> QED
      BY <1>1, <1>3, <2>1, ReserveFacts
  <2>3. k \notin Held(room) => room.free > 0
    <3>1. room.capacity \in Nat /\ room.free \in Nat
      BY <2>2, TableFacts, SizeFacts DEF Good
    <3>2. CASE grows
      <4>1. tbl.capacity + 1 <= room.capacity /\ Size(tbl) = tbl.capacity
        BY <2>1, <2>2, <3>2 DEF Size
      <4> HIDE DEF room, tbl
      <4> QED
        BY <2>1, <2>2, <3>1, <4>1 DEF Size
    <3>3. CASE ~grows
      <4>1. room = tbl
        BY <2>1, <3>3 DEF Reserve
      <4>2. tbl.free = 0 => k \in Held(tbl)
        BY <1>1, <3>3, FindFacts
      <4> HIDE DEF room, tbl
      <4> QED
        BY <2>1, <4>1, <4>2
    <3> QED
      BY <3>2, <3>3
  <2> HIDE DEF room
  <2>4. Good(new) /\ Held(new) = Held(tbl) \cup {k}
    BY <2>2, <2>3, InsertAdds DEF Added
  <2>5. Usable(t) /\ Become(t, new)
    BY <1>3 DEF InsertKey, room
  <2> HIDE DEF new
  <2>6. IInv' /\ Contents' = [Contents EXCEPT ![t] = Held(new)]
    BY <2>4, <2>5, BecomeFacts
  <2>7. Contents[t] = Held(tbl)
    BY DEF Contents
  <2> QED
    BY <2>4, <2>6, <2>7
<1> QED
  BY <1>2, <1>3

LEMMA EraseKeyFacts ==
  ASSUME IInv, NEW t \in Tables, NEW k \in Keys, EraseKey(t, k)
  PROVE  IInv' /\ Contents' = [Contents EXCEPT ![t] = @ \ {k}]
<1> DEFINE tbl == table[t]
           e == Find(tbl, k)
           new == Erase(tbl, e)
<1>1. Good(tbl)
  BY DEF IInv
<1>2. e \in Taken(tbl) /\ tbl.slots[e].key = k
  BY <1>1, FindFacts DEF EraseKey
<1>3. Good(new) /\ Held(new) = Held(tbl) \ {k}
  BY <1>1, <1>2, EraseRemoves DEF Removed
<1>4. Usable(t) /\ Become(t, new)
  BY DEF EraseKey
<1> HIDE DEF new
<1>5. IInv' /\ Contents' = [Contents EXCEPT ![t] = Held(new)]
  BY <1>3, <1>4, BecomeFacts
<1> QED
  BY <1>3, <1>5 DEF Contents

LEMMA ReserveForFacts ==
  ASSUME IInv, NEW t \in Tables, NEW count \in Nat, ReserveFor(t, count)
  PROVE  IInv' /\ Contents' = Contents
<1>1. CASE ~CanReserve(count)
  BY <1>1, FailFacts DEF ReserveFor
<1>2. CASE CanReserve(count)
  <2> DEFINE new == Reserve(table[t], count)
  <2>1. Good(new) /\ Held(new) = Held(table[t])
    BY <1>2, ReserveFacts DEF IInv
  <2>2. Usable(t) /\ Become(t, new)
    BY <1>2 DEF ReserveFor
  <2> HIDE DEF new
  <2>3. IInv' /\ Contents' = [Contents EXCEPT ![t] = Held(new)]
    BY <2>1, <2>2, BecomeFacts
  <2> QED
    BY <2>1, <2>3 DEF Contents
<1> QED
  BY <1>1, <1>2

LEMMA EmptyingFacts ==
  ASSUME IInv, NEW t \in Tables, ClearAll(t) \/ Rebuild(t)
  PROVE  IInv' /\ Contents' = [Contents EXCEPT ![t] = {}]
<1>1. PICK new : Usable(t) /\ Become(t, new) /\ Good(new) /\ Held(new) = {}
  <2>1. CASE ClearAll(t)
    BY <2>1, ClearFacts DEF ClearAll, IInv
  <2>2. CASE Rebuild(t)
    BY <2>2, FreshIsGood DEF Rebuild
  <2> QED
    BY <2>1, <2>2
<1> QED
  BY <1>1, BecomeFacts

LEMMA InsertFromFacts ==
  ASSUME IInv, NEW t \in Tables, NEW u \in Tables, InsertFrom(t, u)
  PROVE  /\ IInv' /\ t # u
         /\ \/ Contents' = Contents
            \/ Contents' = [Contents EXCEPT ![t] = @ \cup Contents[u]]
<1> DEFINE count == Size(table[t]) + Size(table[u])
           new == InsertRange(table[t], table[u])
<1>1. Usable(t) /\ t # u
  BY DEF InsertFrom
<1>2. CASE ~CanReserve(count)
  BY <1>1, <1>2, FailFacts DEF InsertFrom
<1>3. CASE CanReserve(count)
  <2>1. Good(new) /\ Held(new) = Held(table[t]) \cup Held(table[u])
    BY <1>3, InsertRangeFacts DEF IInv
  <2>2. Become(t, new)
    BY <1>3 DEF InsertFrom
  <2> HIDE DEF new
  <2>3. IInv' /\ Contents' = [Contents EXCEPT ![t] = Held(new)]
    BY <1>1, <2>1, <2>2, BecomeFacts
  <2> QED
    BY <1>1, <2>1, <2>3 DEF Contents
<1> QED
  BY <1>2, <1>3

LEMMA CopyFromFacts ==
  ASSUME IInv, NEW t \in Tables, NEW u \in Tables, CopyFrom(t, u)
  PROVE  IInv' /\ t # u /\ Contents' = [Contents EXCEPT ![t] = Contents[u]]
<1> DEFINE empty == Clear(table[t])
           new == InsertRange(empty, table[u])
<1>1. Usable(t) /\ t # u /\ Become(t, new) /\ Good(table[u])
  BY DEF CopyFrom, IInv
<1>2. Good(empty) /\ Held(empty) = {} /\ Size(empty) = 0
  BY ClearFacts DEF IInv
<1>3. CanReserve(Size(empty) + Size(table[u]))
  <2>1. /\ Size(table[u]) \in Nat /\ Size(table[u]) <= table[u].capacity
        /\ table[u].capacity \in Nat /\ table[u].capacity <= MaxCapacity
    <3>1. table[u].capacity \in Capacities \cup {0} /\ IsTable(table[u])
      BY <1>1 DEF Good, IsTable
    <3>2. MaxCapacity \in Nat
      <4>1. \A p \in PowersOfTwo : p \in Nat
        BY DEF PowersOfTwo
      <4> QED
        BY <4>1, ScatterTableAssumption
    <3>3. table[u].capacity \in Nat /\ table[u].capacity <= MaxCapacity
      BY <3>1, <3>2, CapacityFacts
    <3>4. table[u].free \in 0..table[u].capacity
      BY <3>1, SizeFacts
    <3> QED
      BY <3>3, <3>4 DEF Size
  <2> HIDE DEF empty
  <2>2. MaxCapacity \in Nat
    <3>1. \A p \in PowersOfTwo : p \in Nat
      BY DEF PowersOfTwo
    <3> QED
      BY <3>1, ScatterTableAssumption
  <2> QED
    BY <1>2, <2>1, <2>2 DEF CanReserve
<1> HIDE DEF empty
<1>4. Good(new) /\ Held(new) = Held(table[u])
  <2>1. Good(new) /\ Held(new) = Held(empty) \cup Held(table[u])
    BY <1>1, <1>2, <1>3, InsertRangeFacts
  <2> HIDE DEF new
  <2> QED
    BY <1>2, <2>1
<1> HIDE DEF new
<1>5. IInv' /\ Contents' = [Contents EXCEPT ![t] = Held(new)]
  BY <1>1, <1>4, BecomeFacts
<1> QED
  BY <1>1, <1>4, <1>5 DEF Contents

LEMMA MoveFromFacts ==
  ASSUME IInv, NEW t \in Tables, NEW u \in Tables, MoveFrom(t, u)
  PROVE  IInv' /\ t # u /\ Contents' = [Contents EXCEPT ![t] = Contents[u], ![u] = {}]
<1>1. /\ table' = [table EXCEPT ![t] = table[u], ![u] = Fresh(0)]
      /\ cursor' = cursor /\ visited' = visited /\ failed' = failed
      /\ cursor[t] = NoSlot /\ cursor[u] = NoSlot /\ t # u
  BY DEF MoveFrom, Usable
<1>2. Good(Fresh(0)) /\ Held(Fresh(0)) = {}
  BY FreshIsGood
<1>3. \A v \in Tables : table'[v] = IF v = u THEN Fresh(0) ELSE IF v = t THEN table[u]
                                    ELSE table[v]
  BY <1>1 DEF IInv
<1>4. \A v \in Tables : Good(table'[v])
  BY <1>2, <1>3 DEF IInv
<1>5. \A v \in Tables : SweepAhead(v)'
  BY <1>1, <1>3 DEF IInv, SweepAhead
<1>6. table' = [v \in Tables |-> table'[v]]
  BY <1>1 DEF IInv
<1>7. Contents' = [Contents EXCEPT ![t] = Contents[u], ![u] = {}]
  <2> DEFINE after == [Contents EXCEPT ![t] = Contents[u], ![u] = {}]
  <2>1. \A v \in Tables : Held(table'[v]) = after[v]
    <3>1. ASSUME NEW v \in Tables
          PROVE  after[v] = IF v = u THEN {} ELSE IF v = t THEN Held(table[u]) ELSE Held(table[v])
      BY DEF Contents
    <3>2. ASSUME NEW v \in Tables, v = u PROVE Held(table'[v]) = {}
      BY <1>2, <1>3, <3>2
    <3>3. ASSUME NEW v \in Tables, v # u, v = t PROVE Held(table'[v]) = Held(table[u])
      BY <1>3, <3>3
    <3>4. ASSUME NEW v \in Tables, v # u, v # t PROVE Held(table'[v]) = Held(table[v])
      BY <1>3, <3>4
    <3> HIDE DEF after
    <3> QED
      BY <3>1, <3>2, <3>3, <3>4
  <2>2. after = [v \in Tables |-> after[v]]
    BY DEF Contents
  <2>3. Contents' = [v \in Tables |-> Held(table'[v])]
    BY DEF Contents
  <2> HIDE DEF after
  <2>4. Contents' = after
    BY <2>1, <2>2, <2>3
  <2> QED
    BY <2>4 DEF after
<1> QED
  BY <1>1, <1>4, <1>5, <1>6, <1>7 DEF IInv

\* What the three steps of an erase loop have in common: the loop moves on to
\* a slot behind the one it was at, or ends.
LEMMA SweepOn ==
  ASSUME IInv, NEW t \in Tables, cursor[t] # NoSlot, NEW new, Good(new),
         \A i \in Taken(new) : i > cursor[t] =>
             i \in Taken(table[t]) /\ new.slots[i].key = table[t].slots[i].key,
         NEW key, key = table[t].slots[cursor[t]].key,
         table' = [table EXCEPT ![t] = new],
         visited' = [visited EXCEPT ![t] = @ \cup {key}],
         cursor' = [cursor EXCEPT ![t] = Seek(new, @ + 1)],
         failed' = failed
  PROVE  IInv'
<1> DEFINE c == cursor[t]
           d == Seek(new, c + 1)
<1>1. c \in Taken(table[t]) /\ c \in Nat /\ key \in Keys /\ Good(table[t])
  <2>1. Good(table[t]) /\ SweepAhead(t)
    BY DEF IInv
  <2> QED
    BY <2>1, TableFacts DEF SweepAhead, Good
<1>2. /\ \A u \in Tables : table'[u] = IF u = t THEN new ELSE table[u]
      /\ \A u \in Tables : cursor'[u] = IF u = t THEN d ELSE cursor[u]
      /\ \A u \in Tables : visited'[u] = IF u = t THEN visited[t] \cup {key} ELSE visited[u]
  BY DEF IInv
<1>3. d # NoSlot => d \in Taken(new) /\ d >= c + 1
  BY <1>1, SeekFacts
<1>4. Taken(new) \subseteq Nat
  BY TableFacts DEF Good
<1>5. SweepAhead(t)'
  <2>1. SUFFICES ASSUME d # NoSlot, NEW i \in Taken(new), i >= d
                 PROVE  new.slots[i].key \notin visited[t] \cup {key}
    BY <1>2, <1>3 DEF SweepAhead
  <2>2. i > c /\ i >= c /\ i # c
    <3> HIDE DEF d, c
    <3> QED
      BY <1>1, <1>3, <1>4, <2>1
  <2>3. i \in Taken(table[t]) /\ new.slots[i].key = table[t].slots[i].key
    BY <2>2
  <2>4. table[t].slots[i].key \notin visited[t]
    BY <2>2, <2>3 DEF IInv, SweepAhead
  <2>5. table[t].slots[i].key # key
    BY <1>1, <2>2, <2>3 DEF Good, KeysOnce
  <2> QED
    BY <2>3, <2>4, <2>5
<1>6. \A u \in Tables : u # t => SweepAhead(u)'
  BY <1>2 DEF IInv, SweepAhead
<1>7. \A u \in Tables : Good(table'[u])
  BY <1>2 DEF IInv
<1>8. /\ table' = [u \in Tables |-> table'[u]]
      /\ failed' \in BOOLEAN
      /\ visited' \in [Tables -> SUBSET Keys]
  BY <1>1 DEF IInv
<1>9. cursor' \in [Tables -> Nat \cup {NoSlot}]
  <2>1. d \in Nat \cup {NoSlot}
    BY <1>3, <1>4
  <2> QED
    BY <2>1 DEF IInv
<1> QED
  BY <1>5, <1>6, <1>7, <1>8, <1>9 DEF IInv

LEMMA SweepBeginFacts ==
  ASSUME IInv, NEW t \in Tables, SweepBegin(t)
  PROVE  IInv' /\ Contents' = Contents
<1> DEFINE d == Seek(table[t], 0)
<1>1. /\ table' = table /\ failed' = failed
      /\ cursor' = [cursor EXCEPT ![t] = d]
      /\ visited' = [visited EXCEPT ![t] = {}]
  BY DEF SweepBegin
<1>2. d # NoSlot => d \in Taken(table[t]) /\ d \in Nat
  <2>1. Good(table[t])
    BY DEF IInv
  <2> QED
    BY <2>1, SeekFacts, TableFacts DEF Good
<1>3. /\ \A u \in Tables : cursor'[u] = IF u = t THEN d ELSE cursor[u]
      /\ \A u \in Tables : visited'[u] = IF u = t THEN {} ELSE visited[u]
  BY <1>1 DEF IInv
<1> HIDE DEF d
<1>4. SweepAhead(t)'
  BY <1>1, <1>2, <1>3 DEF SweepAhead
<1>5. \A u \in Tables : u # t => SweepAhead(u)'
  BY <1>1, <1>3 DEF IInv, SweepAhead
<1>6. /\ cursor' \in [Tables -> Nat \cup {NoSlot}]
      /\ visited' \in [Tables -> SUBSET Keys]
  BY <1>1, <1>2 DEF IInv
<1> QED
  BY <1>1, <1>4, <1>5, <1>6 DEF IInv, Contents

LEMMA SweepKeepFacts ==
  ASSUME IInv, NEW t \in Tables, SweepKeep(t)
  PROVE  IInv' /\ Contents' = Contents
<1>1. /\ cursor[t] # NoSlot /\ table' = table /\ failed' = failed
      /\ visited' = [visited EXCEPT ![t] = @ \cup {table[t].slots[cursor[t]].key}]
      /\ cursor' = [cursor EXCEPT ![t] = Seek(table[t], @ + 1)]
  BY DEF SweepKeep
<1>2. Good(table[t]) /\ table' = [table EXCEPT ![t] = table[t]]
  BY <1>1 DEF IInv
<1>3. IInv'
  BY <1>1, <1>2, SweepOn
<1> QED
  BY <1>1, <1>3 DEF Contents

\* Erasing moves the next entry of the chain into the cursor's slot or none,
\* so behind the cursor every entry stays where it was.
LEMMA SweepEraseFacts ==
  ASSUME IInv, NEW t \in Tables, SweepErase(t)
  PROVE  /\ IInv'
         /\ \E k \in Keys : Contents' = [Contents EXCEPT ![t] = @ \ {k}]
<1> DEFINE tbl == table[t]
           c == cursor[t]
           key == tbl.slots[c].key
           new == Erase(tbl, c)
<1>1. c # NoSlot /\ Good(tbl) /\ c \in Taken(tbl) /\ key \in Keys /\ c \in Nat
  <2>1. c # NoSlot /\ Good(tbl) /\ SweepAhead(t)
    BY DEF SweepErase, IInv
  <2> QED
    BY <2>1, TableFacts DEF SweepAhead, Good
<1>2. Removed(tbl, new, c)
  BY <1>1, EraseRemoves
<1>3. \A i \in Taken(new) : i > c => i \in Taken(tbl) /\ new.slots[i].key = tbl.slots[i].key
  <2> HIDE DEF new, tbl, c
  <2> QED
    BY <1>1, <1>2 DEF Removed
<1>4. table'[t] = new /\ table' = [table EXCEPT ![t] = new]
  BY DEF SweepErase, IInv
<1>5. /\ visited' = [visited EXCEPT ![t] = @ \cup {key}]
      /\ cursor' = [cursor EXCEPT ![t] = Seek(new, @ + 1)]
      /\ failed' = failed
  BY <1>4 DEF SweepErase
<1>6. Good(new) /\ Held(new) = Held(tbl) \ {key}
  BY <1>2 DEF Removed
<1> HIDE DEF new
<1>7. IInv'
  BY <1>1, <1>3, <1>4, <1>5, <1>6, SweepOn
<1>8. Contents' = [Contents EXCEPT ![t] = Held(new)]
  BY <1>4 DEF Contents, IInv
<1>9. Contents[t] = Held(tbl)
  BY DEF Contents
<1> QED
  BY <1>1, <1>6, <1>7, <1>8, <1>9

-----------------------------------------------------------------------------
(***************************************************************************)
(* Every step keeps the invariant and is a step of the sets of keys.       *)
(***************************************************************************)
LEMMA InitIInv == Init => IInv
<1> SUFFICES ASSUME Init PROVE IInv
  OBVIOUS
<1>1. \A t \in Tables : Good(table[t]) /\ cursor[t] = NoSlot
  BY FreshIsGood DEF Init
<1> QED
  BY <1>1 DEF Init, IInv, SweepAhead

KeyStep ==
    \/ Contents' = Contents
    \/ \E t \in Tables, k \in Keys :
          \/ Contents' = [Contents EXCEPT ![t] = @ \cup {k}]
          \/ Contents' = [Contents EXCEPT ![t] = @ \ {k}]
    \/ \E t \in Tables : Contents' = [Contents EXCEPT ![t] = {}]
    \/ \E t, u \in Tables :
          /\ t # u
          /\ \/ Contents' = [Contents EXCEPT ![t] = @ \cup Contents[u]]
             \/ Contents' = [Contents EXCEPT ![t] = Contents[u]]
             \/ Contents' = [Contents EXCEPT ![t] = Contents[u], ![u] = {}]

LEMMA StepFacts ==
  ASSUME IInv, [Next]_vars
  PROVE  IInv' /\ KeyStep
<1>1. CASE UNCHANGED vars
  BY <1>1 DEF vars, IInv, SweepAhead, Contents, KeyStep
<1>2. ASSUME NEW t \in Tables, NEW k \in Keys, InsertKey(t, k) \/ EraseKey(t, k)
      PROVE  IInv' /\ KeyStep
  BY <1>2, InsertKeyFacts, EraseKeyFacts DEF KeyStep
<1>3. ASSUME NEW t \in Tables, NEW count \in 1..(MaxCapacity + 1), ReserveFor(t, count)
      PROVE  IInv' /\ KeyStep
  <2>1. count \in Nat
    OBVIOUS
  <2> QED
    BY <1>3, <2>1, ReserveForFacts DEF KeyStep
<1>4. ASSUME NEW t \in Tables, ClearAll(t) \/ Rebuild(t)
      PROVE  IInv' /\ KeyStep
  BY <1>4, EmptyingFacts DEF KeyStep
<1>5. ASSUME NEW t \in Tables, SweepBegin(t) \/ SweepErase(t) \/ SweepKeep(t)
      PROVE  IInv' /\ KeyStep
  BY <1>5, SweepBeginFacts, SweepKeepFacts, SweepEraseFacts DEF KeyStep
<1>6. ASSUME NEW t \in Tables, NEW u \in Tables,
             InsertFrom(t, u) \/ CopyFrom(t, u) \/ MoveFrom(t, u)
      PROVE  IInv' /\ KeyStep
  BY <1>6, InsertFromFacts, CopyFromFacts, MoveFromFacts DEF KeyStep
<1> QED
  BY <1>1, <1>2, <1>3, <1>4, <1>5, <1>6 DEF Next

LEMMA SpecIInv == Spec => []IInv
<1>1. IInv /\ [Next]_vars => IInv'
  BY StepFacts
<1> QED
  BY <1>1, InitIInv, PTL DEF Spec

-----------------------------------------------------------------------------
(***************************************************************************)
(* What the invariant says of a table.                                     *)
(***************************************************************************)
LEMMA IInvTypes ==
  ASSUME IInv
  PROVE  TypeOK
<1>1. ASSUME NEW t \in Tables
      PROVE  LET tbl == table[t]
             IN  /\ tbl.capacity \in 0..MaxCapacity
                 /\ tbl.free \in 0..tbl.capacity
                 /\ tbl.good \in 0..tbl.capacity
                 /\ DOMAIN tbl.slots = Slots(tbl)
                 /\ \A i \in Taken(tbl) :
                        /\ tbl.slots[i].key \in Keys
                        /\ tbl.slots[i].next \in Slots(tbl) \cup {Sentinel}
  <2>1. IsTable(table[t])
    BY DEF IInv, Good
  <2>2. MaxCapacity \in Nat
    <3>1. \A p \in PowersOfTwo : p \in Nat
      BY DEF PowersOfTwo
    <3> QED
      BY <3>1, ScatterTableAssumption
  <2>3. table[t].capacity \in 0..MaxCapacity
    BY <2>1, <2>2, CapacityFacts DEF IsTable
  <2>4. table[t].free \in 0..table[t].capacity
    BY <2>1, SizeFacts
  <2>5. table[t].good \in 0..table[t].capacity /\ DOMAIN table[t].slots = Slots(table[t])
    BY <2>1 DEF IsTable
  <2> QED
    BY <2>1, <2>3, <2>4, <2>5, TableFacts
<1> QED
  BY <1>1 DEF TypeOK, IInv

LEMMA IInvFree ==
  ASSUME IInv
  PROVE  FreeExact
<1>1. ASSUME NEW t \in Tables
      PROVE  LET tbl == table[t]
             IN  /\ tbl.free = Cardinality(Slots(tbl) \ Taken(tbl))
                 /\ tbl.capacity \in PowersOfTwo \cup {0}
                 /\ tbl.capacity > 0 => tbl.good < tbl.capacity
  <2>1. IsTable(table[t])
    BY DEF IInv, Good
  <2> QED
    BY <2>1, CapacityFacts DEF IsTable
<1> QED
  BY <1>1, IInvTypes DEF FreeExact

LEMMA IInvChains ==
  ASSUME IInv
  PROVE  ChainsHome
<1> SUFFICES ASSUME NEW t \in Tables
             PROVE  LET tbl == table[t]
                        linked == {i \in Taken(tbl) : tbl.slots[i].next # Sentinel}
                    IN  /\ \A i \in Taken(tbl) : i \in Chain(tbl, Home(tbl, tbl.slots[i].key))
                        /\ \A i \in linked :
                               LET n == tbl.slots[i].next
                                   home == Home(tbl, tbl.slots[i].key)
                               IN  /\ n \in Taken(tbl) \ {home}
                                   /\ Home(tbl, tbl.slots[n].key) = home
                                   /\ \A j \in linked : tbl.slots[j].next = n => j = i
  BY DEF ChainsHome
<1> DEFINE tbl == table[t]
           linked == {i \in Taken(tbl) : tbl.slots[i].next # Sentinel}
<1>1. IsTable(tbl) /\ LinksAgree(tbl) /\ AtHome(tbl)
  BY DEF IInv, Good
<1> HIDE DEF tbl
<1>2. ASSUME NEW i \in linked
      PROVE  /\ tbl.slots[i].next \in Taken(tbl) \ {Home(tbl, tbl.slots[i].key)}
             /\ Home(tbl, tbl.slots[tbl.slots[i].next].key) = Home(tbl, tbl.slots[i].key)
             /\ \A j \in linked : tbl.slots[j].next = tbl.slots[i].next => j = i
  <2>1. i \in Slots(tbl) /\ tbl.slots[i].next \in Slots(tbl) /\ linked \subseteq Slots(tbl)
    BY <1>1, TableFacts
  <2>2. Follows(tbl, i, tbl.slots[i].next)
    BY DEF Follows
  <2>3. \A j \in linked : tbl.slots[j].next = tbl.slots[i].next =>
                              Follows(tbl, j, tbl.slots[i].next)
    BY DEF Follows
  <2> QED
    BY <1>1, <2>1, <2>2, <2>3 DEF LinksAgree
<1>3. \A i \in Taken(tbl) : i \in Chain(tbl, Home(tbl, tbl.slots[i].key))
  BY <1>1 DEF AtHome
<1> QED
  BY <1>2, <1>3 DEF tbl

LEMMA IInvSweep ==
  ASSUME IInv
  PROVE  SweepNeverRevisits
<1> SUFFICES ASSUME NEW t \in Tables, cursor[t] # NoSlot
             PROVE  /\ cursor[t] \in Taken(table[t])
                    /\ table[t].slots[cursor[t]].key \notin visited[t]
  BY DEF SweepNeverRevisits
<1>1. SweepAhead(t) /\ Good(table[t])
  BY DEF IInv
<1>2. cursor[t] \in Taken(table[t]) /\ cursor[t] \in Nat
  BY <1>1, TableFacts DEF SweepAhead, Good
<1> QED
  BY <1>1, <1>2 DEF SweepAhead

\* Types: in every reachable state, for any tables, keys and hash function,
\* no next pointer leaves its array and _free is within it.
THEOREM TypesHold == Spec => []TypeOK
<1>1. IInv => TypeOK
  BY IInvTypes
<1> QED
  BY <1>1, SpecIInv, PTL

\* Every entry can be reached from the home slot of its key and the chains are
\* apart from each other: do_find finds what is there, and the walks to a
\* predecessor in do_erase and do_insert end at the right entry.
THEOREM ChainsLeadHome == Spec => []ChainsHome
<1>1. IInv => ChainsHome
  BY IInvChains
<1> QED
  BY <1>1, SpecIInv, PTL

\* _free counts the vacant slots, so that get_free_entry, which do_insert
\* calls only with _free > 0, ends at one; _capacity is a power of two.
THEOREM FreeCountExact == Spec => []FreeExact
<1>1. IInv => FreeExact
  BY IInvFree
<1> QED
  BY <1>1, SpecIInv, PTL

\* An erase loop comes to no element twice, although do_erase moves elements
\* between slots while it runs.
THEOREM SweepGoesForward == Spec => []SweepNeverRevisits
<1>1. IInv => SweepNeverRevisits
  BY IInvSweep
<1> QED
  BY <1>1, SpecIInv, PTL

-----------------------------------------------------------------------------
(***************************************************************************)
(* A table is a set of keys.                                               *)
(***************************************************************************)
LEMMA ContentsAreFound ==
  ASSUME IInv
  PROVE  [t \in Tables |-> Found(table[t])] = Contents
BY FoundIsHeld DEF IInv, Contents

\* Whatever the hash function: what do_find finds in a table is a set of keys
\* that insert, erase, clear, reserve, copies and moves change as they say;
\* no eviction, splice, erasure or rehash loses or adds another key.
THEOREM TablesAreSets == Spec => ImplementsSets
<1> DEFINE contents == [t \in Tables |-> Found(table[t])]
<1>1. Init => Sets!SetInit
  <2> SUFFICES ASSUME Init PROVE contents = [t \in Tables |-> {}]
    BY DEF Sets!SetInit
  <2>1. contents = Contents
    BY InitIInv, ContentsAreFound
  <2>2. Contents = [t \in Tables |-> {}]
    BY FreshIsGood DEF Init, Contents
  <2> QED
    BY <2>1, <2>2
<1>2. IInv /\ [Next]_vars => [Sets!SetNext]_contents
  <2> SUFFICES ASSUME IInv, [Next]_vars PROVE [Sets!SetNext]_contents
    OBVIOUS
  <2>1. IInv' /\ KeyStep
    BY StepFacts
  <2>2. contents = Contents
    BY ContentsAreFound
  <2>3. contents' = Contents'
    BY <2>1, FoundIsHeld DEF IInv, Contents
  <2>4. CASE Contents' = Contents
    BY <2>2, <2>3, <2>4
  <2>5. ASSUME NEW t \in Tables, NEW k \in Keys,
               \/ Contents' = [Contents EXCEPT ![t] = @ \cup {k}]
               \/ Contents' = [Contents EXCEPT ![t] = @ \ {k}]
        PROVE  Sets!Add(t, k) \/ Sets!Remove(t, k)
    BY <2>2, <2>3, <2>5 DEF Sets!Add, Sets!Remove
  <2>6. ASSUME NEW t \in Tables, Contents' = [Contents EXCEPT ![t] = {}]
        PROVE  Sets!Empty(t)
    BY <2>2, <2>3, <2>6 DEF Sets!Empty
  <2>7. ASSUME NEW t \in Tables, NEW u \in Tables,
               \/ Contents' = [Contents EXCEPT ![t] = @ \cup Contents[u]]
               \/ Contents' = [Contents EXCEPT ![t] = Contents[u]]
               \/ Contents' = [Contents EXCEPT ![t] = Contents[u], ![u] = {}]
        PROVE  Sets!AddAll(t, u) \/ Sets!Copy(t, u) \/ Sets!Move(t, u)
    BY <2>2, <2>3, <2>7 DEF Sets!AddAll, Sets!Copy, Sets!Move
  <2> HIDE DEF contents
  <2> QED
    BY <2>1, <2>4, <2>5, <2>6, <2>7 DEF KeyStep, Sets!SetNext
<1> QED
  BY <1>1, <1>2, SpecIInv, PTL DEF Spec, ImplementsSets, Sets!SetSpec
=============================================================================
