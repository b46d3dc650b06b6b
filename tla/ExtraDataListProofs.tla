------------------------- MODULE ExtraDataListProofs -------------------------
(***************************************************************************)
(* The list, the tail and the bits of ExtraDataList agree for any number   *)
(* of extras, types and readers, and it implements ExtraMap, as long as    *)
(* callers do not remove the last extra of a list.  Walks are described    *)
(* by closed sets of extras, which needs no induction over their length.   *)
(***************************************************************************)
EXTENDS ExtraDataList, TLAPS

USE ExtraDataListAssumption

-----------------------------------------------------------------------------
(***************************************************************************)
(* Walks.                                                                  *)
(***************************************************************************)

\* A walk from a null pointer meets nothing.
LEMMA ReachNil == ASSUME NEW links PROVE Reach(links, Nil) = {}
<1>1. {} \in SUBSET Extras /\ Nil \in {} \cup {Nil} /\ Closed(links, {})
  BY DEF Closed
<1> QED
  BY <1>1 DEF Reach

\* A walk stays inside every closed set it starts in.
LEMMA ReachLeast ==
  ASSUME NEW links, NEW first, NEW S \in SUBSET Extras,
         first \in S \cup {Nil}, Closed(links, S)
  PROVE  Reach(links, first) \subseteq S
  BY DEF Reach

\* A walk meets where it starts, and with an extra the next one.
LEMMA ReachClosed ==
  ASSUME NEW links \in [Extras -> Extras \cup {Nil}], NEW first \in Extras \cup {Nil}
  PROVE  /\ Reach(links, first) \subseteq Extras
         /\ first \in Reach(links, first) \cup {Nil}
         /\ Closed(links, Reach(links, first))
<1>1. Reach(links, first) \subseteq Extras /\ first \in Reach(links, first) \cup {Nil}
  BY DEF Reach
<1>2. ASSUME NEW e \in Reach(links, first) PROVE links[e] \in Reach(links, first) \cup {Nil}
  <2>1. e \in Extras /\ links[e] \in Extras \cup {Nil}
    BY DEF Reach
  <2>2. ASSUME NEW S \in SUBSET Extras, first \in S \cup {Nil}, Closed(links, S)
        PROVE  links[e] \in S \cup {Nil}
    <3>1. e \in S
      BY <2>2 DEF Reach
    <3> QED
      BY <2>2, <3>1 DEF Closed
  <2> QED
    BY <2>1, <2>2 DEF Reach
<1> QED
  BY <1>1, <1>2 DEF Closed

\* A walk meets its first extra and what a walk from the next one meets.
LEMMA ReachUnfold ==
  ASSUME NEW links \in [Extras -> Extras \cup {Nil}], NEW first \in Extras
  PROVE  Reach(links, first) = {first} \cup Reach(links, links[first])
<1> DEFINE rest == Reach(links, links[first])
<1>1. /\ rest \subseteq Extras
      /\ links[first] \in rest \cup {Nil}
      /\ Closed(links, rest)
  BY ReachClosed
<1>2. Closed(links, {first} \cup rest)
  BY <1>1 DEF Closed
<1>3. Reach(links, first) \subseteq {first} \cup rest
  BY <1>1, <1>2, ReachLeast
<1>4. /\ Reach(links, first) \subseteq Extras
      /\ first \in Reach(links, first)
      /\ Closed(links, Reach(links, first))
  BY ReachClosed
<1>5. links[first] \in Reach(links, first) \cup {Nil}
  BY <1>4 DEF Closed
<1>6. rest \subseteq Reach(links, first)
  BY <1>4, <1>5, ReachLeast
<1> QED
  BY <1>3, <1>4, <1>6

\* Links that a walk does not meet do not matter to it.
LEMMA ReachLocal ==
  ASSUME NEW links \in [Extras -> Extras \cup {Nil}], NEW other \in [Extras -> Extras \cup {Nil}],
         NEW first \in Extras \cup {Nil},
         \A e \in Reach(links, first) : other[e] = links[e]
  PROVE  Reach(other, first) = Reach(links, first)
<1> DEFINE old == Reach(links, first)
           new == Reach(other, first)
<1>1. old \subseteq Extras /\ first \in old \cup {Nil} /\ Closed(links, old)
  BY ReachClosed
<1>2. new \subseteq Extras /\ first \in new \cup {Nil} /\ Closed(other, new)
  BY ReachClosed
<1>3. Closed(other, old)
  BY <1>1 DEF Closed
<1>4. new \subseteq old
  BY <1>1, <1>3, ReachLeast
<1>5. Closed(links, new)
  BY <1>2, <1>4 DEF Closed
<1>6. old \subseteq new
  BY <1>2, <1>5, ReachLeast
<1> QED
  BY <1>4, <1>6

\* The walk after an extra was linked behind the last one.
LEMMA ReachAppended ==
  ASSUME NEW links \in [Extras -> Extras \cup {Nil}], NEW first \in Extras,
         NEW last \in Reach(links, first), links[last] = Nil,
         NEW e \in Extras \ Reach(links, first), links[e] = Nil,
         NEW other \in [Extras -> Extras \cup {Nil}],
         other[last] = e, \A x \in Extras \ {last} : other[x] = links[x]
  PROVE  Reach(other, first) = Reach(links, first) \cup {e}
<1> DEFINE old == Reach(links, first)
           new == Reach(other, first)
<1>1. old \subseteq Extras /\ first \in old /\ Closed(links, old)
  BY ReachClosed
<1>3. new \subseteq Extras /\ first \in new /\ Closed(other, new)
  BY ReachClosed
<1>4. Closed(other, old \cup {e})
  BY <1>1 DEF Closed
<1>5. new \subseteq old \cup {e}
  BY <1>1, <1>4, ReachLeast
<1>6. Closed(links, new)
  BY <1>1, <1>3 DEF Closed
<1>7. old \subseteq new
  BY <1>3, <1>6, ReachLeast
<1>8. e \in new
  <2>1. last \in new /\ other[last] = e /\ e # Nil
    BY <1>1, <1>7
  <2> QED
    BY <1>3, <2>1 DEF Closed
<1> QED
  BY <1>5, <1>7, <1>8

\* Every extra a walk meets but the first is behind another one it meets.
LEMMA ReachBefore ==
  ASSUME NEW links \in [Extras -> Extras \cup {Nil}], NEW first \in Extras,
         NEW e \in Reach(links, first), e # first
  PROVE  \E p \in Reach(links, first) \ {e} : links[p] = e
<1> SUFFICES ASSUME \A p \in Reach(links, first) \ {e} : links[p] # e PROVE FALSE
  OBVIOUS
<1> DEFINE rest == Reach(links, first) \ {e}
<1>1. Reach(links, first) \subseteq Extras /\ first \in rest /\ Closed(links, Reach(links, first))
  BY ReachClosed
<1>2. Closed(links, rest)
  BY <1>1 DEF Closed
<1>3. Reach(links, first) \subseteq rest
  BY <1>1, <1>2, ReachLeast
<1> QED
  BY <1>3

\* The walk after an extra was unlinked that only p was linked to.
LEMMA ReachUnlinked ==
  ASSUME NEW links \in [Extras -> Extras \cup {Nil}], NEW first \in Extras,
         NEW e \in Reach(links, first), e # first,
         NEW p \in Reach(links, first), p # e, links[p] = e,
         \A x \in Reach(links, first) : links[x] = e => x = p,
         NEW other \in [Extras -> Extras \cup {Nil}],
         other[p] = links[e], \A x \in Extras \ {p} : other[x] = links[x]
  PROVE  Reach(other, first) = Reach(links, first) \ {e}
<1> DEFINE old == Reach(links, first)
           new == Reach(other, first)
<1>1. old \subseteq Extras /\ first \in old /\ Closed(links, old)
  BY ReachClosed
<1>2. e \in Extras
  BY <1>1
<1>3. new \subseteq Extras /\ first \in new /\ Closed(other, new)
  BY <1>2, ReachClosed
<1>4. Closed(other, old \ {e})
  <2> SUFFICES ASSUME NEW x \in old \ {e} PROVE other[x] \in (old \ {e}) \cup {Nil}
    BY DEF Closed
  <2>1. links[x] \in old \cup {Nil} /\ links[e] \in old \cup {Nil} /\ x \in Extras
    BY <1>1 DEF Closed
  <2>2. links[e] # e
    OBVIOUS
  <2> QED
    BY <2>1, <2>2
<1>5. new \subseteq old \ {e}
  BY <1>1, <1>4, ReachLeast
<1>6. p \in new
  <2> SUFFICES ASSUME p \notin new PROVE FALSE
    OBVIOUS
  <2>1. Closed(links, new)
    BY <1>3 DEF Closed
  <2>2. old \subseteq new
    BY <1>3, <2>1, ReachLeast
  <2> QED
    BY <2>2
<1>7. Closed(links, new \cup {e})
  <2> SUFFICES ASSUME NEW x \in new \cup {e} PROVE links[x] \in new \cup {e} \cup {Nil}
    BY DEF Closed
  <2>1. \A y \in new : other[y] \in new \cup {Nil}
    BY <1>3 DEF Closed
  <2>2. links[e] \in new \cup {Nil}
    BY <1>1, <1>6, <2>1
  <2>3. CASE x \in new \ {p}
    BY <1>3, <2>1, <2>3
  <2> QED
    BY <2>2, <2>3
<1>8. old \subseteq new \cup {e}
  <2>1. new \cup {e} \in SUBSET Extras /\ first \in new \cup {e} \cup {Nil}
    BY <1>2, <1>3
  <2> QED
    BY <1>7, <2>1 DEF Reach
<1> QED
  BY <1>5, <1>8

\* The walk from behind the first extra, to which no other one is linked.
LEMMA ReachTail ==
  ASSUME NEW links \in [Extras -> Extras \cup {Nil}], NEW first \in Extras,
         \A x \in Reach(links, first) : links[x] # first
  PROVE  Reach(links, links[first]) = Reach(links, first) \ {first}
<1> DEFINE rest == Reach(links, first) \ {first}
<1>1. Reach(links, first) \subseteq Extras /\ first \in Reach(links, first) /\ Closed(links, Reach(links, first))
  BY ReachClosed
<1>2. rest \in SUBSET Extras /\ links[first] \in rest \cup {Nil} /\ Closed(links, rest)
  BY <1>1 DEF Closed
<1>3. Reach(links, links[first]) \subseteq rest
  BY <1>2, ReachLeast
<1> QED
  BY <1>3, ReachUnfold
-----------------------------------------------------------------------------
(***************************************************************************)
(* The inductive invariant.                                                *)
(***************************************************************************)

\* Every link of the list, _head's too, leads to an extra of its own.
NoSharing ==
    /\ \A e, f \in Listed : next[e] = next[f] /\ next[e] # Nil => e = f
    /\ \A e \in Listed : next[e] = Nil \/ next[e] # head

\* The list is what callers have given to it.
StatusExact == Listed = {e \in Extras : status[e] = "given"}

\* A reader looks for a type that is marked, and has not passed its extra.
WalksReach ==
    \A t \in Threads : walk[t] # NoWalk =>
        /\ walk[t].at \in Listed
        /\ \E e \in Reach(next, walk[t].at) : TypeOf[e] = walk[t].type

IInv ==
    /\ TypeOK /\ TailEndsList /\ FlagsExact /\ HighUseFirst
    /\ AddedUnlinked /\ NoSharing /\ StatusExact /\ WalksReach

\* What a writer leaves as it was when no reader is inside.
LEMMA WalksKept ==
  ASSUME TypeOK, WriteLocked, UNCHANGED <<walk, answer>>
  PROVE  WalksReach' /\ walk' \in [Threads -> [type : Types \cup {Nil}, at : Extras \cup {Nil}]]
                     /\ answer' \in [Threads -> Extras \cup {Nil}]
  BY DEF TypeOK, WriteLocked, WalksReach, NoWalk

\* The facts of a state that every step starts from.
LEMMA ListFacts ==
  ASSUME IInv
  PROVE  /\ next \in [Extras -> Extras \cup {Nil}] /\ head \in Extras \cup {Nil}
         /\ Listed \subseteq Extras
         /\ head \in Listed \cup {Nil}
         /\ \A e \in Listed : next[e] \in Listed \cup {Nil}
         /\ (head = Nil) <=> (Listed = {})
         /\ (head = Nil) <=> (tail = Head)
         /\ head # Nil => tail \in Listed /\ next[tail] = Nil
<1>1. next \in [Extras -> Extras \cup {Nil}] /\ head \in Extras \cup {Nil}
  BY DEF IInv, TypeOK
<1>2. Listed \subseteq Extras /\ head \in Listed \cup {Nil} /\ Closed(next, Listed)
  BY <1>1, ReachClosed DEF Listed
<1>3. head = Nil => Listed = {}
  BY ReachNil DEF Listed
<1>4. (head = Nil) <=> (tail = Head)
  BY <1>2 DEF IInv, TailEndsList, LoadTail
<1>5. head # Nil => tail \in Listed /\ next[tail] = Nil
  BY <1>4 DEF IInv, TailEndsList, LoadTail
<1> QED
  BY <1>1, <1>2, <1>3, <1>4, <1>5 DEF Closed

\* The constructor.
LEMMA InitIInv == Init => IInv
<1> SUFFICES ASSUME Init PROVE IInv
  OBVIOUS
<1>1. Listed = {}
  BY ReachNil DEF Init, Listed
<1>2. TypeOK
  BY DEF Init, TypeOK, NoWalk
<1>3. TailEndsList /\ FlagsExact /\ HighUseFirst /\ NoSharing
  BY <1>1 DEF Init, TailEndsList, FlagsExact, HighUseFirst, NoSharing, LoadTail
<1>4. AddedUnlinked /\ StatusExact /\ WalksReach
  BY <1>1 DEF Init, AddedUnlinked, StatusExact, WalksReach
<1> QED
  BY <1>2, <1>3, <1>4 DEF IInv

\* The first extra of a list.
LEMMA AddFirstStep ==
  ASSUME IInv, NEW e \in Extras, AddExtra(e), head = Nil
  PROVE  IInv'
<1>1. Listed = {} /\ tail = Head /\ next \in [Extras -> Extras \cup {Nil}]
  BY ListFacts
<1>2. head' = e /\ tail' = e /\ next' = next /\ next[e] = Nil
  BY <1>1 DEF AddExtra, AtEnd, StoreTail, IInv, AddedUnlinked
<1>3. Listed' = {e}
  BY <1>1, <1>2, ReachUnfold, ReachNil DEF Listed
<1>4. TypeOK' /\ WalksReach'
  BY <1>1, <1>2, WalksKept DEF AddExtra, Mark, IInv, TypeOK, Types
<1>5. TailEndsList'
  BY <1>2, <1>3 DEF TailEndsList, LoadTail
<1>6. FlagsExact'
  BY <1>1, <1>3 DEF FlagsExact, IInv, AddExtra, Mark
<1>7. HighUseFirst' /\ NoSharing'
  BY <1>2, <1>3 DEF HighUseFirst, NoSharing
<1>8. AddedUnlinked' /\ StatusExact'
  BY <1>1, <1>2, <1>3 DEF AddedUnlinked, StatusExact, AddExtra, IInv, TypeOK
<1> QED
  BY <1>4, <1>5, <1>6, <1>7, <1>8 DEF IInv

\* An extra behind the last one.
LEMMA AppendStep ==
  ASSUME IInv, NEW e \in Extras, AddExtra(e), head # Nil, TypeOf[e] \notin HighUse
  PROVE  IInv'
<1>1. /\ next \in [Extras -> Extras \cup {Nil}] /\ head \in Extras /\ Listed \subseteq Extras
      /\ head \in Listed /\ tail \in Listed /\ next[tail] = Nil /\ tail # Head
      /\ \A x \in Listed : next[x] \in Listed \cup {Nil}
  BY ListFacts
<1>2. next[e] = Nil /\ e \notin Listed
  BY DEF AddExtra, IInv, AddedUnlinked, StatusExact
<1>3. head' = head /\ tail' = e /\ next' = [next EXCEPT ![tail] = e]
  BY <1>1 DEF AddExtra, AtEnd, StoreTail
<1>4. Listed' = Listed \cup {e}
  <2>1. tail \in Reach(next, head) /\ e \in Extras \ Reach(next, head)
    BY <1>1, <1>2 DEF Listed
  <2>2. /\ next' \in [Extras -> Extras \cup {Nil}] /\ next'[tail] = e
        /\ \A x \in Extras \ {tail} : next'[x] = next[x]
    BY <1>1, <1>3
  <2>3. Reach(next', head) = Reach(next, head) \cup {e}
    BY <1>1, <1>2, <2>1, <2>2, ReachAppended
  <2> QED
    BY <1>3, <2>3 DEF Listed
<1>5. next'[e] = Nil /\ next'[tail] = e /\ \A x \in Listed \ {tail} : next'[x] = next[x]
  BY <1>1, <1>2, <1>3
<1>6. TypeOK' /\ WalksReach'
  BY <1>1, <1>3, WalksKept DEF AddExtra, Mark, IInv, TypeOK, Types
<1>7. TailEndsList'
  BY <1>1, <1>3, <1>4, <1>5 DEF TailEndsList, LoadTail
<1>8. FlagsExact'
  BY <1>4 DEF FlagsExact, IInv, AddExtra, Mark
<1>9. HighUseFirst'
  BY <1>4, <1>5 DEF HighUseFirst, IInv
<1>10. NoSharing'
  BY <1>1, <1>2, <1>3, <1>4, <1>5 DEF NoSharing, IInv
<1>11. AddedUnlinked' /\ StatusExact'
  BY <1>1, <1>3, <1>4 DEF AddedUnlinked, StatusExact, AddExtra, IInv, TypeOK
<1> QED
  BY <1>6, <1>7, <1>8, <1>9, <1>10, <1>11 DEF IInv

\* A high-use extra before the first one.
LEMMA PrependStep ==
  ASSUME IInv, NEW e \in Extras, AddExtra(e), head # Nil, TypeOf[e] \in HighUse
  PROVE  IInv'
<1>1. /\ next \in [Extras -> Extras \cup {Nil}] /\ head \in Extras /\ Listed \subseteq Extras
      /\ head \in Listed /\ tail \in Listed /\ next[tail] = Nil /\ tail # Head
      /\ \A x \in Listed : next[x] \in Listed \cup {Nil}
  BY ListFacts
<1>2. next[e] = Nil /\ e \notin Listed
  BY DEF AddExtra, IInv, AddedUnlinked, StatusExact
<1>3. head' = e /\ tail' = tail /\ next' = [next EXCEPT ![e] = head]
  BY DEF AddExtra, AtEnd
<1>4. next' \in [Extras -> Extras \cup {Nil}] /\ next'[e] = head /\ \A x \in Listed : next'[x] = next[x]
  BY <1>1, <1>2, <1>3
<1>5. Listed' = Listed \cup {e}
  <2>1. Reach(next', head) = Reach(next, head)
    BY <1>1, <1>4, ReachLocal DEF Listed
  <2>2. Reach(next', e) = {e} \cup Reach(next', head)
    BY <1>4, ReachUnfold
  <2> QED
    BY <1>3, <2>1, <2>2 DEF Listed
<1>6. TypeOK' /\ WalksReach'
  BY <1>1, <1>3, <1>4, WalksKept DEF AddExtra, Mark, IInv, TypeOK, Types
<1>7. TailEndsList'
  BY <1>1, <1>3, <1>4, <1>5 DEF TailEndsList, LoadTail
<1>8. FlagsExact'
  BY <1>5 DEF FlagsExact, IInv, AddExtra, Mark
<1>9. HighUseFirst'
  BY <1>4, <1>5 DEF HighUseFirst, IInv
<1>10. NoSharing'
  BY <1>1, <1>2, <1>3, <1>4, <1>5 DEF NoSharing, IInv
<1>11. AddedUnlinked' /\ StatusExact'
  BY <1>1, <1>3, <1>5 DEF AddedUnlinked, StatusExact, AddExtra, IInv, TypeOK
<1> QED
  BY <1>6, <1>7, <1>8, <1>9, <1>10, <1>11 DEF IInv

\* RemoveExtra: the list without the extra, and _tail where it was.
LEMMA RemoveFacts ==
  ASSUME IInv, ~RemoveLast, NEW e \in Extras, RemoveExtra(e)
  PROVE  /\ Listed' = Listed \ {e} /\ tail' = tail /\ tail # e
         /\ next' \in [Extras -> Extras \cup {Nil}] /\ head' \in Extras \cup {Nil}
         /\ next[e] # e
         /\ \/ head = e /\ head' = next[e] /\ next' = next
            \/ /\ head # e /\ head' = head
               /\ \E p \in Listed \ {e} : next[p] = e /\ next' = [next EXCEPT ![p] = next[e]]
<1>1. /\ next \in [Extras -> Extras \cup {Nil}] /\ head \in Extras /\ Listed \subseteq Extras
      /\ head \in Listed /\ tail \in Listed /\ next[tail] = Nil /\ tail # Head
      /\ \A x \in Listed : next[x] \in Listed \cup {Nil}
  BY ListFacts DEF RemoveExtra
<1>2. e \in Listed /\ tail # e /\ Unlink(e) /\ tail' = TailAfter(e)
  BY DEF RemoveExtra
<1>3. CASE e = head
  <2>1. head' = next[e] /\ next' = next
    BY <1>2, <1>3 DEF Unlink, Before
  <2>2. Listed' = Listed \ {e}
    BY <1>1, <1>3, <2>1, ReachTail DEF Listed, IInv, NoSharing
  <2>3. tail' = tail
    BY <1>1, <1>2, <2>1 DEF TailAfter
  <2>4. next[e] # e
    BY <1>1, <1>3 DEF IInv, NoSharing
  <2> QED
    BY <1>1, <1>2, <1>3, <2>1, <2>2, <2>3, <2>4
<1>4. CASE e # head
  <2>1. \E p \in Listed \ {e} : next[p] = e
    BY <1>1, <1>2, <1>4, ReachBefore DEF Listed
  <2>2. Before(e) \in Listed /\ next[Before(e)] = e
    BY <1>4, <2>1 DEF Before
  <2>3. \A x \in Listed : next[x] = e => x = Before(e)
    BY <1>1, <2>2 DEF IInv, NoSharing
  <2>4. Before(e) # e /\ next[e] # e
    <3>1. PICK p \in Listed \ {e} : next[p] = e
      BY <2>1
    <3>2. p = Before(e)
      BY <2>3, <3>1
    <3> QED
      BY <1>2, <2>3, <3>1, <3>2
  <2>5. head' = head /\ next' = [next EXCEPT ![Before(e)] = next[e]]
    BY <1>1, <1>2, <2>2 DEF Unlink
  <2>6. Listed' = Listed \ {e}
    <3>1. Reach(next', head) = Reach(next, head) \ {e}
      <4>1. e \in Reach(next, head) /\ Before(e) \in Reach(next, head)
        BY <1>2, <2>2 DEF Listed
      <4>2. \A x \in Reach(next, head) : next[x] = e => x = Before(e)
        BY <2>3 DEF Listed
      <4>3. /\ next' \in [Extras -> Extras \cup {Nil}] /\ next'[Before(e)] = next[e]
            /\ \A x \in Extras \ {Before(e)} : next'[x] = next[x]
        BY <1>1, <2>2, <2>5
      <4> QED
        BY <1>1, <1>4, <2>2, <2>4, <4>1, <4>2, <4>3, ReachUnlinked
    <3> QED
      BY <2>5, <3>1 DEF Listed
  <2>7. Before(e) # tail /\ next'[tail] = Nil
    BY <1>1, <2>2, <2>5
  <2>8. tail' = tail
    BY <1>1, <1>2, <2>7 DEF TailAfter
  <2> QED
    BY <1>1, <1>2, <1>4, <2>2, <2>4, <2>5, <2>6, <2>8
<1> QED
  BY <1>3, <1>4

\* RemoveExtra, of an extra that is not the last one.
LEMMA RemoveStep ==
  ASSUME IInv, ~RemoveLast, NEW e \in Extras, RemoveExtra(e)
  PROVE  IInv'
<1>1. /\ next \in [Extras -> Extras \cup {Nil}] /\ head \in Extras /\ Listed \subseteq Extras
      /\ head \in Listed /\ tail \in Listed /\ next[tail] = Nil /\ tail # Head
      /\ \A x \in Listed : next[x] \in Listed \cup {Nil}
  BY ListFacts DEF RemoveExtra
<1>2. /\ Listed' = Listed \ {e} /\ tail' = tail /\ tail # e
      /\ next' \in [Extras -> Extras \cup {Nil}] /\ head' \in Extras \cup {Nil}
      /\ next[e] # e /\ e \in Listed
  BY RemoveFacts DEF RemoveExtra
<1>3. \/ head = e /\ head' = next[e] /\ next' = next
      \/ /\ head # e /\ head' = head
         /\ \E p \in Listed \ {e} : next[p] = e /\ next' = [next EXCEPT ![p] = next[e]]
  BY RemoveFacts
<1>4. TypeOK' /\ WalksReach'
  BY <1>2, WalksKept DEF RemoveExtra, IInv, TypeOK
<1>5. TailEndsList'
  <2>1. tail \in Listed' /\ next'[tail] = Nil
    BY <1>1, <1>2, <1>3
  <2>2. head' # Nil
    BY <1>2, <2>1, ReachNil DEF Listed
  <2> QED
    BY <1>1, <1>2, <2>1, <2>2 DEF TailEndsList, LoadTail
<1>6. FlagsExact'
  BY <1>2 DEF FlagsExact, IInv, RemoveExtra
<1>7. HighUseFirst'
  BY <1>1, <1>2, <1>3 DEF HighUseFirst, IInv
<1>8. NoSharing'
  BY <1>1, <1>2, <1>3 DEF NoSharing, IInv
<1>9. AddedUnlinked' /\ StatusExact'
  BY <1>1, <1>2, <1>3 DEF AddedUnlinked, StatusExact, RemoveExtra, IInv, TypeOK
<1> QED
  BY <1>4, <1>5, <1>6, <1>7, <1>8, <1>9 DEF IInv

\* The owner of an extra that was taken out renews it.
LEMMA RenewStep ==
  ASSUME IInv, NEW e \in Extras, Renew(e)
  PROVE  IInv'
<1>1. /\ next \in [Extras -> Extras \cup {Nil}] /\ head \in Extras \cup {Nil}
      /\ Listed \subseteq Extras
      /\ \A x \in Listed : next[x] \in Listed \cup {Nil}
      /\ head # Nil => tail \in Listed
  BY ListFacts
<1>2. e \notin Listed
  BY DEF Renew, IInv, StatusExact
<1>3. next' = [next EXCEPT ![e] = Nil] /\ UNCHANGED <<head, tail, flags, walk, answer>>
  BY DEF Renew
<1>4. next' \in [Extras -> Extras \cup {Nil}] /\ \A x \in Listed : next'[x] = next[x]
  BY <1>1, <1>2, <1>3
<1>5. Listed' = Listed
  <2>1. Reach(next', head) = Reach(next, head)
    BY <1>1, <1>4, ReachLocal DEF Listed
  <2> QED
    BY <1>3, <2>1 DEF Listed
<1>6. TypeOK'
  BY <1>3, <1>4 DEF IInv, TypeOK, Renew
<1>7. WalksReach'
  <2> SUFFICES ASSUME NEW t \in Threads, walk[t] # NoWalk
               PROVE  /\ walk[t].at \in Listed
                      /\ \E f \in Reach(next', walk[t].at) : TypeOf[f] = walk[t].type
    BY <1>3, <1>5 DEF WalksReach
  <2>1. /\ walk[t].at \in Listed
        /\ \E f \in Reach(next, walk[t].at) : TypeOf[f] = walk[t].type
    BY DEF IInv, WalksReach
  <2>2. Reach(next, walk[t].at) \subseteq Listed
    <3>1. Closed(next, Listed)
      BY <1>1 DEF Closed
    <3> QED
      BY <1>1, <2>1, <3>1, ReachLeast
  <2>3. Reach(next', walk[t].at) = Reach(next, walk[t].at)
    BY <1>1, <1>4, <2>1, <2>2, ReachLocal
  <2> QED
    BY <2>1, <2>3
<1>8. TailEndsList'
  BY <1>1, <1>3, <1>4, <1>5 DEF TailEndsList, LoadTail, IInv
<1>9. FlagsExact' /\ HighUseFirst' /\ NoSharing'
  BY <1>1, <1>3, <1>4, <1>5 DEF FlagsExact, HighUseFirst, NoSharing, IInv
<1>10. AddedUnlinked' /\ StatusExact'
  BY <1>1, <1>3, <1>5 DEF AddedUnlinked, StatusExact, Renew, IInv, TypeOK
<1> QED
  BY <1>6, <1>7, <1>8, <1>9, <1>10 DEF IInv

\* A step of a reader leaves the list alone.
LEMMA ReaderKeeps ==
  ASSUME IInv, UNCHANGED listVars, WalksReach',
         walk' \in [Threads -> [type : Types \cup {Nil}, at : Extras \cup {Nil}]],
         answer' \in [Threads -> Extras \cup {Nil}]
  PROVE  IInv'
<1>1. Listed' = Listed
  BY DEF Listed, listVars
<1> QED
  BY <1>1 DEF IInv, TypeOK, TailEndsList, FlagsExact, HighUseFirst, AddedUnlinked, NoSharing, StatusExact,
              LoadTail, listVars

\* A reader gets its answer.
LEMMA AnswerStep ==
  ASSUME IInv, NEW t \in Threads, NEW e \in Extras \cup {Nil}, Answer(t, e)
  PROVE  IInv'
<1>1. /\ walk' \in [Threads -> [type : Types \cup {Nil}, at : Extras \cup {Nil}]]
      /\ answer' \in [Threads -> Extras \cup {Nil}]
  BY DEF IInv, TypeOK, Answer, NoWalk
<1>2. WalksReach'
  <2>1. Listed' = Listed /\ next' = next
    BY DEF Listed, Answer, listVars
  <2> QED
    BY <2>1 DEF WalksReach, Answer, NoWalk, IInv, TypeOK
<1> QED
  BY <1>1, <1>2, ReaderKeeps DEF Answer

\* GetByType and HasType begin: the flags decide whether to walk.
LEMMA GetByTypeStep ==
  ASSUME IInv, NEW t \in Threads, NEW type \in Types, GetByType(t, type)
  PROVE  IInv'
<1>1. CASE type \notin flags
  BY <1>1, AnswerStep DEF GetByType
<1>2. CASE type \in flags
  <2>1. walk' = [walk EXCEPT ![t] = [type |-> type, at |-> head]] /\ UNCHANGED <<listVars, answer>>
    BY <1>2 DEF GetByType
  <2>2. PICK e \in Listed : TypeOf[e] = type
    BY <1>2 DEF IInv, FlagsExact
  <2>3. head \in Listed
    BY <2>2, ListFacts
  <2>4. Listed' = Listed /\ next' = next
    BY <2>1 DEF Listed, listVars
  <2>5. /\ walk' \in [Threads -> [type : Types \cup {Nil}, at : Extras \cup {Nil}]]
        /\ answer' \in [Threads -> Extras \cup {Nil}]
    BY <2>1 DEF IInv, TypeOK
  <2>6. WalksReach'
    BY <2>1, <2>2, <2>3, <2>4 DEF WalksReach, IInv, TypeOK, Listed
  <2> QED
    BY <2>1, <2>5, <2>6, ReaderKeeps
<1> QED
  BY <1>1, <1>2

\* A walk that has not ended is at an extra of the list; it either is the one
\* looked for, or that one is behind it.
LEMMA WalkFacts ==
  ASSUME IInv, NEW t \in Threads, walk[t] # NoWalk
  PROVE  /\ walk[t].at \in Listed /\ walk[t].at \in Extras /\ walk[t].type \in Types
         /\ TypeOf[walk[t].at] # walk[t].type =>
                /\ next[walk[t].at] \in Listed
                /\ \E e \in Reach(next, next[walk[t].at]) : TypeOf[e] = walk[t].type
<1>1. /\ next \in [Extras -> Extras \cup {Nil}] /\ Listed \subseteq Extras
      /\ \A x \in Listed : next[x] \in Listed \cup {Nil}
  BY ListFacts
<1>2. PICK e \in Reach(next, walk[t].at) : TypeOf[e] = walk[t].type
  BY DEF IInv, WalksReach
<1>3. walk[t].at \in Listed /\ walk[t].at \in Extras /\ e \in Extras
  BY <1>1 DEF IInv, WalksReach, Reach
<1>4. e = walk[t].at \/ e \in Reach(next, next[walk[t].at])
  BY <1>1, <1>3, ReachUnfold
<1>5. next[walk[t].at] = Nil => e = walk[t].at
  BY <1>4, ReachNil
<1> QED
  BY <1>1, <1>2, <1>3, <1>4, <1>5 DEF Types

\* One iteration of the walk of a reader.
LEMMA WalkStep ==
  ASSUME IInv, NEW t \in Threads, Walk(t)
  PROVE  IInv'
<1>1. walk[t] # NoWalk /\ walk[t].at \in Extras
  BY WalkFacts DEF Walk
<1>2. CASE TypeOf[walk[t].at] = walk[t].type
  BY <1>1, <1>2, AnswerStep DEF Walk
<1>3. CASE TypeOf[walk[t].at] # walk[t].type
  <2>1. walk' = [walk EXCEPT ![t].at = next[walk[t].at]] /\ UNCHANGED <<listVars, answer>>
    BY <1>1, <1>3 DEF Walk
  <2>2. /\ next[walk[t].at] \in Listed
        /\ \E e \in Reach(next, next[walk[t].at]) : TypeOf[e] = walk[t].type
    BY <1>1, <1>3, WalkFacts
  <2>3. Listed' = Listed /\ next' = next /\ Listed \subseteq Extras
    BY <2>1, ListFacts DEF Listed, listVars
  <2>4. /\ walk' \in [Threads -> [type : Types \cup {Nil}, at : Extras \cup {Nil}]]
        /\ answer' \in [Threads -> Extras \cup {Nil}]
    BY <2>1, <2>2, <2>3 DEF IInv, TypeOK
  <2>5. \A u \in Threads \ {t} : walk'[u] = walk[u]
    BY <2>1 DEF IInv, TypeOK
  <2>6. walk'[t].at = next[walk[t].at] /\ walk'[t].type = walk[t].type
    BY <2>1 DEF IInv, TypeOK
  <2>7. WalksReach'
    BY <2>2, <2>3, <2>5, <2>6 DEF WalksReach, IInv
  <2> QED
    BY <2>1, <2>4, <2>7, ReaderKeeps
<1> QED
  BY <1>2, <1>3

\* Every step preserves the invariant.
LEMMA NextIInv == ~RemoveLast /\ IInv /\ [Next]_vars => IInv'
<1> SUFFICES ASSUME ~RemoveLast, IInv, [Next]_vars PROVE IInv'
  OBVIOUS
<1>1. ASSUME NEW e \in Extras, AddExtra(e) PROVE IInv'
  BY <1>1, AddFirstStep, AppendStep, PrependStep
<1>2. ASSUME NEW e \in Extras, RemoveExtra(e) PROVE IInv'
  BY <1>2, RemoveStep
<1>3. ASSUME NEW e \in Extras, Renew(e) PROVE IInv'
  BY <1>3, RenewStep
<1>4. ASSUME NEW t \in Threads, Walk(t) PROVE IInv'
  BY <1>4, WalkStep
<1>5. ASSUME NEW t \in Threads, NEW type \in Types, GetByType(t, type) PROVE IInv'
  BY <1>5, GetByTypeStep
<1>6. CASE UNCHANGED vars
  <2>1. Listed' = Listed
    BY <1>6 DEF Listed, vars, listVars
  <2> QED
    BY <1>6, <2>1, ReaderKeeps DEF vars, listVars, IInv, TypeOK, WalksReach
<1> QED
  BY <1>1, <1>2, <1>3, <1>4, <1>5, <1>6 DEF Next

\* The invariant holds throughout, if the last extra is never removed.
LEMMA SpecIInv == ~RemoveLast => (Spec => []IInv)
<1> SUFFICES ASSUME ~RemoveLast PROVE Spec => []IInv
  OBVIOUS
<1>1. Init => IInv
  BY InitIInv
<1>2. IInv /\ [Next]_vars => IInv'
  BY NextIInv
<1> QED
  BY <1>1, <1>2, PTL DEF Spec

-----------------------------------------------------------------------------
(***************************************************************************)
(* The theorems, for callers that do not remove the last extra of a list.  *)
(***************************************************************************)

\* The members, the links and what readers hold always have their types.
THEOREM ExtraTypeCorrect == ~RemoveLast => (Spec => []TypeOK)
<1>1. IInv => TypeOK
  BY DEF IInv
<1> QED
  BY <1>1, SpecIInv, PTL

\* _tail is always the link the list ends in.
THEOREM TailAtEnd == ~RemoveLast => (Spec => []TailEndsList)
<1>1. IInv => TailEndsList
  BY DEF IInv
<1> QED
  BY <1>1, SpecIInv, PTL

\* A type's bit is set exactly when one extra of it is linked, and never two are.
THEOREM FlagsAgree == ~RemoveLast => (Spec => []FlagsExact)
<1>1. IInv => FlagsExact
  BY DEF IInv
<1> QED
  BY <1>1, SpecIInv, PTL

\* Extras of high-use types come first, in whatever order extras come and go.
THEOREM HighUseInFront == ~RemoveLast => (Spec => []HighUseFirst)
<1>1. IInv => HighUseFirst
  BY DEF IInv
<1> QED
  BY <1>1, SpecIInv, PTL

\* AddExtra's assertion, which RemoveLast = TRUE refutes.
THEOREM AddedLinkNull == ~RemoveLast => (Spec => []AddedUnlinked)
<1>1. IInv => AddedUnlinked
  BY DEF IInv
<1> QED
  BY <1>1, SpecIInv, PTL

-----------------------------------------------------------------------------
\* A step of the list is a step of the map, or none.
LEMMA StepRefines ==
  ASSUME ~RemoveLast, IInv, [Next]_vars
  PROVE  [Map!MapNext]_(Map!mapVars)
<1> DEFINE given == {e \in Extras : status[e] = "given"}
<1>1. given = Listed /\ \A e \in Extras : TypeOf[e] \in Types
  BY DEF IInv, StatusExact, Types
<1>2. \A type \in Types : Map!OfType(type) = {e \in Listed : TypeOf[e] = type}
  BY <1>1 DEF Map!OfType
<1>3. ASSUME NEW e \in Extras, AddExtra(e) PROVE Map!Add(e)
  <2>1. Map!OfType(TypeOf[e]) = {}
    BY <1>1, <1>2, <1>3 DEF AddExtra, IInv, FlagsExact
  <2>2. given' = given \cup {e} /\ answer' = answer
    BY <1>3 DEF AddExtra, IInv, TypeOK
  <2> QED
    BY <2>1, <2>2 DEF Map!Add
<1>4. ASSUME NEW e \in Extras, RemoveExtra(e) PROVE Map!Remove(TypeOf[e])
  <2>1. Map!OfType(TypeOf[e]) = {e}
    BY <1>1, <1>2, <1>4 DEF RemoveExtra, IInv, FlagsExact
  <2>2. given' = given \ {e} /\ answer' = answer
    BY <1>4 DEF RemoveExtra, IInv, TypeOK
  <2> QED
    BY <2>1, <2>2 DEF Map!Remove
<1>5. ASSUME NEW e \in Extras, Renew(e) PROVE UNCHANGED Map!mapVars
  BY <1>5 DEF Renew, IInv, TypeOK, Map!mapVars
<1>6. ASSUME NEW t \in Threads, NEW type \in Types, NEW e \in Extras \cup {Nil}, Answer(t, e),
             IF Map!OfType(type) = {} THEN e = Nil ELSE e \in Map!OfType(type)
      PROVE  \E f \in Extras : Map!Query(t, TypeOf[f])
  <2>1. PICK f \in Extras : type = TypeOf[f]
    BY DEF Types
  <2>2. given' = given /\ answer' = [answer EXCEPT ![t] = e]
    BY <1>6 DEF Answer, listVars
  <2>3. Map!Query(t, type)
    BY <1>6, <2>2 DEF Map!Query
  <2> QED
    BY <2>1, <2>3
<1>7. ASSUME NEW t \in Threads, NEW type \in Types, GetByType(t, type)
      PROVE  UNCHANGED Map!mapVars \/ \E f \in Extras : Map!Query(t, TypeOf[f])
  <2>1. CASE type \in flags
    BY <1>7, <2>1 DEF GetByType, Map!mapVars, listVars
  <2>2. CASE type \notin flags
    <3>1. Map!OfType(type) = {}
      BY <1>2, <2>2 DEF IInv, FlagsExact
    <3> QED
      BY <1>6, <1>7, <2>2, <3>1 DEF GetByType
  <2> QED
    BY <2>1, <2>2
<1>8. ASSUME NEW t \in Threads, Walk(t)
      PROVE  UNCHANGED Map!mapVars \/ \E f \in Extras : Map!Query(t, TypeOf[f])
  <2>1. walk[t].at \in Listed /\ walk[t].at \in Extras /\ walk[t].type \in Types
    BY <1>8, WalkFacts DEF Walk
  <2>2. CASE TypeOf[walk[t].at] = walk[t].type
    <3>1. Answer(t, walk[t].at) /\ walk[t].at \in Map!OfType(walk[t].type)
      BY <1>2, <1>8, <2>1, <2>2 DEF Walk
    <3> QED
      BY <1>6, <2>1, <3>1
  <2>3. CASE TypeOf[walk[t].at] # walk[t].type
    BY <1>8, <2>1, <2>3 DEF Walk, Map!mapVars, listVars
  <2> QED
    BY <2>2, <2>3
<1>9. CASE UNCHANGED vars
  BY <1>9 DEF vars, listVars, Map!mapVars
<1> QED
  BY <1>3, <1>4, <1>5, <1>7, <1>8, <1>9 DEF Next, Map!MapNext

\* An extra given to the list is found by its type until it is removed, also by
\* a reader that takes a step for each element.
THEOREM ExtraListRefines == ~RemoveLast => (Spec => ImplementsMap)
<1> SUFFICES ASSUME ~RemoveLast PROVE Spec => ImplementsMap
  OBVIOUS
<1>1. Init => Map!MapInit
  BY DEF Init, Map!MapInit
<1>2. IInv /\ [Next]_vars => [Map!MapNext]_(Map!mapVars)
  BY StepRefines
<1> QED
  BY <1>1, <1>2, SpecIInv, PTL DEF Spec, ImplementsMap, Map!MapSpec
=============================================================================
