-------------------------- MODULE ContainersProofs --------------------------
(***************************************************************************)
(* What the calls of the containers and of the address library do, and     *)
(* how they keep their memory, for any number of objects, nodes, pages,    *)
(* values, keys and entries of a library, after whatever calls:            *)
(* - calls of an array and of a list do to its elements what their names   *)
(*   say, but for the exceptions CallsAsSequences names;                   *)
(* - a lookup answers what the loaded library says;                        *)
(* - nodes and pages are in one place of one list;                         *)
(* - an arena is a queue, over its pages and their reuse;                  *)
(* - a growing table is a set of keys, through its rehashes and a sweep.   *)
(* They share no state: ContainersInv has one part for each.               *)
(***************************************************************************)
EXTENDS Containers, SequenceTheorems, FiniteSetTheorems, WellFoundedInduction, TLAPS

\* Sets of numbers have a least member.
Below == {ss \in Nat \X Nat : ss[1] < ss[2]}

LEMMA LeastExists ==
  ASSUME NEW S, S \subseteq Nat, S # {}
  PROVE  \E x \in S : \A y \in S : x <= y
<1>1. Below = OpToRel(<, Nat)
  BY DEF OpToRel, Below
<1>2. PICK x \in S : \A y \in S : <<y, x>> \notin Below
  BY <1>1, WFMin, NatLessThanWellFounded
<1>3. ASSUME NEW y \in S PROVE x <= y
  <2>1. x \in Nat /\ y \in Nat
    OBVIOUS
  <2>2. ~(y < x)
    BY <1>2, <2>1 DEF Below
  <2> QED
    BY <2>1, <2>2
<1> QED
  BY <1>3

-----------------------------------------------------------------------------
(***************************************************************************)
(* The arrays' part: every array is one of plain elements that have        *)
(* room where they are.  It says more of where they are than ElementsFit,  *)
(* as growing needs it: an array without a block is the empty one, and the *)
(* capacity of one inside is at most its room, or the test for a longer    *)
(* array would not move it out.                                            *)
(***************************************************************************)
Items == Values \cup {Junk}
Arrangement == [items : Seq(Items), capacity : Nat, place : {"none", "local", "heap"}]

\* There is room for n elements where a block's elements are.
Roomy(r, n) ==
    /\ r.place = "none" => n = 0
    /\ r.place = "local" => n <= room
    /\ r.place = "heap" => n <= r.capacity

ArrayFits(r) ==
    /\ r \in Arrangement
    /\ r.place = "none" => r = Empty
    /\ r.place = "local" => r.capacity <= room
    /\ Roomy(r, Size(r))

ArraysInv ==
    /\ room \in Rooms
    /\ array = [x \in Arrays |-> array[x]]
    /\ \A x \in Arrays : ArrayFits(array[x])

ArgumentFits(r, arg) ==
    /\ arg \in [own : BOOLEAN, at : Nat, val : Items]
    /\ arg.own => arg.at < Size(r)

\* A function on 1..n is a sequence of length n.
LEMMA FunctionIsSeq ==
  ASSUME NEW S, NEW n \in Nat, NEW f \in [1..n -> S]
  PROVE  f \in Seq(S) /\ Len(f) = n
<1>1. f \in Seq(S)
  BY SeqDef
<1>2. DOMAIN f = 1..Len(f) /\ Len(f) \in Nat /\ DOMAIN f = 1..n
  BY <1>1, LenProperties
<1> QED
  BY <1>1, <1>2

\* What the type says of the elements.
LEMMA SizeNat ==
  ASSUME NEW r, r \in Arrangement
  PROVE  Size(r) \in Nat /\ r.items \in Seq(Items) /\ DOMAIN r.items = 1..Size(r)
BY LenProperties DEF Size, Arrangement

\* reserve_exact to as many as there are, or more, makes room for them.
LEMMA ReserveExactFacts ==
  ASSUME NEW r, NEW c \in Nat, room \in Nat, ArrayFits(r), Size(r) <= c
  PROVE  LET q == ReserveExact(r, c)
         IN  ArrayFits(q) /\ q.items = r.items /\ Roomy(q, c)
<1> DEFINE q == ReserveExact(r, c)
           new == [r EXCEPT !.capacity = c, !.place = IF Inside(c) THEN "local" ELSE "heap"]
<1>1. r \in Arrangement /\ Size(r) \in Nat
  BY SizeNat DEF ArrayFits
<1>2. CASE c = r.capacity \/ (Inside(c) /\ r.place = "local")
  <2>1. q = r
    BY <1>2 DEF ReserveExact
  <2>2. Roomy(r, c)
    BY <1>1, <1>2 DEF ArrayFits, Roomy, Inside, Empty, Size, Arrangement
  <2> QED
    BY <2>1, <2>2
<1>3. CASE ~(c = r.capacity \/ (Inside(c) /\ r.place = "local"))
  <2>1. q = new
    BY <1>3 DEF ReserveExact
  <2>2. /\ new \in Arrangement /\ new.items = r.items /\ new.capacity = c
        /\ new.place = IF Inside(c) THEN "local" ELSE "heap"
    BY <1>1 DEF Arrangement
  <2> HIDE DEF new
  <2>3. Roomy(new, c)
    BY <2>2 DEF Roomy, Inside
  <2>4. Size(new) = Size(r)
    BY <2>2 DEF Size
  <2>5. Roomy(new, Size(new))
    BY <2>2, <2>3, <2>4, <1>1 DEF Roomy
  <2>6. ArrayFits(new)
    BY <2>2, <2>5 DEF ArrayFits, Inside
  <2> QED
    BY <2>1, <2>2, <2>3, <2>6
<1> QED
  BY <1>2, <1>3

\* So does the growth by doubling.
LEMMA ReserveAutoFacts ==
  ASSUME NEW r, NEW n \in Nat, room \in Nat, ArrayFits(r), Size(r) <= n
  PROVE  LET q == ReserveAuto(r, n)
         IN  ArrayFits(q) /\ q.items = r.items /\ Roomy(q, n)
<1>1. r \in Arrangement /\ Size(r) \in Nat /\ r.capacity \in Nat
  BY SizeNat DEF ArrayFits, Arrangement
<1>2. CASE n > r.capacity
  <2> DEFINE c == Larger(n, 2 * r.capacity)
  <2>1. c \in Nat /\ n <= c
    BY <1>1 DEF Larger
  <2>2. ReserveAuto(r, n) = ReserveExact(r, c)
    BY <1>2 DEF ReserveAuto
  <2> HIDE DEF c
  <2>3. /\ ArrayFits(ReserveExact(r, c)) /\ ReserveExact(r, c).items = r.items
        /\ Roomy(ReserveExact(r, c), c)
    BY <1>1, <2>1, ReserveExactFacts
  <2>4. ReserveExact(r, c).capacity \in Nat
    BY <2>3 DEF ArrayFits, Arrangement
  <2>5. Roomy(ReserveExact(r, c), n)
    BY <2>1, <2>3, <2>4 DEF Roomy
  <2> QED
    BY <2>2, <2>3, <2>5
<1>3. CASE ~(n > r.capacity)
  <2>1. ReserveAuto(r, n) = r
    BY <1>3 DEF ReserveAuto
  <2>2. Roomy(r, n)
    BY <1>1, <1>3 DEF ArrayFits, Roomy, Empty
  <2> QED
    BY <2>1, <2>2
<1> QED
  BY <1>2, <1>3

\* The elements may be put in place that there is room for.
LEMMA Refit ==
  ASSUME NEW q, ArrayFits(q), NEW s \in Seq(Items), Roomy(q, Len(s)), room \in Nat
  PROVE  LET new == [q EXCEPT !.items = s] IN ArrayFits(new) /\ new.items = s /\ Size(new) = Len(s)
<1> DEFINE new == [q EXCEPT !.items = s]
<1>1. q \in Arrangement
  BY DEF ArrayFits
<1>2. /\ new \in Arrangement /\ new.items = s /\ new.place = q.place /\ new.capacity = q.capacity
  BY <1>1 DEF Arrangement
<1>3. Size(new) = Len(s)
  BY <1>2 DEF Size
<1>4. Roomy(new, Size(new))
  BY <1>2, <1>3 DEF Roomy
<1>5. ASSUME new.place = "none" PROVE new = Empty
  <2>1. q = Empty /\ Len(s) = 0
    BY <1>2, <1>5 DEF ArrayFits, Roomy
  <2>2. s = <<>>
    BY <2>1, EmptySeq
  <2> QED
    BY <2>1, <2>2 DEF Empty
<1> QED
  BY <1>2, <1>3, <1>4, <1>5 DEF ArrayFits

\* emplace at the end: the elements there are stay, the new one is what the
\* argument refers to after the elements have moved.
LEMMA EmplaceBackFacts ==
  ASSUME NEW r, NEW arg, room \in Nat, ArrayFits(r), ArgumentFits(r, arg)
  PROVE  LET q == EmplaceBack(r, arg)
         IN  /\ ArrayFits(q) /\ Size(q) = Size(r) + 1
             /\ \A i \in 1..Size(r) : q.items[i] = r.items[i]
             /\ q.items[Size(r) + 1] = Argument(r.items, arg, Moves(r, Size(r) + 1))
             /\ q.items = Append(r.items, Argument(r.items, arg, Moves(r, Size(r) + 1)))
<1> DEFINE n == Size(r) + 1
           new == Argument(r.items, arg, Moves(r, n))
           q == ReserveAuto(r, n)
<1>1. Size(r) \in Nat /\ r.items \in Seq(Items) /\ Size(r) = Len(r.items)
  BY SizeNat DEF ArrayFits, Size
<1>2. new \in Items
  <2>1. CASE arg.own /\ ~Moves(r, n)
    <3>1. arg.at + 1 \in 1..Len(r.items)
      BY <2>1, <1>1 DEF ArgumentFits
    <3>2. r.items[arg.at + 1] \in Items
      BY <3>1, <1>1, ElementOfSeq
    <3> QED
      BY <3>2, <2>1 DEF Argument
  <2>2. CASE arg.own /\ Moves(r, n)
    BY <2>2 DEF Argument, Items
  <2>3. CASE ~arg.own
    BY <2>3 DEF Argument, ArgumentFits
  <2> QED
    BY <2>1, <2>2, <2>3
<1>3. ArrayFits(q) /\ q.items = r.items /\ Roomy(q, n)
  BY <1>1, ReserveAutoFacts
<1> HIDE DEF new, q
<1>4. /\ Append(r.items, new) \in Seq(Items) /\ Len(Append(r.items, new)) = n
      /\ \A i \in 1..Size(r) : Append(r.items, new)[i] = r.items[i]
      /\ Append(r.items, new)[n] = new
  BY <1>1, <1>2, AppendProperties
<1>5. LET p == [q EXCEPT !.items = Append(r.items, new)]
      IN  ArrayFits(p) /\ p.items = Append(r.items, new) /\ Size(p) = n
  BY <1>3, <1>4, Refit
<1>6. EmplaceBack(r, arg) = [q EXCEPT !.items = Append(r.items, new)]
  BY <1>3 DEF EmplaceBack, q, new
<1> QED
  BY <1>4, <1>5, <1>6 DEF new

\* A sequence with another one put in at a place.
Joined(s, pos, t) == SubSeq(s, 1, pos) \o t \o SubSeq(s, pos + 1, Len(s))

\* Which element is at which place of a sequence with another put into it.
LEMMA JoinedFacts ==
  ASSUME NEW S, NEW s \in Seq(S), NEW t \in Seq(S), NEW pos \in 0..Len(s)
  PROVE  /\ Joined(s, pos, t) \in Seq(S) /\ Len(Joined(s, pos, t)) = Len(s) + Len(t)
         /\ \A i \in 1..(Len(s) + Len(t)) :
                Joined(s, pos, t)[i] = IF i <= pos THEN s[i]
                                       ELSE IF i <= pos + Len(t) THEN t[i - pos] ELSE s[i - Len(t)]
<1> DEFINE a == SubSeq(s, 1, pos)
           b == SubSeq(s, pos + 1, Len(s))
<1>1. Len(s) \in Nat /\ Len(t) \in Nat /\ pos \in Nat
  BY LenProperties
<1>2. a \in Seq(S) /\ Len(a) = pos /\ \A i \in 1..pos : a[i] = s[i]
  <2>1. \A i \in 1..pos : s[i] \in S
    BY <1>1, ElementOfSeq
  <2> QED
    BY <2>1, <1>1, SubSeqProperties
<1>3. b \in Seq(S) /\ Len(b) = Len(s) - pos /\ \A i \in 1..(Len(s) - pos) : b[i] = s[pos + i]
  <2>1. \A i \in (pos + 1)..Len(s) : s[i] \in S
    BY <1>1, ElementOfSeq
  <2>2. /\ b \in Seq(S) /\ Len(b) = IF pos + 1 <= Len(s) THEN Len(s) - (pos + 1) + 1 ELSE 0
        /\ \A i \in 1..(Len(s) - (pos + 1) + 1) : b[i] = s[(pos + 1) + i - 1]
    BY <2>1, <1>1, SubSeqProperties
  <2> QED
    BY <2>2, <1>1
<1> HIDE DEF a, b
<1>4. /\ a \o t \in Seq(S) /\ Len(a \o t) = pos + Len(t)
      /\ \A i \in 1..(pos + Len(t)) : (a \o t)[i] = IF i <= pos THEN a[i] ELSE t[i - pos]
  BY <1>1, <1>2, ConcatProperties
<1>5. /\ (a \o t) \o b \in Seq(S) /\ Len((a \o t) \o b) = Len(s) + Len(t)
      /\ \A i \in 1..(Len(s) + Len(t)) :
             ((a \o t) \o b)[i] = IF i <= pos + Len(t) THEN (a \o t)[i] ELSE b[i - (pos + Len(t))]
  <2> DEFINE m == a \o t
  <2>1. m \in Seq(S) /\ Len(m) = pos + Len(t)
    BY <1>4
  <2> HIDE DEF m
  <2>2. /\ m \o b \in Seq(S) /\ Len(m \o b) = Len(m) + Len(b)
        /\ \A i \in 1..(Len(m) + Len(b)) : (m \o b)[i] = IF i <= Len(m) THEN m[i] ELSE b[i - Len(m)]
    BY <2>1, <1>3, ConcatProperties
  <2>3. Len(m) + Len(b) = Len(s) + Len(t)
    BY <2>1, <1>1, <1>3
  <2>4. /\ m \o b \in Seq(S) /\ Len(m \o b) = Len(s) + Len(t)
        /\ \A i \in 1..(Len(s) + Len(t)) :
             (m \o b)[i] = IF i <= pos + Len(t) THEN m[i] ELSE b[i - (pos + Len(t))]
    BY <2>1, <2>2, <2>3
  <2> QED
    BY <2>4 DEF m
<1>6. ASSUME NEW i \in 1..(Len(s) + Len(t))
      PROVE  ((a \o t) \o b)[i] = IF i <= pos THEN s[i]
                                  ELSE IF i <= pos + Len(t) THEN t[i - pos] ELSE s[i - Len(t)]
  <2>1. CASE i <= pos
    BY <2>1, <1>1, <1>2, <1>4, <1>5
  <2>2. CASE ~(i <= pos) /\ i <= pos + Len(t)
    BY <2>2, <1>1, <1>4, <1>5
  <2>3. CASE ~(i <= pos + Len(t))
    <3>1. i - (pos + Len(t)) \in 1..(Len(s) - pos) /\ pos + (i - (pos + Len(t))) = i - Len(t)
      BY <2>3, <1>1
    <3>2. b[i - (pos + Len(t))] = s[pos + (i - (pos + Len(t)))]
      BY <3>1, <1>3
    <3>3. ((a \o t) \o b)[i] = b[i - (pos + Len(t))]
      BY <2>3, <1>5
    <3> QED
      BY <2>3, <1>1, <3>1, <3>2, <3>3
  <2> QED
    BY <2>1, <2>2, <2>3
<1> QED
  BY <1>5, <1>6 DEF a, b, Joined

\* emplace anywhere.
LEMMA EmplaceFacts ==
  ASSUME NEW r, NEW pos \in 0..Size(r), NEW arg, room \in Nat, ArrayFits(r), ArgumentFits(r, arg)
  PROVE  LET q == Emplace(r, pos, arg)
             full == Moves(r, Size(r) + 1)
         IN  /\ ArrayFits(q)
             /\ \/ q.items = SubSeq(r.items, 1, pos) \o <<Passed(r, arg)>> \o SubSeq(r.items, pos + 1, Size(r))
                \/ full /\ (arg.own \/ pos < Size(r))
                \/ arg.own /\ pos < arg.at
<1> DEFINE q == Emplace(r, pos, arg)
           n == Size(r)
           full == Moves(r, Size(r) + 1)
           j == SubSeq(r.items, 1, pos) \o <<Passed(r, arg)>> \o SubSeq(r.items, pos + 1, Size(r))
<1>1. n \in Nat /\ r.items \in Seq(Items) /\ n = Len(r.items) /\ pos \in Nat
  BY SizeNat DEF ArrayFits, Size
<1>2. Passed(r, arg) \in Items
  BY <1>1, ElementOfSeq DEF Passed, ArgumentFits
<1>3. <<Passed(r, arg)>> \in Seq(Items) /\ Len(<<Passed(r, arg)>>) = 1 /\ <<Passed(r, arg)>>[1] = Passed(r, arg)
  BY <1>2
<1>4. /\ j \in Seq(Items) /\ Len(j) = n + 1
      /\ \A i \in 1..(n + 1) : j[i] = IF i <= pos THEN r.items[i]
                                      ELSE IF i <= pos + 1 THEN Passed(r, arg) ELSE r.items[i - 1]
  <2> DEFINE t == <<Passed(r, arg)>>
             k == Joined(r.items, pos, t)
  <2>1. t \in Seq(Items) /\ Len(t) = 1 /\ t[1] = Passed(r, arg)
    BY <1>3
  <2>2. j = k
    BY <1>1 DEF Joined
  <2> HIDE DEF t
  <2>3. /\ k \in Seq(Items) /\ Len(k) = Len(r.items) + Len(t)
        /\ \A i \in 1..(Len(r.items) + Len(t)) :
               k[i] = IF i <= pos THEN r.items[i] ELSE IF i <= pos + Len(t) THEN t[i - pos] ELSE r.items[i - Len(t)]
    <3>1. pos \in 0..Len(r.items) /\ r.items \in Seq(Items)
      BY <1>1
    <3> QED
      BY <3>1, <2>1, JoinedFacts
  <2> HIDE DEF k, j
  <2>4. ASSUME NEW i \in 1..(n + 1), ~(i <= pos), i <= pos + 1 PROVE t[i - pos] = Passed(r, arg)
    <3>1. i - pos = 1
      BY <2>4, <1>1
    <3> QED
      BY <3>1, <2>1
  <2> QED
    BY <2>1, <2>2, <2>3, <2>4, <1>1
<1> HIDE DEF j
<1>5. CASE pos = n
  <2>1. q = EmplaceBack(r, arg)
    BY <1>5 DEF Emplace
  <2>2. /\ ArrayFits(q) /\ Size(q) = n + 1
        /\ \A i \in 1..n : q.items[i] = r.items[i]
        /\ q.items[n + 1] = Argument(r.items, arg, full)
    BY <2>1, EmplaceBackFacts
  <2>3. q.items \in Seq(Items) /\ Len(q.items) = n + 1
    BY <2>2, SizeNat DEF ArrayFits, Size
  <2>4. ASSUME ~(full /\ arg.own) PROVE q.items = j
    <3>1. Argument(r.items, arg, full) = Passed(r, arg)
      BY <2>4 DEF Argument, Passed
    <3>2. \A i \in 1..(n + 1) : q.items[i] = j[i]
      BY <3>1, <2>2, <1>1, <1>4, <1>5
    <3> QED
      BY <3>2, <2>3, <1>4, SeqEqual
  <2> QED
    BY <2>2, <2>4 DEF j
<1>6. CASE pos < n
  <2> DEFINE grown == EmplaceBack(r, Own(n - 1))
             shifted == [i \in 1..Size(grown) |-> IF i \in (pos + 2)..n THEN r.items[i - 1] ELSE grown.items[i]]
             new == Argument(shifted, arg, full)
             all == [shifted EXCEPT ![pos + 1] = new]
  <2>1. q = [grown EXCEPT !.items = all]
    BY <1>6, <1>1 DEF Emplace
  <2>2. ArgumentFits(r, Own(n - 1))
    BY <1>1, <1>6 DEF ArgumentFits, Own, Items
  <2>3. /\ ArrayFits(grown) /\ Size(grown) = n + 1
        /\ \A i \in 1..n : grown.items[i] = r.items[i]
    BY <2>2, EmplaceBackFacts
  <2>4. grown.items \in Seq(Items) /\ Len(grown.items) = n + 1
    BY <2>3, SizeNat DEF ArrayFits, Size
  <2> HIDE DEF grown
  <2>5. \A i \in 1..(n + 1) : grown.items[i] \in Items
    BY <2>4, ElementOfSeq
  <2>6. \A i \in 1..n : r.items[i] \in Items
    BY <1>1, ElementOfSeq
  <2>7. shifted \in [1..(n + 1) -> Items]
    BY <2>3, <2>5, <2>6, <1>1
  <2>8. \A i \in 1..(n + 1) : shifted[i] = IF i \in (pos + 2)..n THEN r.items[i - 1] ELSE grown.items[i]
    BY <2>3
  <2> HIDE DEF shifted
  <2>9. new \in Items
    <3>1. CASE arg.own /\ ~full
      <4>1. arg.at + 1 \in 1..(n + 1)
        BY <3>1, <1>1 DEF ArgumentFits
      <4> QED
        BY <4>1, <3>1, <2>7 DEF Argument
    <3>2. CASE arg.own /\ full
      BY <3>2 DEF Argument, Items
    <3>3. CASE ~arg.own
      BY <3>3 DEF Argument, ArgumentFits
    <3> QED
      BY <3>1, <3>2, <3>3
  <2>10. all \in Seq(Items) /\ Len(all) = n + 1
    <3>1. all \in [1..(n + 1) -> Items]
      BY <2>7, <2>9
    <3> HIDE DEF all
    <3>2. n + 1 \in Nat
      BY <1>1
    <3> QED
      BY <3>1, <3>2, FunctionIsSeq
  <2>11. \A i \in 1..(n + 1) : all[i] = IF i = pos + 1 THEN new ELSE shifted[i]
    BY <2>7
  <2> HIDE DEF all
  <2>12. Roomy(grown, n + 1)
    BY <2>3 DEF ArrayFits
  <2>13. ArrayFits(q) /\ q.items = all
    BY <2>1, <2>3, <2>10, <2>12, Refit
  <2>14. ASSUME ~full, ~(arg.own /\ pos < arg.at) PROVE all = j
    <3>1. new = Passed(r, arg)
      <4>1. CASE arg.own
        <5>1. arg.at + 1 \in 1..(pos + 1) /\ arg.at + 1 \in 1..n /\ arg.at + 1 \notin (pos + 2)..n
          BY <4>1, <1>1, <1>6, <2>14 DEF ArgumentFits
        <5>2. new = shifted[arg.at + 1]
          BY <4>1, <2>14 DEF Argument
        <5>3. shifted[arg.at + 1] = grown.items[arg.at + 1]
          BY <5>1, <2>8, <1>1
        <5> QED
          BY <5>1, <5>2, <5>3, <2>3, <4>1 DEF Passed
      <4>2. CASE ~arg.own
        BY <4>2 DEF Argument, Passed
      <4> QED
        BY <4>1, <4>2
    <3>2. grown.items[n + 1] = r.items[n]
      <4>1. grown.items[n + 1] = Argument(r.items, Own(n - 1), full)
        BY <2>2, EmplaceBackFacts DEF grown
      <4>2. Own(n - 1).own /\ Own(n - 1).at = n - 1
        BY DEF Own
      <4>3. Argument(r.items, Own(n - 1), full) = r.items[(n - 1) + 1]
        BY <4>2, <2>14 DEF Argument
      <4> QED
        BY <4>1, <4>3, <1>1
    <3>3. ASSUME NEW i \in 1..(n + 1) PROVE all[i] = j[i]
      <4>1. CASE i <= pos
        BY <4>1, <2>3, <2>8, <2>11, <1>1, <1>4, <1>6
      <4>2. CASE i = pos + 1
        BY <4>2, <3>1, <2>11, <1>1, <1>4
      <4>3. CASE i \in (pos + 2)..n
        BY <4>3, <2>8, <2>11, <1>1, <1>4
      <4>4. CASE i = n + 1
        BY <4>4, <3>2, <2>8, <2>11, <1>1, <1>4, <1>6
      <4> QED
        BY <4>1, <4>2, <4>3, <4>4, <1>1
    <3> QED
      BY <3>3, <2>10, <1>4, SeqEqual
  <2> QED
    BY <2>13, <2>14, <1>6 DEF j
<1>7. pos = n \/ pos < n
  BY <1>1
<1> QED
  BY <1>5, <1>6, <1>7, Zenon

\* erase: the elements before and behind the range, in their order.
LEMMA EraseFacts ==
  ASSUME NEW r, NEW from \in 0..Size(r), NEW upto \in from..Size(r), room \in Nat, ArrayFits(r)
  PROVE  LET q == Erase(r, from, upto)
         IN  /\ ArrayFits(q) /\ Size(q) = Size(r) - (upto - from)
             /\ \A i \in 1..Size(q) : q.items[i] = r.items[IF i <= from THEN i ELSE i + (upto - from)]
<1> DEFINE n == Size(r)
           a == SubSeq(r.items, 1, from)
           b == SubSeq(r.items, upto + 1, n)
           q == [r EXCEPT !.items = a \o b]
<1>1. n \in Nat /\ r.items \in Seq(Items) /\ n = Len(r.items) /\ from \in 0..n /\ upto \in from..n
  BY SizeNat DEF ArrayFits, Size
<1> HIDE DEF n
<1>2. \A i \in 1..n : r.items[i] \in Items
  BY <1>1, ElementOfSeq
<1>3. a \in Seq(Items) /\ Len(a) = from /\ \A i \in 1..from : a[i] = r.items[i]
  <2>1. \A i \in 1..from : r.items[i] \in Items
    BY <1>1, <1>2
  <2> QED
    BY <2>1, <1>1, SubSeqProperties
<1>4. b \in Seq(Items) /\ Len(b) = n - upto /\ \A i \in 1..(n - upto) : b[i] = r.items[upto + i]
  <2>1. \A i \in (upto + 1)..n : r.items[i] \in Items
    BY <1>1, <1>2
  <2>2. /\ b \in Seq(Items) /\ Len(b) = IF upto + 1 <= n THEN n - (upto + 1) + 1 ELSE 0
        /\ \A i \in 1..(n - (upto + 1) + 1) : b[i] = r.items[(upto + 1) + i - 1]
    BY <2>1, <1>1, SubSeqProperties
  <2> QED
    BY <2>2, <1>1
<1> HIDE DEF a, b
<1>5. /\ a \o b \in Seq(Items) /\ Len(a \o b) = n - (upto - from)
      /\ \A i \in 1..(n - (upto - from)) : (a \o b)[i] = IF i <= from THEN a[i] ELSE b[i - from]
  <2>1. /\ a \o b \in Seq(Items) /\ Len(a \o b) = Len(a) + Len(b)
        /\ \A i \in 1..(Len(a) + Len(b)) : (a \o b)[i] = IF i <= Len(a) THEN a[i] ELSE b[i - Len(a)]
    BY <1>3, <1>4, ConcatProperties
  <2>2. Len(a) + Len(b) = n - (upto - from)
    BY <1>1, <1>3, <1>4
  <2> QED
    BY <2>1, <2>2, <1>3
<1>6. Roomy(r, Len(a \o b))
  <2>1. Roomy(r, n) /\ Len(a \o b) \in Nat /\ Len(a \o b) <= n
    BY <1>1, <1>5 DEF ArrayFits, n
  <2>2. r.capacity \in Nat
    BY DEF ArrayFits, Arrangement
  <2> QED
    BY <2>1, <2>2, <1>1 DEF Roomy
<1>7. ArrayFits(q) /\ q.items = a \o b /\ Size(q) = Len(a \o b)
  BY <1>5, <1>6, Refit
<1>8. Erase(r, from, upto) = q
  BY <1>1 DEF Erase, a, b
<1>9. ASSUME NEW i \in 1..(n - (upto - from))
      PROVE  (a \o b)[i] = r.items[IF i <= from THEN i ELSE i + (upto - from)]
  <2>1. CASE i <= from
    BY <2>1, <1>1, <1>3, <1>5
  <2>2. CASE ~(i <= from)
    <3>1. i - from \in 1..(n - upto) /\ upto + (i - from) = i + (upto - from)
      BY <2>2, <1>1
    <3>2. (a \o b)[i] = b[i - from] /\ b[i - from] = r.items[upto + (i - from)]
      BY <3>1, <2>2, <1>4, <1>5
    <3> QED
      BY <3>1, <3>2, <2>2
  <2> QED
    BY <2>1, <2>2
<1> HIDE DEF q
<1>10. /\ ArrayFits(q) /\ Size(q) = n - (upto - from)
       /\ \A i \in 1..Size(q) : q.items[i] = r.items[IF i <= from THEN i ELSE i + (upto - from)]
  BY <1>5, <1>7, <1>9
<1> QED
  BY <1>8, <1>10 DEF n

\* clear leaves none, and the block.
LEMMA ClearFacts ==
  ASSUME NEW r, room \in Nat, ArrayFits(r)
  PROVE  ArrayFits(Clear(r)) /\ Clear(r).items = <<>> /\ Size(Clear(r)) = 0
<1>1. Size(r) \in Nat
  BY SizeNat DEF ArrayFits
<1>2. 0 \in 0..Size(r) /\ Size(r) \in 0..Size(r) /\ Size(r) - (Size(r) - 0) = 0
  BY <1>1
<1>3. ArrayFits(Clear(r)) /\ Size(Clear(r)) = Size(r) - (Size(r) - 0)
  BY <1>2, EraseFacts DEF Clear
<1>4. Clear(r).items \in Seq(Items) /\ Len(Clear(r).items) = 0
  BY <1>2, <1>3, SizeNat DEF ArrayFits, Size
<1>5. Clear(r).items = <<>>
  BY <1>4, EmptySeq
<1> QED
  BY <1>2, <1>3, <1>5

\* What resize leaves: the elements there are, then the new value.
LEMMA ResizeFacts ==
  ASSUME NEW r, NEW n \in Nat, NEW arg, room \in Nat, ArrayFits(r), ArgumentFits(r, arg)
  PROVE  LET q == Resize(r, n, arg)
         IN  /\ ArrayFits(q) /\ Size(q) = n
             /\ \A i \in 1..n : q.items[i] = IF i <= Size(r) THEN r.items[i]
                                             ELSE Argument(r.items, arg, Moves(r, n))
<1>1. Size(r) \in Nat /\ r.items \in Seq(Items) /\ Size(r) = Len(r.items)
  BY SizeNat DEF ArrayFits, Size
<1>2. CASE n < Size(r)
  <2>1. Resize(r, n, arg) = Erase(r, n, Size(r))
    BY <1>2 DEF Resize
  <2>2. n \in 0..Size(r) /\ Size(r) \in n..Size(r) /\ Size(r) - (Size(r) - n) = n
    BY <1>1, <1>2
  <2> DEFINE q == Erase(r, n, Size(r))
  <2>3. /\ ArrayFits(q) /\ Size(q) = n
        /\ \A i \in 1..Size(q) : q.items[i] = r.items[IF i <= n THEN i ELSE i + (Size(r) - n)]
    BY <2>2, EraseFacts
  <2> HIDE DEF q
  <2>4. \A i \in 1..n : q.items[i] = r.items[i] /\ i <= Size(r)
    BY <2>3, <1>1, <1>2
  <2> QED
    BY <2>1, <2>3, <2>4 DEF q
<1>3. CASE n = Size(r)
  <2>1. Resize(r, n, arg) = r
    BY <1>3, <1>1 DEF Resize
  <2> QED
    BY <2>1, <1>3
<1>4. CASE n > Size(r)
  <2> DEFINE new == Argument(r.items, arg, Moves(r, n))
             k == n - Size(r)
             more == [i \in 1..k |-> new]
             q == ReserveAuto(r, n)
  <2>1. new \in Items
    <3>1. CASE arg.own /\ ~Moves(r, n)
      <4>1. arg.at + 1 \in 1..Len(r.items)
        BY <3>1, <1>1 DEF ArgumentFits
      <4>2. r.items[arg.at + 1] \in Items
        BY <4>1, <1>1, ElementOfSeq
      <4> QED
        BY <4>2, <3>1 DEF Argument
    <3>2. CASE arg.own /\ Moves(r, n)
      BY <3>2 DEF Argument, Items
    <3>3. CASE ~arg.own
      BY <3>3 DEF Argument, ArgumentFits
    <3> QED
      BY <3>1, <3>2, <3>3
  <2>2. Resize(r, n, arg) = [q EXCEPT !.items = q.items \o more]
    BY <1>1, <1>4 DEF Resize
  <2> HIDE DEF new
  <2>3. k \in Nat /\ more \in [1..k -> Items]
    BY <2>1, <1>1, <1>4
  <2>4. more \in Seq(Items) /\ Len(more) = k /\ \A i \in 1..k : more[i] = new
    BY <2>3, FunctionIsSeq
  <2>5. ArrayFits(q) /\ q.items = r.items /\ Roomy(q, n)
    BY <1>1, <1>4, ReserveAutoFacts
  <2> HIDE DEF more, q
  <2>6. /\ r.items \o more \in Seq(Items) /\ Len(r.items \o more) = n
        /\ \A i \in 1..n : (r.items \o more)[i] = IF i <= Size(r) THEN r.items[i] ELSE more[i - Size(r)]
    <3>1. /\ r.items \o more \in Seq(Items) /\ Len(r.items \o more) = Len(r.items) + Len(more)
          /\ \A i \in 1..(Len(r.items) + Len(more)) :
                 (r.items \o more)[i] = IF i <= Len(r.items) THEN r.items[i] ELSE more[i - Len(r.items)]
      BY <1>1, <2>4, ConcatProperties
    <3>2. Len(r.items) + Len(more) = n
      BY <1>1, <1>4, <2>4
    <3> QED
      BY <3>1, <3>2, <1>1
  <2>7. \A i \in 1..n : ~(i <= Size(r)) => more[i - Size(r)] = new
    BY <2>4, <1>1, <1>4
  <2> DEFINE p == [q EXCEPT !.items = r.items \o more]
  <2>8. ArrayFits(p) /\ p.items = r.items \o more /\ Size(p) = n
    BY <2>5, <2>6, Refit
  <2>9. Resize(r, n, arg) = p
    BY <2>2, <2>5
  <2> HIDE DEF p
  <2> QED
    BY <2>6, <2>7, <2>8, <2>9 DEF new
<1>5. n < Size(r) \/ n = Size(r) \/ n > Size(r)
  BY <1>1
<1> QED
  BY <1>2, <1>3, <1>4, <1>5, Zenon

\* insert of a range, where what is behind it keeps its order.
LEMMA InsertRangeFacts ==
  ASSUME NEW r, NEW pos \in 0..Size(r), NEW s \in Seq(Items), room \in Nat, ArrayFits(r)
  PROVE  /\ ArrayFits(InsertRange(r, pos, s))
         /\ Size(r) - pos \in {0, Len(s)} => InsertRange(r, pos, s).items = Joined(r.items, pos, s)
         /\ s = <<>> => InsertRange(r, pos, s).items = r.items
<1> DEFINE d == Len(s)
           n == Size(r)
           grown == Resize(r, n + d, Value(Junk))
           old == grown.items
           new == [i \in 1..(n + d) |->
                      CASE i \in (pos + 1)..(pos + d) -> s[i - pos]
                        [] i > n /\ i \notin (pos + 1)..(pos + d) -> old[i - n + pos]
                        [] OTHER -> old[i]]
<1>1. n \in Nat /\ r.items \in Seq(Items) /\ n = Len(r.items) /\ d \in Nat /\ pos \in 0..n
  BY SizeNat, LenProperties DEF ArrayFits, Size
<1>2. ArgumentFits(r, Value(Junk))
  BY DEF ArgumentFits, Value, Items
<1>3. /\ ArrayFits(grown) /\ Size(grown) = n + d
      /\ \A i \in 1..n : old[i] = r.items[i]
  <2>1. n + d \in Nat
    BY <1>1
  <2>2. /\ ArrayFits(grown) /\ Size(grown) = n + d
        /\ \A i \in 1..(n + d) : old[i] = IF i <= n THEN r.items[i]
                                          ELSE Argument(r.items, Value(Junk), Moves(r, n + d))
    BY <1>2, <2>1, ResizeFacts
  <2> HIDE DEF grown
  <2> QED
    BY <2>2, <1>1
<1>4. InsertRange(r, pos, s) = [grown EXCEPT !.items = new]
  BY DEF InsertRange
<1>5. old \in Seq(Items) /\ Len(old) = n + d
  BY <1>3, SizeNat DEF ArrayFits, Size
<1> HIDE DEF grown
<1>6. \A i \in 1..(n + d) : old[i] \in Items
  BY <1>5, ElementOfSeq
<1>7. \A i \in 1..d : s[i] \in Items
  BY ElementOfSeq
<1> DEFINE In(i) == i \in (pos + 1)..(pos + d)
<1>8. \A i \in 1..(n + d) :
          /\ In(i) => new[i] = s[i - pos]
          /\ ~In(i) /\ i > n => new[i] = old[i - n + pos]
          /\ ~In(i) /\ ~(i > n) => new[i] = old[i]
  OBVIOUS
<1>9. new = [i \in 1..(n + d) |-> new[i]]
  OBVIOUS
<1> HIDE DEF new, n, d, old
<1>10. new \in Seq(Items) /\ Len(new) = n + d
  <2>1. ASSUME NEW i \in 1..(n + d) PROVE new[i] \in Items
    <3>1. CASE In(i)
      <4>1. i - pos \in 1..d
        BY <1>1, <3>1
      <4>2. new[i] = s[i - pos]
        BY <1>8, <3>1
      <4> QED
        BY <4>1, <4>2, <1>7
    <3>2. CASE ~In(i) /\ i > n
      <4>1. i - n + pos \in 1..(n + d)
        BY <1>1, <3>2
      <4>2. new[i] = old[i - n + pos]
        BY <1>8, <3>2
      <4> QED
        BY <4>1, <4>2, <1>6
    <3>3. CASE ~In(i) /\ ~(i > n)
      BY <3>3, <1>6, <1>8
    <3> QED
      BY <3>1, <3>2, <3>3
  <2>3. new \in [1..(n + d) -> Items]
    BY <2>1, <1>9
  <2>2. n + d \in Nat
    BY <1>1
  <2> QED
    BY <2>2, <2>3, FunctionIsSeq
<1>11. Roomy(grown, n + d)
  BY <1>3 DEF ArrayFits
<1>12. ArrayFits(InsertRange(r, pos, s)) /\ InsertRange(r, pos, s).items = new
  BY <1>3, <1>4, <1>10, <1>11, Refit
<1>13. ASSUME n - pos \in {0, d} PROVE new = Joined(r.items, pos, s)
  <2> DEFINE j == Joined(r.items, pos, s)
  <2>1. /\ j \in Seq(Items) /\ Len(j) = n + d
        /\ \A i \in 1..(n + d) :
               j[i] = IF i <= pos THEN r.items[i] ELSE IF i <= pos + d THEN s[i - pos] ELSE r.items[i - d]
    <3>1. pos \in 0..Len(r.items) /\ r.items \in Seq(Items)
      BY <1>1
    <3> QED
      BY <1>1, <3>1, JoinedFacts DEF d
  <2> HIDE DEF j
  <2>2. ASSUME NEW i \in 1..(n + d) PROVE new[i] = j[i]
    <3>1. CASE In(i)
      <4>1. ~(i <= pos) /\ i <= pos + d
        BY <3>1, <1>1
      <4> QED
        BY <3>1, <4>1, <1>8, <2>1
    <3>2. CASE i <= pos
      <4>1. ~In(i) /\ ~(i > n) /\ i \in 1..n
        BY <3>2, <1>1
      <4> QED
        BY <3>2, <4>1, <1>3, <1>8, <2>1
    <3>3. CASE i > pos + d
      <4>1. i > n /\ n - pos = d /\ ~In(i) /\ ~(i <= pos) /\ ~(i <= pos + d)
        BY <3>3, <1>1, <1>13
      <4>2. i - n + pos = i - d /\ i - d \in 1..n
        BY <4>1, <1>1
      <4>3. new[i] = old[i - n + pos]
        BY <4>1, <1>8
      <4> QED
        BY <4>1, <4>2, <4>3, <1>3, <2>1
    <3>4. In(i) \/ i <= pos \/ i > pos + d
      BY <1>1
    <3> QED
      BY <3>1, <3>2, <3>3, <3>4
  <2> QED
    BY <2>1, <2>2, <1>10, SeqEqual DEF j
<1>14. ASSUME s = <<>> PROVE new = r.items
  <2>1. d = 0
    BY <1>14 DEF d
  <2>2. ASSUME NEW i \in 1..n PROVE new[i] = r.items[i]
    <3>1. i \in 1..(n + d) /\ ~In(i) /\ ~(i > n)
      BY <2>1, <1>1
    <3> QED
      BY <3>1, <1>3, <1>8
  <2> QED
    BY <2>1, <2>2, <1>1, <1>10, SeqEqual
<1> QED
  BY <1>12, <1>13, <1>14 DEF n, d

\* assign leaves the range that is assigned, whatever was there.
LEMMA AssignFacts ==
  ASSUME NEW r, NEW s \in Seq(Items), room \in Nat, ArrayFits(r)
  PROVE  ArrayFits(Assign(r, s)) /\ Assign(r, s).items = s
<1> DEFINE n == Size(r)
           m == Len(s)
           k == IF n < m THEN n ELSE m
           put == [i \in 1..n |-> IF i <= k THEN s[i] ELSE r.items[i]]
           over == [r EXCEPT !.items = put]
           cut == Erase(over, k, Size(over))
           rest == SubSeq(s, k + 1, m)
<1>1. n \in Nat /\ r.items \in Seq(Items) /\ n = Len(r.items) /\ m \in Nat
  BY SizeNat, LenProperties DEF ArrayFits, Size
<1>2. k \in 0..n /\ k \in 0..m /\ (k = n \/ k = m)
  BY <1>1
<1>3. Assign(r, s) = InsertRange(cut, k, rest)
  BY <1>1 DEF Assign
<1> HIDE DEF k, n, m
<1>4. \A i \in 1..n : put[i] \in Items /\ (i <= k => put[i] = s[i])
  <2>1. \A i \in 1..n : r.items[i] \in Items
    BY <1>1, ElementOfSeq
  <2>2. \A i \in 1..m : s[i] \in Items
    BY ElementOfSeq DEF m
  <2>3. \A i \in 1..n : i <= k => i \in 1..m
    BY <1>1, <1>2
  <2> QED
    BY <2>1, <2>2, <2>3
<1>5. put = [i \in 1..n |-> put[i]]
  OBVIOUS
<1> HIDE DEF put
<1>6. put \in Seq(Items) /\ Len(put) = n
  <2>1. put \in [1..n -> Items]
    BY <1>4, <1>5
  <2> QED
    BY <2>1, <1>1, FunctionIsSeq
<1>7. ArrayFits(over) /\ over.items = put /\ Size(over) = n
  <2>1. Roomy(r, Len(put))
    BY <1>6 DEF ArrayFits, n
  <2> QED
    BY <2>1, <1>6, Refit
<1> HIDE DEF over
<1>8. /\ ArrayFits(cut) /\ Size(cut) = k
      /\ \A i \in 1..k : cut.items[i] = s[i]
  <2>1. k \in 0..Size(over) /\ Size(over) \in k..Size(over)
    BY <1>1, <1>2, <1>7
  <2>2. /\ ArrayFits(cut) /\ Size(cut) = Size(over) - (Size(over) - k)
        /\ \A i \in 1..Size(cut) : cut.items[i] = over.items[IF i <= k THEN i ELSE i + (Size(over) - k)]
    BY <2>1, <1>7, EraseFacts
  <2> HIDE DEF cut
  <2>3. Size(cut) = k
    BY <2>2, <1>1, <1>2, <1>7
  <2>4. ASSUME NEW i \in 1..k PROVE cut.items[i] = s[i]
    <3>1. i \in 1..n /\ i <= k
      BY <1>1, <1>2
    <3> QED
      BY <3>1, <2>2, <2>3, <1>4, <1>7
  <2> QED
    BY <2>2, <2>3, <2>4
<1> HIDE DEF cut
<1>9. cut.items \in Seq(Items) /\ Len(cut.items) = k
  BY <1>8, SizeNat DEF ArrayFits, Size
<1>10. rest \in Seq(Items) /\ Len(rest) = m - k /\ \A i \in 1..(m - k) : rest[i] = s[k + i]
  <2>1. \A i \in (k + 1)..m : s[i] \in Items
    BY <1>1, <1>2, ElementOfSeq DEF m
  <2>2. /\ rest \in Seq(Items) /\ Len(rest) = IF k + 1 <= m THEN m - (k + 1) + 1 ELSE 0
        /\ \A i \in 1..(m - (k + 1) + 1) : rest[i] = s[(k + 1) + i - 1]
    BY <2>1, <1>1, <1>2, SubSeqProperties
  <2> QED
    BY <2>2, <1>1, <1>2
<1> HIDE DEF rest
<1>11. k \in 0..Size(cut) /\ Size(cut) - k \in {0, Len(rest)}
  BY <1>1, <1>2, <1>8
<1>12. ArrayFits(Assign(r, s)) /\ Assign(r, s).items = Joined(cut.items, k, rest)
  BY <1>3, <1>8, <1>10, <1>11, InsertRangeFacts
<1>13. Joined(cut.items, k, rest) = s
  <2> DEFINE j == Joined(cut.items, k, rest)
  <2>1. k \in 0..Len(cut.items)
    BY <1>1, <1>2, <1>9
  <2>2. /\ j \in Seq(Items) /\ Len(j) = Len(cut.items) + Len(rest)
        /\ \A i \in 1..(Len(cut.items) + Len(rest)) :
               j[i] = IF i <= k THEN cut.items[i]
                      ELSE IF i <= k + Len(rest) THEN rest[i - k] ELSE cut.items[i - Len(rest)]
    <3>1. cut.items \in Seq(Items) /\ rest \in Seq(Items)
      BY <1>9, <1>10
    <3> QED
      BY <2>1, <3>1, JoinedFacts
  <2>3. Len(cut.items) + Len(rest) = m
    BY <1>1, <1>2, <1>9, <1>10
  <2> HIDE DEF j
  <2>4. ASSUME NEW i \in 1..m PROVE j[i] = s[i]
    <3>1. CASE i <= k
      BY <3>1, <2>2, <2>3, <1>1, <1>2, <1>8
    <3>2. CASE ~(i <= k)
      <4>1. i - k \in 1..(m - k) /\ i <= k + Len(rest) /\ k + (i - k) = i
        BY <3>2, <1>1, <1>2, <1>10
      <4> QED
        BY <4>1, <3>2, <2>2, <2>3, <1>10
    <3> QED
      BY <3>1, <3>2
  <2>5. Len(j) = Len(s)
    BY <2>2, <2>3 DEF m
  <2>6. j = s
    BY <2>2, <2>4, <2>5, SeqEqual DEF m
  <2> QED
    BY <2>6 DEF j
<1> QED
  BY <1>12, <1>13

\* Copy assignment leaves the elements of the other array.
LEMMA CopyAssignFacts ==
  ASSUME NEW r, NEW s, room \in Nat, ArrayFits(r), ArrayFits(s)
  PROVE  ArrayFits(CopyAssign(r, s)) /\ CopyAssign(r, s).items = s.items
<1>1. s.items \in Seq(Items)
  BY SizeNat DEF ArrayFits
<1> QED
  BY <1>1, ClearFacts, AssignFacts DEF CopyAssign

\* The loop of emplace_back has its intermediate arrays.
LEMMA FilledSteps ==
  ASSUME NEW r, NEW s \in Seq(Items)
  PROVE  \E after : /\ after[0] = r
                    /\ \A n \in 1..Len(s) : after[n] = EmplaceBack(after[n - 1], Value(s[n]))
                    /\ Filled(r, s) = after[Len(s)]
<1> DEFINE Step(g, n) == IF n = 0 THEN r ELSE EmplaceBack(g[n - 1], Value(s[n]))
           Run(g, m) == g = [n \in 0..m |-> Step(g, n)]
           without == {m \in Nat : ~\E g : Run(g, m)}
<1>1. \A m \in Nat : \E g : Run(g, m)
  <2> SUFFICES ASSUME without # {} PROVE FALSE
    OBVIOUS
  <2>1. without \subseteq Nat
    OBVIOUS
  <2>2. PICK m \in without : \A y \in without : m <= y
    <3> HIDE DEF without
    <3> QED
      BY <2>1, LeastExists
  <2>3. m # 0
    <3>1. Run([n \in 0..0 |-> r], 0)
      OBVIOUS
    <3> QED
      BY <2>2, <3>1
  <2>4. m - 1 \in Nat /\ m - 1 \notin without
    <3>1. m \in Nat
      BY <2>2
    <3>2. m - 1 \in Nat /\ ~(m <= m - 1)
      BY <3>1, <2>3
    <3> HIDE DEF without
    <3> QED
      BY <3>2, <2>2
  <2>5. PICK g : Run(g, m - 1)
    BY <2>4
  <2> DEFINE more == [n \in 0..m |-> IF n < m THEN g[n] ELSE Step(g, m)]
  <2>6. ASSUME NEW n \in 0..m PROVE more[n] = Step(more, n)
    <3>1. CASE n = m
      <4>1. m - 1 \in 0..m /\ m - 1 < m
        BY <2>2, <2>3
      <4>2. more[m - 1] = g[m - 1] /\ more[m] = Step(g, m)
        BY <2>2, <4>1
      <4> HIDE DEF more
      <4> QED
        BY <2>3, <3>1, <4>2
    <3>2. CASE n = 0
      BY <2>2, <2>3, <2>4, <2>5, <3>2
    <3>3. CASE n # 0 /\ n < m
      <4>1. n \in 0..(m - 1) /\ n - 1 \in 0..m /\ n - 1 < m
        BY <2>2, <3>3
      <4>2. more[n] = g[n] /\ more[n - 1] = g[n - 1]
        BY <3>3, <4>1
      <4>3. g[n] = Step(g, n)
        BY <2>5, <4>1
      <4> HIDE DEF more
      <4> QED
        BY <3>3, <4>2, <4>3
    <3> QED
      BY <2>2, <3>1, <3>2, <3>3
  <2>7. Run(more, m)
    <3>1. more = [n \in 0..m |-> more[n]]
      OBVIOUS
    <3> HIDE DEF more
    <3> QED
      BY <2>6, <3>1
  <2> QED
    BY <2>2, <2>7
<1> DEFINE c == Len(s)
           after == CHOOSE g : Run(g, c)
<1>2. Run(after, c)
  <2>1. c \in Nat
    BY LenProperties
  <2> QED
    BY <1>1, <2>1
<1>3. Filled(r, s) = after[c]
  BY DEF Filled
<1>4. after[0] = r
  <2>1. 0 \in 0..c
    BY LenProperties
  <2> HIDE DEF after
  <2> QED
    BY <1>2, <2>1
<1>5. \A n \in 1..c : after[n] = EmplaceBack(after[n - 1], Value(s[n]))
  <2>1. \A n \in 1..c : n \in 0..c /\ n # 0
    BY LenProperties
  <2> HIDE DEF after
  <2> QED
    BY <1>2, <2>1
<1> HIDE DEF after
<1> QED
  BY <1>3, <1>4, <1>5

\* It leaves the elements it was given, by their number.
LEMMA FilledFacts ==
  ASSUME NEW r, NEW s \in Seq(Items), room \in Nat, ArrayFits(r), r.items = <<>>
  PROVE  ArrayFits(Filled(r, s)) /\ Filled(r, s).items = s
<1> DEFINE m == Len(s)
<1>1. m \in Nat /\ \A i \in 1..m : s[i] \in Items
  BY LenProperties, ElementOfSeq
<1>2. PICK after : /\ after[0] = r
                   /\ \A n \in 1..m : after[n] = EmplaceBack(after[n - 1], Value(s[n]))
                   /\ Filled(r, s) = after[m]
  BY FilledSteps
<1> HIDE DEF m
<1> DEFINE P(n) == /\ ArrayFits(after[n]) /\ Size(after[n]) = n
                   /\ \A i \in 1..n : after[n].items[i] = s[i]
           wrong == {n \in 0..m : ~P(n)}
<1>3. ASSUME NEW n \in 1..m, P(n - 1) PROVE P(n)
  <2> DEFINE old == after[n - 1]
             arg == Value(s[n])
  <2>1. after[n] = EmplaceBack(old, arg)
    BY <1>2
  <2>2. /\ ArrayFits(old) /\ Size(old) = n - 1
        /\ \A i \in 1..(n - 1) : old.items[i] = s[i]
    BY <1>3
  <2>3. ArgumentFits(old, arg) /\ ~arg.own /\ arg.val = s[n]
    BY <1>1 DEF ArgumentFits, Value
  <2> HIDE DEF old, arg
  <2>4. /\ ArrayFits(after[n]) /\ Size(after[n]) = (n - 1) + 1
        /\ \A i \in 1..(n - 1) : after[n].items[i] = old.items[i]
        /\ after[n].items[(n - 1) + 1] = Argument(old.items, arg, Moves(old, (n - 1) + 1))
    BY <2>1, <2>2, <2>3, EmplaceBackFacts
  <2>5. after[n].items[n] = s[n]
    <3>1. Argument(old.items, arg, Moves(old, (n - 1) + 1)) = s[n]
      BY <2>3 DEF Argument
    <3> QED
      BY <2>4, <3>1, <1>1
  <2>6. ASSUME NEW i \in 1..n PROVE after[n].items[i] = s[i]
    <3>1. i = n \/ i \in 1..(n - 1)
      BY <1>1
    <3> QED
      BY <3>1, <2>2, <2>4, <2>5
  <2> QED
    BY <2>4, <2>6, <1>1
<1>4. P(0)
  <2>1. Size(r) = 0
    BY DEF Size
  <2> QED
    BY <2>1, <1>2
<1> HIDE DEF P
<1>5. wrong = {}
  <2> SUFFICES ASSUME wrong # {} PROVE FALSE
    OBVIOUS
  <2>1. wrong \subseteq Nat
    BY <1>1
  <2>2. PICK n \in wrong : \A y \in wrong : n <= y
    <3> HIDE DEF wrong
    <3> QED
      BY <2>1, LeastExists
  <2>3. n # 0 /\ n \in 0..m /\ ~P(n)
    BY <1>4, <2>2
  <2>4. n \in 1..m /\ n - 1 \in 0..m /\ n - 1 < n
    BY <2>3, <1>1
  <2>5. P(n - 1)
    BY <2>2, <2>4
  <2> QED
    BY <2>3, <2>4, <2>5, <1>3
<1>6. P(m)
  BY <1>1, <1>5
<1>7. /\ ArrayFits(after[m]) /\ Size(after[m]) = m
      /\ \A i \in 1..m : after[m].items[i] = s[i]
  BY <1>6 DEF P
<1>8. after[m].items \in Seq(Items) /\ Len(after[m].items) = Len(s)
  BY <1>7, SizeNat DEF ArrayFits, Size, m
<1>9. after[m].items = s
  BY <1>7, <1>8, SeqEqual DEF m
<1> QED
  BY <1>2, <1>7, <1>9

\* Move assignment leaves the elements of the other array, and that one empty.
LEMMA MoveAssignFacts ==
  ASSUME NEW r, NEW s, room \in Nat, ArrayFits(r), ArrayFits(s)
  PROVE  /\ ArrayFits(MoveAssign(r, s)[1]) /\ MoveAssign(r, s)[1].items = s.items
         /\ ArrayFits(MoveAssign(r, s)[2]) /\ MoveAssign(r, s)[2].items = <<>>
<1>1. CASE room = 0
  <2>1. MoveAssign(r, s)[1] = s /\ MoveAssign(r, s)[2] = Empty
    BY <1>1 DEF MoveAssign
  <2>2. ArrayFits(Empty) /\ Empty.items = <<>>
    BY EmptySeq DEF ArrayFits, Empty, Arrangement, Roomy, Size
  <2> QED
    BY <2>1, <2>2
<1>2. CASE room # 0
  <2> DEFINE q == ReserveExact(Clear(r), Size(s))
  <2>1. MoveAssign(r, s)[1] = Filled(q, s.items) /\ MoveAssign(r, s)[2] = Clear(s)
    BY <1>2 DEF MoveAssign
  <2>2. Size(s) \in Nat /\ s.items \in Seq(Items)
    BY SizeNat DEF ArrayFits
  <2>3. ArrayFits(Clear(r)) /\ Clear(r).items = <<>> /\ Size(Clear(r)) <= Size(s)
    BY <2>2, ClearFacts
  <2>4. ArrayFits(q) /\ q.items = <<>>
    BY <2>2, <2>3, ReserveExactFacts
  <2> HIDE DEF q
  <2>5. ArrayFits(Filled(q, s.items)) /\ Filled(q, s.items).items = s.items
    BY <2>2, <2>4, FilledFacts
  <2> QED
    BY <2>1, <2>5, ClearFacts
<1> QED
  BY <1>1, <1>2

\* swap, three moves through a temporary.
LEMMA SwapFacts ==
  ASSUME NEW r, NEW s, room \in Nat, ArrayFits(r), ArrayFits(s)
  PROVE  /\ ArrayFits(Swap(r, s)[1]) /\ Swap(r, s)[1].items = s.items
         /\ ArrayFits(Swap(r, s)[2]) /\ Swap(r, s)[2].items = r.items
<1> DEFINE t == MoveAssign(Empty, r)
           u == MoveAssign(t[2], s)
           w == MoveAssign(u[2], t[1])
<1>1. Swap(r, s)[1] = u[1] /\ Swap(r, s)[2] = w[1]
  BY DEF Swap
<1>2. ArrayFits(Empty)
  BY EmptySeq DEF ArrayFits, Empty, Arrangement, Roomy, Size
<1>3. ArrayFits(t[1]) /\ t[1].items = r.items /\ ArrayFits(t[2])
  BY <1>2, MoveAssignFacts
<1> HIDE DEF t
<1>4. ArrayFits(u[1]) /\ u[1].items = s.items /\ ArrayFits(u[2])
  BY <1>3, MoveAssignFacts
<1> HIDE DEF u
<1>5. ArrayFits(w[1]) /\ w[1].items = t[1].items
  BY <1>3, <1>4, MoveAssignFacts
<1> QED
  BY <1>1, <1>3, <1>4, <1>5

\* The initial arrays, which are empty.
LEMMA ArraysInvInit == ASSUME ArraysInit PROVE ArraysInv
<1>1. room \in Rooms /\ room \in Nat /\ \A x \in Arrays : array[x] = Empty
  BY ArrayAssumption DEF ArraysInit
<1>2. ArrayFits(Empty)
  BY <1>1, EmptySeq DEF ArrayFits, Empty, Arrangement, Roomy, Size
<1>3. array = [x \in Arrays |-> array[x]]
  BY DEF ArraysInit
<1> QED
  BY <1>1, <1>2, <1>3 DEF ArraysInv

\* The elements a caller passes.
LEMMA ArgumentsFit ==
  ASSUME NEW r, ArrayFits(r), NEW arg \in Arguments(r) \cup {Value(Junk)}
  PROVE  ArgumentFits(r, arg)
<1>1. Size(r) \in Nat
  BY SizeNat DEF ArrayFits
<1>2. CASE arg \in {Value(v) : v \in Values} \cup {Value(Junk)}
  <2>1. PICK v \in Items : arg = Value(v)
    BY <1>2 DEF Items
  <2> QED
    BY <2>1 DEF ArgumentFits, Value
<1>3. CASE arg \in {Own(i) : i \in 0..(Size(r) - 1)}
  <2>1. PICK i \in 0..(Size(r) - 1) : arg = Own(i)
    BY <1>3
  <2>2. i \in Nat /\ i < Size(r)
    BY <1>1
  <2>3. Junk \in Items
    BY DEF Items
  <2> QED
    BY <2>1, <2>2, <2>3 DEF ArgumentFits, Own
<1> QED
  BY <1>2, <1>3 DEF Arguments

\* The ranges a caller passes.
LEMMA RangesAreSeqs ==
  ASSUME NEW s \in Ranges
  PROVE  s \in Seq(Items)
<1>1. PICK n \in 0..MaxRange : s \in [1..n -> Values]
  BY DEF Ranges
<1>2. n \in Nat /\ s \in [1..n -> Items]
  BY <1>1, ArrayAssumption DEF Items
<1> QED
  BY <1>2, FunctionIsSeq

\* Every call leaves an array as it has to be.
LEMMA ArraysInvNext ==
  ASSUME ArraysInv, [ArraysNext]_arrayVars
  PROVE  ArraysInv'
<1>1. room \in Rooms /\ room \in Nat /\ \A x \in Arrays : ArrayFits(array[x])
  BY ArrayAssumption DEF ArraysInv
<1>2. ASSUME NEW x \in Arrays, NEW r, ArrayFits(r), Becomes(x, r) PROVE ArraysInv'
  <2>1. room' = room /\ array' = [array EXCEPT ![x] = r]
    BY <1>2 DEF Becomes
  <2>2. array' = [y \in Arrays |-> array'[y]] /\ \A y \in Arrays : array'[y] = IF y = x THEN r ELSE array[y]
    BY <2>1 DEF ArraysInv
  <2>3. ASSUME NEW y \in Arrays PROVE ArrayFits(array'[y])
    BY <2>2, <1>1, <1>2
  <2>4. ASSUME NEW q, ArrayFits(q) PROVE ArrayFits(q)'
    BY <2>1, <2>4 DEF ArrayFits, Roomy, Size
  <2> QED
    BY <1>1, <2>1, <2>2, <2>3 DEF ArraysInv, ArrayFits, Roomy, Size
<1>3. ASSUME NEW x \in Arrays, NEW y \in Arrays, NEW pair, ArrayFits(pair[1]), ArrayFits(pair[2]), Become(x, y, pair)
      PROVE  ArraysInv'
  <2>1. room' = room /\ array' = [array EXCEPT ![x] = pair[1], ![y] = pair[2]]
    BY <1>3 DEF Become
  <2>2. /\ array' = [z \in Arrays |-> array'[z]]
        /\ \A z \in Arrays : array'[z] = IF z = y THEN pair[2] ELSE IF z = x THEN pair[1] ELSE array[z]
    BY <2>1 DEF ArraysInv
  <2>3. ASSUME NEW z \in Arrays PROVE ArrayFits(array'[z])
    BY <2>2, <1>1, <1>3
  <2> QED
    BY <1>1, <2>1, <2>2, <2>3 DEF ArraysInv, ArrayFits, Roomy, Size
<1>4. ASSUME NEW x \in Arrays, DoEmplace(x) PROVE ArraysInv'
  <2>1. PICK pos \in 0..Size(array[x]), arg \in Arguments(array[x]) : Becomes(x, Emplace(array[x], pos, arg))
    BY <1>4 DEF DoEmplace
  <2>2. ArrayFits(Emplace(array[x], pos, arg))
    BY <1>1, ArgumentsFit, EmplaceFacts
  <2> QED
    BY <2>1, <2>2, <1>2
<1>5. ASSUME NEW x \in Arrays, DoInsertRange(x) PROVE ArraysInv'
  <2>1. PICK pos \in 0..Size(array[x]), s \in Ranges : Becomes(x, InsertRange(array[x], pos, s))
    BY <1>5 DEF DoInsertRange
  <2>2. ArrayFits(InsertRange(array[x], pos, s))
    BY <1>1, RangesAreSeqs, InsertRangeFacts
  <2> QED
    BY <2>1, <2>2, <1>2
<1>6. ASSUME NEW x \in Arrays, DoErase(x) PROVE ArraysInv'
  <2>1. PICK from \in 0..Size(array[x]), upto \in 0..Size(array[x]) :
            from <= upto /\ Becomes(x, Erase(array[x], from, upto))
    BY <1>6 DEF DoErase
  <2>2. Size(array[x]) \in Nat
    BY <1>1, SizeNat DEF ArrayFits
  <2>3. upto \in from..Size(array[x])
    BY <2>1, <2>2
  <2>4. ArrayFits(Erase(array[x], from, upto))
    BY <1>1, <2>3, EraseFacts
  <2> QED
    BY <2>1, <2>4, <1>2
<1>7. ASSUME NEW x \in Arrays, DoResize(x) PROVE ArraysInv'
  <2>1. PICK n \in 0..MaxSize, arg \in Arguments(array[x]) \cup {Value(Junk)} : Becomes(x, Resize(array[x], n, arg))
    BY <1>7 DEF DoResize
  <2>2. n \in Nat /\ ArgumentFits(array[x], arg)
    BY <1>1, ArgumentsFit, ArrayAssumption
  <2>3. ArrayFits(Resize(array[x], n, arg))
    BY <1>1, <2>2, ResizeFacts
  <2> QED
    BY <2>1, <2>3, <1>2
<1>8. ASSUME NEW x \in Arrays, DoReserve(x) PROVE ArraysInv'
  <2>1. PICK c \in 0..MaxReserved : Becomes(x, Reserve(array[x], c))
    BY <1>8 DEF DoReserve
  <2> DEFINE r == array[x]
  <2>2. Size(r) \in Nat /\ ArrayFits(r) /\ r.capacity \in Nat /\ c \in Nat
    BY <1>1, SizeNat, ArrayAssumption DEF ArrayFits, Arrangement
  <2> HIDE DEF r
  <2>3. CASE c > r.capacity /\ Size(r) <= c
    BY <2>1, <2>2, <2>3, <1>1, <1>2, ReserveExactFacts DEF Reserve, r
  <2>4. CASE ~(c > r.capacity)
    BY <2>1, <2>2, <2>4, <1>2 DEF Reserve, r
  <2>5. CASE c > r.capacity /\ ~(Size(r) <= c)
    <3>1. r.place = "local" /\ Size(r) <= room
      <4>1. r.place \in {"none", "local", "heap"}
        BY <2>2 DEF ArrayFits, Arrangement
      <4>2. CASE r.place = "none"
        BY <4>2, <2>2, <2>5 DEF ArrayFits, Roomy
      <4>3. CASE r.place = "heap"
        BY <4>3, <2>2, <2>5 DEF ArrayFits, Roomy
      <4> QED
        BY <4>1, <4>2, <4>3, <2>2 DEF ArrayFits, Roomy
    <3>2. Inside(c)
      BY <2>2, <2>5, <3>1, <1>1 DEF Inside
    <3>3. Reserve(r, c) = r
      BY <2>5, <3>1, <3>2 DEF Reserve, ReserveExact
    <3> QED
      BY <2>1, <2>2, <3>3, <1>2 DEF r
  <2> QED
    BY <2>3, <2>4, <2>5
<1>9. ASSUME NEW x \in Arrays, DoShrinkToFit(x) PROVE ArraysInv'
  <2>1. Size(array[x]) \in Nat
    BY <1>1, SizeNat DEF ArrayFits
  <2>2. ArrayFits(ShrinkToFit(array[x]))
    BY <2>1, <1>1, ReserveExactFacts DEF ShrinkToFit
  <2> QED
    BY <2>2, <1>2, <1>9 DEF DoShrinkToFit
<1>10. ASSUME NEW x \in Arrays, DoAssign(x) PROVE ArraysInv'
  <2>1. PICK s \in Ranges : Becomes(x, Assign(array[x], s))
    BY <1>10 DEF DoAssign
  <2>2. ArrayFits(Assign(array[x], s))
    BY <1>1, RangesAreSeqs, AssignFacts
  <2> QED
    BY <2>1, <2>2, <1>2
<1>11. ASSUME NEW x \in Arrays, Renew(x) PROVE ArraysInv'
  <2>1. ArrayFits(Empty)
    BY <1>1, EmptySeq DEF ArrayFits, Empty, Arrangement, Roomy, Size
  <2> QED
    BY <2>1, <1>2, <1>11 DEF Renew
<1>12. ASSUME NEW x \in Arrays, NEW y \in Arrays, DoCopyAssign(x, y) PROVE ArraysInv'
  BY <1>1, <1>2, <1>12, CopyAssignFacts DEF DoCopyAssign
<1>13. ASSUME NEW x \in Arrays, NEW y \in Arrays, DoMoveAssign(x, y) PROVE ArraysInv'
  BY <1>1, <1>3, <1>13, MoveAssignFacts DEF DoMoveAssign
<1>14. ASSUME NEW x \in Arrays, NEW y \in Arrays, DoSwap(x, y) PROVE ArraysInv'
  BY <1>1, <1>3, <1>14, SwapFacts DEF DoSwap
<1>15. CASE UNCHANGED arrayVars
  BY <1>15 DEF ArraysInv, arrayVars, ArrayFits, Roomy, Size
<1> QED
  BY <1>4, <1>5, <1>6, <1>7, <1>8, <1>9, <1>10, <1>11, <1>12, <1>13, <1>14, <1>15 DEF ArraysNext

\* What the calls do to any arrays there are, by the lemmas about each.
LEMMA ArraysAreSequences ==
  ASSUME ArraysInv
  PROVE  ElementsFit /\ CallsAsSequences
<1>1. room \in Nat /\ \A x \in Arrays : ArrayFits(array[x])
  BY ArrayAssumption DEF ArraysInv
<1>2. ElementsFit
  <2> SUFFICES ASSUME NEW x \in Arrays
               PROVE  /\ CASE array[x].place = "none" -> array[x] = Empty
                           [] array[x].place = "local" -> Size(array[x]) <= room
                           [] array[x].place = "heap" -> Size(array[x]) <= array[x].capacity
                      /\ array[x].capacity = 0 /\ Size(array[x]) > 0 => array[x].place = "local"
    BY DEF ElementsFit
  <2> DEFINE r == array[x]
  <2>1. ArrayFits(r) /\ r.place \in {"none", "local", "heap"} /\ Size(r) \in Nat
    BY <1>1, SizeNat DEF ArrayFits, Arrangement
  <2> HIDE DEF r
  <2>2. CASE r.place = "none"
    BY <2>1, <2>2 DEF ArrayFits, Roomy, r
  <2>3. CASE r.place = "local"
    BY <2>1, <2>3 DEF ArrayFits, Roomy, r
  <2>4. CASE r.place = "heap"
    BY <2>1, <2>4 DEF ArrayFits, Roomy, r
  <2> QED
    BY <2>1, <2>2, <2>3, <2>4
<1>3. ASSUME NEW x \in Arrays, NEW pos \in 0..Size(array[x]), NEW arg \in Arguments(array[x])
      PROVE  \/ Emplace(array[x], pos, arg).items =
                    SubSeq(array[x].items, 1, pos) \o <<Passed(array[x], arg)>>
                        \o SubSeq(array[x].items, pos + 1, Size(array[x]))
             \/ Moves(array[x], Size(array[x]) + 1) /\ (arg.own \/ pos < Size(array[x]))
             \/ arg.own /\ pos < arg.at
  BY <1>1, ArgumentsFit, EmplaceFacts
<1>4. ASSUME NEW x \in Arrays, NEW pos \in 0..Size(array[x]), NEW s \in Ranges
      PROVE  \/ InsertRange(array[x], pos, s).items =
                    SubSeq(array[x].items, 1, pos) \o s \o SubSeq(array[x].items, pos + 1, Size(array[x]))
             \/ Size(array[x]) - pos \notin {0, Len(s)}
  <2>1. s \in Seq(Items)
    BY RangesAreSeqs
  <2>2. Size(array[x]) - pos \in {0, Len(s)} =>
            InsertRange(array[x], pos, s).items = Joined(array[x].items, pos, s)
    BY <1>1, <2>1, InsertRangeFacts
  <2> QED
    BY <2>2 DEF Joined, Size
<1>5. ASSUME NEW x \in Arrays, NEW from \in 0..Size(array[x]), NEW upto \in from..Size(array[x])
      PROVE  /\ \A i \in 0..(Size(array[x]) - 1) \ from..(upto - 1) :
                   Erase(array[x], from, upto).items[IF i < from THEN i + 1 ELSE i + 1 - (upto - from)]
                       = array[x].items[i + 1]
             /\ Size(Erase(array[x], from, upto)) = Size(array[x]) - (upto - from)
             /\ EraseReturns(array[x], from, upto) = from \/ upto < Size(array[x])
  <2> DEFINE r == array[x]
             q == Erase(r, from, upto)
             n == Size(r)
             d == upto - from
  <2>1. n \in Nat /\ from \in Nat /\ upto \in Nat /\ from <= upto /\ upto <= n
    BY <1>1, SizeNat DEF ArrayFits
  <2>2. /\ Size(q) = n - d
        /\ \A j \in 1..Size(q) : q.items[j] = r.items[IF j <= from THEN j ELSE j + d]
    BY <1>1, EraseFacts
  <2> HIDE DEF r, q, n
  <2>3. ASSUME NEW i \in 0..(n - 1) \ from..(upto - 1)
        PROVE  q.items[IF i < from THEN i + 1 ELSE i + 1 - d] = r.items[i + 1]
    <3>1. CASE i < from
      <4>1. i + 1 \in 1..(n - d) /\ i + 1 <= from
        BY <2>1, <3>1
      <4> QED
        BY <2>2, <3>1, <4>1
    <3>2. CASE ~(i < from)
      <4>1. i + 1 - d \in 1..(n - d) /\ ~(i + 1 - d <= from) /\ (i + 1 - d) + d = i + 1
        BY <2>1, <3>2
      <4> HIDE DEF d
      <4> QED
        BY <2>2, <3>2, <4>1
    <3> QED
      BY <3>1, <3>2
  <2>4. EraseReturns(r, from, upto) = IF from = upto THEN upto ELSE Size(q)
    BY DEF EraseReturns, q
  <2>5. EraseReturns(r, from, upto) = from \/ upto < n
    BY <2>1, <2>2, <2>4
  <2> QED
    BY <2>2, <2>3, <2>5 DEF r, q, n
<1>6. ASSUME NEW x \in Arrays, NEW n \in 0..MaxSize, NEW arg \in Arguments(array[x])
      PROVE  \/ arg.own /\ Moves(array[x], n)
             \/ /\ Size(Resize(array[x], n, arg)) = n
                /\ \A i \in 1..n :
                     Resize(array[x], n, arg).items[i] =
                         IF i <= Size(array[x]) THEN array[x].items[i] ELSE Passed(array[x], arg)
  <2> DEFINE r == array[x]
             q == Resize(r, n, arg)
  <2>1. n \in Nat /\ ArgumentFits(r, arg)
    BY <1>1, ArgumentsFit, ArrayAssumption
  <2>2. /\ Size(q) = n
        /\ \A i \in 1..n : q.items[i] = IF i <= Size(r) THEN r.items[i]
                                        ELSE Argument(r.items, arg, Moves(r, n))
    BY <1>1, <2>1, ResizeFacts
  <2>3. arg.own \in BOOLEAN
    BY <2>1 DEF ArgumentFits
  <2>4. (arg.own /\ Moves(r, n)) \/ Argument(r.items, arg, Moves(r, n)) = Passed(r, arg)
    BY <2>3 DEF Argument, Passed
  <2> HIDE DEF r, q
  <2>5. CASE arg.own /\ Moves(r, n)
    BY <2>5 DEF r
  <2>6. CASE Argument(r.items, arg, Moves(r, n)) = Passed(r, arg)
    <3>1. \A i \in 1..n : q.items[i] = IF i <= Size(r) THEN r.items[i] ELSE Passed(r, arg)
      BY <2>2, <2>6
    <3> QED
      BY <3>1, <2>2 DEF r, q
  <2> QED
    BY <2>4, <2>5, <2>6
<1>7. ASSUME NEW x \in Arrays, NEW s \in Ranges PROVE Assign(array[x], s).items = s
  <2>1. s \in Seq(Items)
    BY RangesAreSeqs
  <2> QED
    BY <1>1, <2>1, AssignFacts
<1>8. ASSUME NEW x \in Arrays, NEW y \in Arrays
      PROVE  /\ CopyAssign(array[x], array[y]).items = array[y].items
             /\ MoveAssign(array[x], array[y])[1].items = array[y].items
             /\ MoveAssign(array[x], array[y])[2].items = <<>>
             /\ Swap(array[x], array[y])[1].items = array[y].items
             /\ Swap(array[x], array[y])[2].items = array[x].items
  BY <1>1, CopyAssignFacts, MoveAssignFacts, SwapFacts
<1>9. CallsAsSequences
  BY <1>3, <1>4, <1>5, <1>6, <1>7, <1>8, Zenon DEF CallsAsSequences
<1> QED
  BY <1>2, <1>9

-----------------------------------------------------------------------------
(***************************************************************************)
(* The containers together: a step of another one leaves the arrays alone. *)
(***************************************************************************)

-----------------------------------------------------------------------------
(***************************************************************************)
(* BSSimpleList.                                                           *)
(***************************************************************************)
LEMMA ListCardinality == \A S : List!Cardinality(S) = Cardinality(S)
  BY DEF List!Cardinality, Cardinality

\* What follows place i of a path, place 0 being in front of it.
After(s, i) == IF i < Len(s) THEN s[i + 1] ELSE NULL

\* The nodes from "at" on are those of s, the last of which has no successor.
IsPath(h, at, s) ==
    /\ s \in Seq(Nodes)
    /\ at = After(s, 0)
    /\ \A i \in 1..Len(s) : h.node[s[i]].next = After(s, i)

Apart(s) == \A i, j \in 1..Len(s) : s[i] = s[j] => i = j

\* No node comes twice, so that a path is no longer than there are nodes.
LEMMA PathIsShort ==
  ASSUME NEW s \in Seq(Nodes), Apart(s)
  PROVE  Len(s) \in Nat /\ Cardinality(Nodes) \in Nat /\ Len(s) <= Cardinality(Nodes)
<1>1. Len(s) \in Nat /\ s \in [1..Len(s) -> Nodes] /\ DOMAIN s = 1..Len(s)
  BY LenProperties
<1>2. s \in Injection(1..Len(s), Nodes)
  BY <1>1 DEF Injection, IsInjective, Apart
<1>3. IsFiniteSet(Nodes) /\ Cardinality(Nodes) \in Nat
  BY ListAssumption, FS_CardinalityType
<1>4. Cardinality(1..Len(s)) <= Cardinality(Nodes)
  BY <1>2, <1>3, FS_Injection
<1>5. Cardinality(1..Len(s)) = Len(s)
  BY <1>1, FS_Interval
<1> QED
  BY <1>1, <1>3, <1>4, <1>5

\* Following next from the first node of a path gives the path.
LEMMA ChainOfPath ==
  ASSUME NEW h, NEW at, NEW s, IsPath(h, at, s), Apart(s)
  PROVE  List!Chain(h, at) = s
<1> DEFINE c == List!Cardinality(Nodes) + 1
           Step(g, i) == IF i = 1 THEN at
                         ELSE IF g[i - 1] = NULL THEN NULL ELSE h.node[g[i - 1]].next
           Run(g) == g = [i \in 1..c |-> Step(g, i)]
           met == CHOOSE g : Run(g)
           f == [i \in 1..c |-> IF i <= Len(s) THEN s[i] ELSE NULL]
<1>1. /\ Len(s) \in Nat /\ c \in Nat /\ Len(s) < c
      /\ \A i \in 1..Len(s) : s[i] \in Nodes /\ s[i] # NULL
      /\ s \in Seq(Nodes) /\ DOMAIN s = 1..Len(s)
  <2>1. s \in Seq(Nodes)
    BY DEF IsPath
  <2>2. Len(s) \in Nat /\ List!Cardinality(Nodes) \in Nat /\ Len(s) <= List!Cardinality(Nodes)
    BY <2>1, PathIsShort, ListCardinality
  <2>3. \A i \in 1..Len(s) : s[i] \in Nodes
    BY <2>1, ElementOfSeq
  <2> QED
    BY <2>1, <2>2, <2>3, LenProperties, ListAssumption
<1> HIDE DEF c
<1>2. ASSUME NEW i \in 1..c PROVE f[i] = Step(f, i)
  <2>1. CASE i = 1
    BY <1>1, <2>1 DEF IsPath, After
  <2>2. CASE i # 1 /\ i - 1 <= Len(s)
    <3>1. i - 1 \in 1..Len(s) /\ i - 1 \in 1..c
      BY <1>1, <2>2
    <3>2. f[i - 1] = s[i - 1] /\ f[i - 1] # NULL
      BY <1>1, <3>1
    <3>3. h.node[s[i - 1]].next = After(s, i - 1)
      BY <3>1 DEF IsPath
    <3>4. After(s, i - 1) = IF i <= Len(s) THEN s[i] ELSE NULL
      BY <1>1, <3>1 DEF After
    <3> HIDE DEF f
    <3>5. Step(f, i) = IF i <= Len(s) THEN s[i] ELSE NULL
      BY <2>2, <3>2, <3>3, <3>4
    <3> QED
      BY <3>5 DEF f
  <2>3. CASE i # 1 /\ i - 1 > Len(s)
    <3>1. i - 1 \in 1..c /\ ~(i <= Len(s)) /\ ~(i - 1 <= Len(s))
      BY <1>1, <2>3
    <3> QED
      BY <2>3, <3>1
  <2> QED
    BY <1>1, <2>1, <2>2, <2>3
<1>3. Run(met)
  <2>1. f = [i \in 1..c |-> f[i]]
    OBVIOUS
  <2> HIDE DEF f
  <2>2. Run(f)
    BY <1>2, <2>1
  <2> HIDE DEF Run
  <2> QED
    BY <2>2
<1> DEFINE wrong == {i \in 1..c : met[i] # f[i]}
<1> HIDE DEF met, f
<1>4. wrong = {}
  <2> SUFFICES ASSUME wrong # {} PROVE FALSE
    OBVIOUS
  <2>1. wrong \subseteq Nat
    BY <1>1
  <2>2. PICK i \in wrong : \A y \in wrong : i <= y
    <3> HIDE DEF wrong
    <3> QED
      BY <2>1, LeastExists
  <2>3. i \in 1..c /\ met[i] = Step(met, i) /\ f[i] = Step(f, i) /\ met[i] # f[i]
    BY <1>2, <1>3, <2>2
  <2>4. i # 1
    BY <2>3
  <2>5. i - 1 \in 1..c /\ ~(i <= i - 1)
    BY <1>1, <2>3, <2>4
  <2>6. met[i - 1] = f[i - 1]
    BY <2>2, <2>5
  <2> QED
    BY <2>3, <2>4, <2>6
<1>5. ASSUME NEW i \in 1..c PROVE met[i] = IF i <= Len(s) THEN s[i] ELSE NULL
  <2>1. met[i] = f[i]
    BY <1>4
  <2> QED
    BY <2>1 DEF f
<1>6. DOMAIN met = 1..c /\ \A i \in 1..Len(s) : i \in 1..c
  BY <1>1, <1>3
<1>7. {j \in DOMAIN met : met[j] # NULL} = 1..Len(s)
  BY <1>1, <1>5, <1>6
<1>8. List!Chain(h, at) = [i \in 1..Len(s) |-> s[i]]
  <2>1. List!Chain(h, at) = [i \in {j \in DOMAIN met : met[j] # NULL} |-> met[i]]
    BY DEF List!Chain, met, c
  <2>2. \A i \in 1..Len(s) : met[i] = s[i]
    BY <1>5, <1>6
  <2> QED
    BY <1>7, <2>1, <2>2
<1>9. s = [i \in 1..Len(s) |-> s[i]]
  BY <1>1, LenProperties
<1> QED
  BY <1>8, <1>9
-----------------------------------------------------------------------------
(* What a heap holds.                                                       *)
Element == [value : Values \cup {Zero}, next : Nodes \cup {NULL}]
Heaps == [root : [Lists -> Element], node : [Nodes -> Element], used : SUBSET Nodes]

OnPath(n, s) == \E i \in 1..Len(s) : n = s[i]

\* p[l] are the nodes of list l, in order: no node is in two places, and those
\* that exist are all in one.
Laid(h, p) ==
    /\ h \in Heaps
    /\ p \in [Lists -> Seq(Nodes)]
    /\ \A l \in Lists : IsPath(h, h.root[l].next, p[l])
    /\ \A l, m \in Lists : \A i \in 1..Len(p[l]), j \in 1..Len(p[m]) :
           p[l][i] = p[m][j] => l = m /\ i = j
    /\ \A n \in Nodes : n \in h.used <=> \E l \in Lists : OnPath(n, p[l])

LEMMA LaidFacts ==
  ASSUME NEW h, NEW p, Laid(h, p), NEW l \in Lists
  PROVE  /\ p[l] \in Seq(Nodes) /\ Len(p[l]) \in Nat /\ Apart(p[l])
         /\ IsPath(h, h.root[l].next, p[l]) /\ List!Behind(h, l) = p[l]
         /\ \A i \in 1..Len(p[l]) : p[l][i] \in Nodes /\ p[l][i] \in h.used
         /\ h.root[l] \in Element /\ h.root \in [Lists -> Element]
         /\ h.node \in [Nodes -> Element] /\ h.used \subseteq Nodes
<1>1. /\ h.root \in [Lists -> Element] /\ h.node \in [Nodes -> Element] /\ h.used \subseteq Nodes
      /\ p[l] \in Seq(Nodes) /\ IsPath(h, h.root[l].next, p[l]) /\ Apart(p[l])
  BY DEF Laid, Heaps, Apart
<1>2. \A i \in 1..Len(p[l]) : p[l][i] \in Nodes
  BY <1>1, ElementOfSeq
<1>3. \A i \in 1..Len(p[l]) : p[l][i] \in h.used
  BY <1>2 DEF Laid, OnPath
<1>4. List!Behind(h, l) = p[l]
  BY <1>1, ChainOfPath DEF List!Behind
<1> QED
  BY <1>1, <1>2, <1>3, <1>4, LenProperties

\* The nodes of one list are laid anew, those of the others are left alone.
LEMMA Relaid ==
  ASSUME NEW h, NEW p, Laid(h, p), NEW l \in Lists, NEW g \in Heaps,
         NEW t, IsPath(g, g.root[l].next, t), Apart(t),
         \A m \in Lists : m # l => g.root[m] = h.root[m],
         \A n \in h.used : ~OnPath(n, p[l]) => n \in g.used /\ g.node[n] = h.node[n],
         \A i \in 1..Len(t) : t[i] \in g.used /\ (t[i] \in h.used => OnPath(t[i], p[l])),
         \A n \in g.used : OnPath(n, t) \/ (n \in h.used /\ ~OnPath(n, p[l]))
  PROVE  Laid(g, [p EXCEPT ![l] = t])
<1> DEFINE q == [p EXCEPT ![l] = t]
<1>1. t \in Seq(Nodes) /\ p \in [Lists -> Seq(Nodes)]
  BY DEF IsPath, Laid
<1>2. q \in [Lists -> Seq(Nodes)] /\ q[l] = t /\ \A m \in Lists : m # l => q[m] = p[m]
  BY <1>1
<1> HIDE DEF q
<1>3. ASSUME NEW m \in Lists, m # l, NEW i \in 1..Len(p[m])
      PROVE  p[m][i] \in h.used /\ ~OnPath(p[m][i], p[l])
  <2>1. p[m][i] \in h.used
    BY <1>3, LaidFacts
  <2> QED
    BY <2>1, <1>3 DEF Laid, OnPath
<1>4. \A m \in Lists : IsPath(g, g.root[m].next, q[m])
  <2> SUFFICES ASSUME NEW m \in Lists, m # l PROVE IsPath(g, g.root[m].next, p[m])
    BY <1>2
  <2>1. IsPath(h, h.root[m].next, p[m])
    BY LaidFacts
  <2>2. \A i \in 1..Len(p[m]) : g.node[p[m][i]] = h.node[p[m][i]]
    BY <1>3
  <2> QED
    BY <2>1, <2>2 DEF IsPath
<1>5. ASSUME NEW m \in Lists, NEW k \in Lists, NEW i \in 1..Len(q[m]), NEW j \in 1..Len(q[k]),
             q[m][i] = q[k][j]
      PROVE  m = k /\ i = j
  <2>1. CASE m = l /\ k = l
    BY <1>2, <1>5, <2>1 DEF Apart
  <2>2. CASE m = l /\ k # l
    <3>1. p[k][j] \in h.used /\ ~OnPath(p[k][j], p[l])
      BY <1>2, <1>3, <2>2
    <3> QED
      BY <3>1, <1>2, <1>5, <2>2
  <2>3. CASE m # l /\ k = l
    <3>1. p[m][i] \in h.used /\ ~OnPath(p[m][i], p[l])
      BY <1>2, <1>3, <2>3
    <3> QED
      BY <3>1, <1>2, <1>5, <2>3
  <2>4. CASE m # l /\ k # l
    BY <1>2, <1>5, <2>4 DEF Laid
  <2> QED
    BY <2>1, <2>2, <2>3, <2>4
<1>6. ASSUME NEW n \in Nodes
      PROVE  n \in g.used <=> \E m \in Lists : OnPath(n, q[m])
  <2>1. ASSUME n \in g.used PROVE \E m \in Lists : OnPath(n, q[m])
    <3>1. CASE OnPath(n, t)
      BY <1>2, <3>1
    <3>2. CASE n \in h.used /\ ~OnPath(n, p[l])
      <4>1. PICK m \in Lists : OnPath(n, p[m])
        BY <3>2 DEF Laid
      <4> QED
        BY <1>2, <3>2, <4>1
    <3> QED
      BY <2>1, <3>1, <3>2
  <2>2. ASSUME NEW m \in Lists, OnPath(n, q[m]) PROVE n \in g.used
    <3>1. CASE m = l
      BY <1>2, <2>2, <3>1 DEF OnPath
    <3>2. CASE m # l
      <4>1. PICK i \in 1..Len(p[m]) : n = p[m][i]
        BY <1>2, <2>2, <3>2 DEF OnPath
      <4>2. n \in h.used /\ ~OnPath(n, p[l])
        BY <1>3, <3>2, <4>1
      <4> QED
        BY <4>2
    <3> QED
      BY <3>1, <3>2
  <2> QED
    BY <2>1, <2>2
<1>7. g \in Heaps
  OBVIOUS
<1> QED
  BY <1>2, <1>4, <1>5, <1>6, <1>7 DEF Laid, q

-----------------------------------------------------------------------------
(* The elements of a list.                                                  *)
ValueAt(h, l, s, i) == IF i = 1 THEN h.root[l].value ELSE h.node[s[i - 1]].value

LEMMA SizeFacts ==
  ASSUME NEW h, NEW p, Laid(h, p), NEW l \in Lists
  PROVE  /\ List!Size(h, l) \in Nat
         /\ List!IsEmpty(h, l) => List!Size(h, l) = 0 /\ p[l] = <<>> /\ Len(p[l]) = 0
         /\ ~List!IsEmpty(h, l) => List!Size(h, l) = 1 + Len(p[l])
         /\ Len(p[l]) = IF List!Size(h, l) = 0 THEN 0 ELSE List!Size(h, l) - 1
         /\ \A i \in 2..(List!Size(h, l) + 1) : List!NodeAt(h, l, i) = After(p[l], i - 2)
         /\ List!Size(h, l) = 0 => List!NodeAt(h, l, 1) = NULL
<1>1. p[l] \in Seq(Nodes) /\ Len(p[l]) \in Nat /\ List!Behind(h, l) = p[l]
  BY LaidFacts
<1>2. ASSUME List!IsEmpty(h, l) PROVE p[l] = <<>> /\ Len(p[l]) = 0
  <2>1. h.root[l].next = NULL
    BY <1>2 DEF List!IsEmpty, List!Root
  <2>2. After(p[l], 0) = NULL
    BY <2>1, LaidFacts DEF IsPath
  <2>3. Len(p[l]) = 0
    <3> SUFFICES ASSUME Len(p[l]) > 0 PROVE FALSE
      BY <1>1
    <3>1. p[l][1] \in Nodes
      BY <1>1, ElementOfSeq
    <3> QED
      BY <2>2, <3>1, ListAssumption DEF After
  <2> QED
    BY <1>1, <2>3, EmptySeq
<1>3. List!Size(h, l) = IF List!IsEmpty(h, l) THEN 0 ELSE 1 + Len(p[l])
  BY <1>1 DEF List!Size
<1>4. ASSUME NEW i \in 2..(List!Size(h, l) + 1) PROVE List!NodeAt(h, l, i) = After(p[l], i - 2)
  <2>1. List!Size(h, l) = 1 + Len(p[l])
    BY <1>3, <1>4
  <2>2. CASE i = List!Size(h, l) + 1
    BY <1>1, <2>1, <2>2 DEF List!NodeAt, After
  <2>3. CASE i # List!Size(h, l) + 1
    <3>1. i - 2 < Len(p[l]) /\ ~(i > List!Size(h, l)) /\ (i - 2) + 1 = i - 1
      BY <1>1, <2>1, <2>3
    <3> QED
      BY <1>1, <3>1 DEF List!NodeAt, After
  <2> QED
    BY <2>2, <2>3
<1>5. List!Size(h, l) = 0 => List!NodeAt(h, l, 1) = NULL
  BY DEF List!NodeAt
<1> QED
  BY <1>1, <1>2, <1>3, <1>4, <1>5

LEMMA ItemsFacts ==
  ASSUME NEW h, NEW p, Laid(h, p), NEW l \in Lists
  PROVE  /\ List!Items(h, l) \in Seq(Values \cup {Zero}) /\ Len(List!Items(h, l)) = List!Size(h, l)
         /\ \A i \in 1..List!Size(h, l) : List!Items(h, l)[i] = ValueAt(h, l, p[l], i)
<1> DEFINE S == Values \cup {Zero}
           s == p[l]
           v == [i \in 1..Len(s) |-> h.node[s[i]].value]
<1>1. /\ Len(s) \in Nat /\ List!Behind(h, l) = s /\ h.root[l].value \in S
      /\ \A i \in 1..Len(s) : h.node[s[i]].value \in S
  <2>1. /\ Len(s) \in Nat /\ List!Behind(h, l) = s /\ h.root[l] \in Element
        /\ h.node \in [Nodes -> Element] /\ \A i \in 1..Len(s) : s[i] \in Nodes
    BY LaidFacts
  <2> QED
    BY <2>1 DEF Element
<1>2. CASE List!IsEmpty(h, l)
  <2>1. List!Items(h, l) = <<>> /\ List!Size(h, l) = 0
    BY <1>2, SizeFacts DEF List!Items
  <2> QED
    BY <2>1, EmptySeq
<1>3. CASE ~List!IsEmpty(h, l)
  <2>1. v \in [1..Len(s) -> S]
    BY <1>1
  <2>2. v \in Seq(S) /\ Len(v) = Len(s)
    BY <1>1, <2>1, FunctionIsSeq
  <2> DEFINE a == <<h.root[l].value>>
  <2>3. a \in Seq(S) /\ Len(a) = 1 /\ a[1] = h.root[l].value
    BY <1>1
  <2>4. List!Items(h, l) = a \o v
    BY <1>1, <1>3 DEF List!Items
  <2>5. \A i \in 1..Len(s) : v[i] = h.node[s[i]].value
    OBVIOUS
  <2> HIDE DEF v, a
  <2>6. /\ a \o v \in Seq(S) /\ Len(a \o v) = 1 + Len(s)
        /\ \A i \in 1..(1 + Len(s)) : (a \o v)[i] = IF i <= 1 THEN a[i] ELSE v[i - 1]
    BY <2>2, <2>3, ConcatProperties
  <2>7. List!Size(h, l) = 1 + Len(s)
    BY <1>3, SizeFacts
  <2>8. ASSUME NEW i \in 1..(1 + Len(s)) PROVE (a \o v)[i] = ValueAt(h, l, s, i)
    <3>1. CASE i = 1
      BY <2>3, <2>6, <2>8, <3>1 DEF ValueAt
    <3>2. CASE i # 1
      <4>1. i - 1 \in 1..Len(s) /\ ~(i <= 1)
        BY <1>1, <3>2
      <4> QED
        BY <2>5, <2>6, <3>2, <4>1 DEF ValueAt
    <3> QED
      BY <3>1, <3>2
  <2> QED
    BY <2>4, <2>6, <2>7, <2>8
<1> QED
  BY <1>2, <1>3
-----------------------------------------------------------------------------
(* Memory for nodes.                                                        *)
LEMMA TakeFacts ==
  ASSUME NEW h, NEW k \in Nat, k <= Cardinality(Nodes \ h.used)
  PROVE  /\ List!Take(h, k) \in Seq(Nodes) /\ Len(List!Take(h, k)) = k /\ Apart(List!Take(h, k))
         /\ \A i \in 1..k : List!Take(h, k)[i] \in Nodes \ h.used
<1> DEFINE S == Nodes \ h.used
           c == Cardinality(S)
           f == List!SetToSeq(S)
<1>1. IsFiniteSet(S)
  BY ListAssumption, FS_Subset
<1>2. c \in Nat /\ ExistsBijection(1..c, S)
  BY <1>1, FS_CardinalityType
<1>3. \E g : g \in [1..c -> S] /\ IsInjective(g)
  BY <1>2 DEF ExistsBijection, Bijection, Injection
<1>4. f \in [1..c -> S] /\ IsInjective(f)
  BY <1>3, ListCardinality DEF List!SetToSeq, IsInjective, List!IsInjective
<1> HIDE DEF f
<1>5. List!Take(h, k) = SubSeq(f, 1, k)
  BY DEF List!Take, f
<1>6. k <= c
  OBVIOUS
<1> HIDE DEF c, S
<1>7. \A i \in 1..k : i \in 1..c /\ f[i] \in S
  BY <1>2, <1>4, <1>6
<1>8. /\ SubSeq(f, 1, k) \in Seq(S) /\ Len(SubSeq(f, 1, k)) = k
      /\ \A i \in 1..k : SubSeq(f, 1, k)[i] = f[i]
  <2>1. /\ SubSeq(f, 1, k) \in Seq(S) /\ Len(SubSeq(f, 1, k)) = IF 1 <= k THEN k - 1 + 1 ELSE 0
        /\ \A i \in 1..(k - 1 + 1) : SubSeq(f, 1, k)[i] = f[1 + i - 1]
    <3> HIDE <1>2, <1>4, <1>6
    <3>1. 1 \in Int /\ k \in Int
      OBVIOUS
    <3>2. \A i \in 1..k : f[i] \in S
      BY <1>7
    <3> QED
      BY <3>1, <3>2, SubSeqProperties
  <2> QED
    BY <2>1
<1>9. SubSeq(f, 1, k) \in Seq(Nodes)
  <2>1. S \subseteq Nodes
    BY DEF S
  <2> QED
    BY <1>8, <2>1, SeqMonotonic
<1>10. Apart(SubSeq(f, 1, k))
  BY <1>4, <1>7, <1>8 DEF Apart, IsInjective
<1> QED
  BY <1>5, <1>7, <1>8, <1>9, <1>10 DEF S

LEMMA AllocatedFacts ==
  ASSUME NEW h \in Heaps, NEW ns \in Seq(Nodes), Apart(ns), NEW s \in Seq(Values \cup {Zero}),
         Len(s) = Len(ns), NEW after \in Nodes \cup {NULL}
  PROVE  LET g == List!Allocated(h, ns, s, after)
         IN  /\ g \in Heaps /\ g.root = h.root
             /\ \A n \in Nodes : n \in g.used <=> n \in h.used \/ OnPath(n, ns)
             /\ \A n \in Nodes : ~OnPath(n, ns) => g.node[n] = h.node[n]
             /\ \A i \in 1..Len(ns) : /\ g.node[ns[i]].value = s[i]
                                      /\ g.node[ns[i]].next = IF i = Len(ns) THEN after ELSE ns[i + 1]
<1> DEFINE g == List!Allocated(h, ns, s, after)
           At(n) == CHOOSE j \in DOMAIN ns : ns[j] = n
           New(n) == [value |-> s[At(n)], next |-> IF At(n) = Len(ns) THEN after ELSE ns[At(n) + 1]]
           node == [n \in Nodes |-> IF n \notin List!Range(ns) THEN h.node[n] ELSE New(n)]
<1>1. /\ DOMAIN ns = 1..Len(ns) /\ Len(ns) \in Nat /\ \A i \in 1..Len(ns) : ns[i] \in Nodes
      /\ \A i \in 1..Len(ns) : s[i] \in Values \cup {Zero}
  BY LenProperties, ElementOfSeq
<1>2. g = [h EXCEPT !.used = h.used \cup List!Range(ns), !.node = node]
  BY DEF List!Allocated, Heaps
<1>3. \A n : n \in List!Range(ns) <=> OnPath(n, ns)
  BY <1>1 DEF List!Range, OnPath
<1>4. ASSUME NEW i \in 1..Len(ns) PROVE At(ns[i]) = i
  BY <1>1 DEF Apart
<1>5. \A i \in 1..Len(ns) : New(ns[i]) \in Element
  <2> SUFFICES ASSUME NEW i \in 1..Len(ns) PROVE New(ns[i]) \in Element
    OBVIOUS
  <2>1. At(ns[i]) = i
    BY <1>4
  <2>2. (IF i = Len(ns) THEN after ELSE ns[i + 1]) \in Nodes \cup {NULL}
    BY <1>1
  <2> QED
    BY <1>1, <2>1, <2>2 DEF Element
<1> HIDE DEF At
<1>6. node \in [Nodes -> Element]
  <2> SUFFICES ASSUME NEW n \in Nodes
               PROVE  (IF n \notin List!Range(ns) THEN h.node[n] ELSE New(n)) \in Element
    OBVIOUS
  <2>1. CASE n \notin List!Range(ns)
    BY <2>1 DEF Heaps
  <2>2. CASE n \in List!Range(ns)
    <3>1. PICK i \in 1..Len(ns) : n = ns[i]
      BY <1>3, <2>2 DEF OnPath
    <3> QED
      BY <1>5, <2>2, <3>1
  <2> QED
    BY <2>1, <2>2
<1>7. /\ \A n \in Nodes : ~OnPath(n, ns) => node[n] = h.node[n]
      /\ \A i \in 1..Len(ns) : node[ns[i]] = New(ns[i])
  BY <1>1, <1>3 DEF OnPath
<1> HIDE DEF node
<1>8. g.root = h.root /\ g.node = node /\ g.used = h.used \cup List!Range(ns)
  BY <1>2 DEF Heaps
<1>9. g \in Heaps
  <2>1. List!Range(ns) \subseteq Nodes
    BY <1>1, <1>3 DEF OnPath
  <2> QED
    BY <1>2, <1>6, <2>1 DEF Heaps
<1>10. \A n \in Nodes : n \in g.used <=> n \in h.used \/ OnPath(n, ns)
  BY <1>3, <1>8
<1>11. ASSUME NEW i \in 1..Len(ns)
       PROVE  /\ g.node[ns[i]].value = s[i]
              /\ g.node[ns[i]].next = IF i = Len(ns) THEN after ELSE ns[i + 1]
  <2>1. g.node[ns[i]] = New(ns[i])
    BY <1>7, <1>8
  <2>2. At(ns[i]) = i
    BY <1>4
  <2>3. New(ns[i]) = [value |-> s[i], next |-> IF i = Len(ns) THEN after ELSE ns[i + 1]]
    BY <2>2
  <2> HIDE DEF g, New
  <2> QED
    BY <2>1, <2>3
<1> HIDE DEF g, New
<1> QED
  BY <1>7, <1>8, <1>9, <1>10, <1>11 DEF g

LEMMA DeleteFacts ==
  ASSUME NEW h \in Heaps, NEW S
  PROVE  LET g == List!Delete(h, S)
         IN  /\ g \in Heaps /\ g.root = h.root
             /\ g.used = h.used \ S
             /\ \A n \in Nodes : n \notin S => g.node[n] = h.node[n]
<1> DEFINE g == List!Delete(h, S)
           node == [n \in Nodes |-> IF n \in S THEN List!Root ELSE h.node[n]]
<1>1. g = [h EXCEPT !.used = h.used \ S, !.node = node]
  BY DEF List!Delete, Heaps
<1>2. List!Root \in Element
  BY DEF List!Root, Element
<1>3. node \in [Nodes -> Element]
  BY <1>2 DEF Heaps
<1>4. \A n \in Nodes : n \notin S => node[n] = h.node[n]
  OBVIOUS
<1> HIDE DEF node
<1>5. g \in Heaps /\ g.root = h.root /\ g.used = h.used \ S /\ g.node = node
  BY <1>1, <1>3 DEF Heaps
<1> QED
  BY <1>4, <1>5

LEMMA SetNextFacts ==
  ASSUME NEW h, NEW p, Laid(h, p), NEW l \in Lists, NEW i \in 1..List!Size(h, l),
         NEW n \in Nodes \cup {NULL}
  PROVE  LET g == List!SetNext(h, l, i, n)
         IN  /\ g \in Heaps /\ g.used = h.used
             /\ \A m \in Lists : m # l => g.root[m] = h.root[m]
             /\ g.root[l].value = h.root[l].value
             /\ \A k \in Nodes : g.node[k].value = h.node[k].value
             /\ g.root[l].next = IF i = 1 THEN n ELSE h.root[l].next
             /\ i > 1 => g.node[p[l][i - 1]].next = n
             /\ \A k \in Nodes : (i > 1 /\ k = p[l][i - 1]) \/ g.node[k] = h.node[k]
<1>1. h \in Heaps /\ List!Size(h, l) \in Nat
  BY SizeFacts DEF Laid
<1>2. CASE i = 1
  <2> DEFINE r == [h.root[l] EXCEPT !.next = n]
             root == [h.root EXCEPT ![l] = r]
  <2>1. r \in Element /\ r.next = n /\ r.value = h.root[l].value
    BY <1>1 DEF Heaps, Element
  <2>2. List!SetNext(h, l, i, n) = [h EXCEPT !.root = root]
    BY <1>1, <1>2 DEF List!SetNext, Heaps, Element
  <2> HIDE DEF r
  <2>3. root \in [Lists -> Element] /\ root[l] = r /\ \A m \in Lists : m # l => root[m] = h.root[m]
    BY <1>1, <2>1 DEF Heaps
  <2> HIDE DEF root
  <2> QED
    BY <1>1, <1>2, <2>1, <2>2, <2>3 DEF Heaps
<1>3. CASE i # 1
  <2> DEFINE at == p[l][i - 1]
             r == [h.node[at] EXCEPT !.next = n]
             node == [h.node EXCEPT ![at] = r]
  <2>1. List!NodeAt(h, l, i) = at /\ at \in Nodes
    <3>1. i \in 2..(List!Size(h, l) + 1) /\ Len(p[l]) = List!Size(h, l) - 1 /\ i - 2 < Len(p[l])
          /\ (i - 2) + 1 = i - 1 /\ i - 1 \in 1..Len(p[l])
      BY <1>1, <1>3, SizeFacts
    <3>2. List!NodeAt(h, l, i) = After(p[l], i - 2)
      BY <3>1, SizeFacts
    <3>3. at \in Nodes
      BY <3>1, LaidFacts
    <3> QED
      BY <3>1, <3>2, <3>3 DEF After
  <2> HIDE DEF at
  <2>2. r \in Element /\ r.next = n /\ r.value = h.node[at].value
    BY <1>1, <2>1 DEF Heaps, Element
  <2>3. List!SetNext(h, l, i, n) = [h EXCEPT !.node = node]
    BY <1>1, <1>3, <2>1 DEF List!SetNext, Heaps
  <2> HIDE DEF r
  <2>4. node \in [Nodes -> Element] /\ node[at] = r /\ \A k \in Nodes : k # at => node[k] = h.node[k]
    BY <1>1, <2>1, <2>2 DEF Heaps
  <2> HIDE DEF node
  <2>5. [h EXCEPT !.node = node] \in Heaps
    BY <1>1, <2>4 DEF Heaps
  <2> QED
    BY <1>1, <1>3, <2>1, <2>2, <2>3, <2>4, <2>5 DEF Heaps, at
<1> QED
  BY <1>2, <1>3
-----------------------------------------------------------------------------
(* The sequences the calls make of the nodes and of the elements.           *)

\* s with t in place of what is behind place a, up to place b.
Spliced(s, a, t, b) ==
    [i \in 1..(a + Len(t) + (Len(s) - b)) |->
        IF i <= a THEN s[i] ELSE IF i <= a + Len(t) THEN t[i - a] ELSE s[i - a - Len(t) + b]]

LEMMA SplicedFacts ==
  ASSUME NEW S, NEW s \in Seq(S), NEW t \in Seq(S), NEW b \in 0..Len(s), NEW a \in 0..b
  PROVE  /\ Spliced(s, a, t, b) \in Seq(S)
         /\ Len(Spliced(s, a, t, b)) = a + Len(t) + (Len(s) - b)
<1> DEFINE n == a + Len(t) + (Len(s) - b)
           f == Spliced(s, a, t, b)
<1>1. Len(s) \in Nat /\ Len(t) \in Nat /\ a \in Nat /\ b \in Nat /\ a <= b /\ b <= Len(s)
  BY LenProperties
<1>2. n \in Nat
  BY <1>1
<1>3. \A i \in 1..Len(s) : s[i] \in S
  BY ElementOfSeq
<1>4. \A i \in 1..Len(t) : t[i] \in S
  BY ElementOfSeq
<1>5. \A i \in 1..n : f[i] = IF i <= a THEN s[i]
                             ELSE IF i <= a + Len(t) THEN t[i - a]
                             ELSE s[i - a - Len(t) + b]
  BY DEF Spliced
<1>6. f = [i \in 1..n |-> f[i]]
  BY <1>5 DEF Spliced
<1> HIDE DEF f
<1>10. ASSUME NEW i \in 1..n PROVE f[i] \in S
  <2>1. CASE i <= a
    <3>1. i \in 1..Len(s) /\ f[i] = s[i]
      BY <1>1, <1>5, <2>1
    <3> QED
      BY <3>1, <1>3
  <2>2. CASE ~(i <= a) /\ i <= a + Len(t)
    <3>1. i - a \in 1..Len(t) /\ f[i] = t[i - a]
      BY <1>1, <1>5, <2>2
    <3> QED
      BY <3>1, <1>4
  <2>3. CASE ~(i <= a) /\ ~(i <= a + Len(t))
    <3>1. i - a - Len(t) + b \in 1..Len(s) /\ f[i] = s[i - a - Len(t) + b]
      BY <1>1, <1>5, <2>3
    <3> QED
      BY <3>1, <1>3
  <2> QED
    BY <2>1, <2>2, <2>3
<1>11. f \in [1..n -> S]
  BY <1>6, <1>10
<1>12. f \in Seq(S) /\ Len(f) = n
  BY <1>2, <1>11, FunctionIsSeq
<1> QED
  BY <1>12 DEF f

LEMMA JoinedAround ==
  ASSUME NEW S, NEW s \in Seq(S), NEW t \in Seq(S), NEW b \in 0..Len(s), NEW a \in 0..b
  PROVE  /\ SubSeq(s, 1, a) \o t \o SubSeq(s, b + 1, Len(s)) = Spliced(s, a, t, b)
         /\ SubSeq(s, 1, a) \o SubSeq(s, b + 1, Len(s)) = Spliced(s, a, <<>>, b)
<1> DEFINE n == Len(s)
           x == SubSeq(s, 1, a)
           y == SubSeq(s, b + 1, n)
<1>1. n \in Nat /\ Len(t) \in Nat /\ a \in Nat /\ b \in Nat /\ a <= b /\ b <= n
  BY LenProperties
<1>2. \A i \in 1..n : s[i] \in S
  BY ElementOfSeq
<1>3. x \in Seq(S) /\ Len(x) = a /\ \A i \in 1..a : x[i] = s[i]
  <2>1. \A i \in 1..a : s[i] \in S
    BY <1>1, <1>2
  <2>2. 1 \in Int /\ a \in Int
    BY <1>1
  <2>3. /\ x \in Seq(S) /\ Len(x) = IF 1 <= a THEN a - 1 + 1 ELSE 0
        /\ \A i \in 1..(a - 1 + 1) : x[i] = s[1 + i - 1]
    BY <2>1, <2>2, SubSeqProperties
  <2> HIDE DEF x
  <2> QED
    BY <1>1, <2>3
<1>4. y \in Seq(S) /\ Len(y) = n - b /\ \A i \in 1..(n - b) : y[i] = s[b + i]
  <2>1. \A i \in (b + 1)..n : s[i] \in S
    BY <1>1, <1>2
  <2>2. b + 1 \in Int /\ n \in Int
    BY <1>1
  <2>3. /\ y \in Seq(S) /\ Len(y) = IF b + 1 <= n THEN n - (b + 1) + 1 ELSE 0
        /\ \A i \in 1..(n - (b + 1) + 1) : y[i] = s[(b + 1) + i - 1]
    BY <2>1, <2>2, SubSeqProperties
  <2> HIDE DEF y
  <2> QED
    BY <1>1, <2>3
<1> HIDE DEF x, y, n
<1>5. ASSUME NEW w \in Seq(S) PROVE x \o w \o y = Spliced(s, a, w, b)
  <2>1. Len(w) \in Nat
    BY LenProperties
  <2>2. /\ x \o w \in Seq(S) /\ Len(x \o w) = a + Len(w)
        /\ \A i \in 1..(a + Len(w)) : (x \o w)[i] = IF i <= a THEN x[i] ELSE w[i - a]
    <3>1. x \in Seq(S) /\ w \in Seq(S) /\ Len(x) = a
      BY <1>3
    <3> QED
      BY <3>1, ConcatProperties
  <2> DEFINE xw == x \o w
             v == Spliced(s, a, w, b)
  <2> HIDE DEF xw
  <2>3. /\ xw \o y \in Seq(S) /\ Len(xw \o y) = (a + Len(w)) + (n - b)
        /\ \A i \in 1..((a + Len(w)) + (n - b)) :
              (xw \o y)[i] = IF i <= a + Len(w) THEN xw[i] ELSE y[i - (a + Len(w))]
    <3>1. xw \in Seq(S) /\ y \in Seq(S) /\ Len(xw) = a + Len(w) /\ Len(y) = n - b
      BY <1>4, <2>2 DEF xw
    <3>2. \A u, z \in Seq(S) :
              /\ u \o z \in Seq(S) /\ Len(u \o z) = Len(u) + Len(z)
              /\ \A i \in 1..(Len(u) + Len(z)) :
                    (u \o z)[i] = IF i <= Len(u) THEN u[i] ELSE z[i - Len(u)]
      BY ConcatProperties
    <3>3. /\ xw \o y \in Seq(S) /\ Len(xw \o y) = Len(xw) + Len(y)
          /\ \A i \in 1..(Len(xw) + Len(y)) :
                (xw \o y)[i] = IF i <= Len(xw) THEN xw[i] ELSE y[i - Len(xw)]
      BY <3>1, <3>2
    <3> QED
      BY <3>1, <3>3
  <2>4. /\ v \in Seq(S) /\ Len(v) = a + Len(w) + (n - b)
        /\ \A i \in 1..(a + Len(w) + (n - b)) :
              v[i] = IF i <= a THEN s[i] ELSE IF i <= a + Len(w) THEN w[i - a] ELSE s[i - a - Len(w) + b]
    <3>1. v \in Seq(S) /\ Len(v) = a + Len(w) + (Len(s) - b)
      BY SplicedFacts
    <3>2. ASSUME NEW i \in 1..(a + Len(w) + (n - b))
          PROVE  v[i] = IF i <= a THEN s[i] ELSE IF i <= a + Len(w) THEN w[i - a] ELSE s[i - a - Len(w) + b]
      BY DEF Spliced, n
    <3> QED
      BY <3>1, <3>2 DEF n
  <2> HIDE DEF v
  <2>5. ASSUME NEW i \in 1..Len(v) PROVE (xw \o y)[i] = v[i]
    <3>0. i \in 1..((a + Len(w)) + (n - b)) /\ Len(v) \in Nat
      BY <1>1, <2>1, <2>4
    <3>1. CASE i <= a
      <4>1. i \in 1..(a + Len(w)) /\ i \in 1..a /\ i <= a + Len(w)
        BY <1>1, <2>1, <3>0, <3>1
      <4> QED
        BY <1>3, <2>2, <2>3, <2>4, <3>0, <3>1, <4>1 DEF xw
    <3>2. CASE ~(i <= a) /\ i <= a + Len(w)
      <4>1. i \in 1..(a + Len(w))
        BY <1>1, <2>1, <3>0, <3>2
      <4> QED
        BY <2>2, <2>3, <2>4, <3>0, <3>2, <4>1 DEF xw
    <3>3. CASE ~(i <= a) /\ ~(i <= a + Len(w))
      <4>1. i - (a + Len(w)) \in 1..(n - b) /\ b + (i - (a + Len(w))) = i - a - Len(w) + b
        BY <1>1, <2>1, <3>0, <3>3
      <4>2. y[i - (a + Len(w))] = s[i - a - Len(w) + b]
        BY <1>4, <4>1
      <4> QED
        BY <2>3, <2>4, <3>0, <3>3, <4>2
    <3> QED
      BY <3>1, <3>2, <3>3
  <2>6. Len(xw \o y) = Len(v)
    BY <1>1, <2>1, <2>3, <2>4
  <2>7. xw \o y = v
    <3>1. xw \o y \in Seq(S) /\ v \in Seq(S) /\ \A i \in 1..Len(xw \o y) : (xw \o y)[i] = v[i]
      BY <2>3, <2>4, <2>5, <2>6
    <3> QED
      BY <2>6, <3>1, SeqEqual
  <2> QED
    BY <2>7 DEF xw, v
<1>6. x \o <<>> = x
  BY <1>3, ConcatEmptySeq
<1>7. <<>> \in Seq(S)
  OBVIOUS
<1>8. x \o <<>> \o y = Spliced(s, a, <<>>, b)
  BY <1>5, <1>7
<1> QED
  BY <1>5, <1>6, <1>8 DEF x, y, n
-----------------------------------------------------------------------------
(* What a call does to the nodes of a list: those behind place a, up to     *)
(* place b, go, the new nodes ns come in their place.                       *)
Respliced(h, g, l, s, a, ns, b) ==
    /\ g \in Heaps
    /\ \A m \in Lists : m # l => g.root[m] = h.root[m]
    /\ \A n \in Nodes : n \in g.used <=> \/ OnPath(n, ns)
                                         \/ n \in h.used /\ ~\E i \in (a + 1)..b : n = s[i]
    /\ \A n \in h.used : \/ \E i \in (a + 1)..b : n = s[i]
                         \/ g.node[n] = h.node[n]
                         \/ a > 0 /\ n = s[a] /\ g.node[n].value = h.node[n].value
    /\ \A i \in 1..Len(ns) : g.node[ns[i]].next = IF i = Len(ns) THEN After(s, b) ELSE ns[i + 1]
    /\ LET entry == IF Len(ns) = 0 THEN After(s, b) ELSE ns[1]
       IN  IF a = 0 THEN g.root[l].next = entry
           ELSE g.root[l].next = h.root[l].next /\ g.node[s[a]].next = entry

LEMMA RespliceLays ==
  ASSUME NEW h, NEW p, Laid(h, p), NEW l \in Lists, NEW g,
         NEW b \in 0..Len(p[l]), NEW a \in 0..b,
         NEW ns \in Seq(Nodes), Apart(ns), \A i \in 1..Len(ns) : ns[i] \notin h.used,
         Respliced(h, g, l, p[l], a, ns, b)
  PROVE  Laid(g, [p EXCEPT ![l] = Spliced(p[l], a, ns, b)])
<1> DEFINE s == p[l]
           t == Spliced(s, a, ns, b)
           c == Len(ns)
           rest == Len(s) - b
<1>1. /\ s \in Seq(Nodes) /\ Len(s) \in Nat /\ Apart(s) /\ IsPath(h, h.root[l].next, s)
      /\ \A i \in 1..Len(s) : s[i] \in Nodes /\ s[i] \in h.used
      /\ h.used \subseteq Nodes
  BY LaidFacts
<1>2. c \in Nat /\ a \in Nat /\ b \in Nat /\ a <= b /\ b <= Len(s) /\ rest \in Nat
      /\ \A i \in 1..c : ns[i] \in Nodes /\ ns[i] \notin h.used
  BY <1>1, LenProperties, ElementOfSeq
<1>3. /\ t \in Seq(Nodes) /\ Len(t) = a + c + rest
      /\ \A i \in 1..a : t[i] = s[i]
      /\ \A i \in 1..c : t[a + i] = ns[i]
      /\ \A i \in 1..rest : t[a + c + i] = s[b + i]
  <2>1. s \in Seq(Nodes) /\ ns \in Seq(Nodes) /\ b \in 0..Len(s) /\ a \in 0..b
    BY <1>1
  <2> HIDE DEF s
  <2>2. /\ Spliced(s, a, ns, b) \in Seq(Nodes)
        /\ Len(Spliced(s, a, ns, b)) = a + Len(ns) + (Len(s) - b)
    BY <2>1, SplicedFacts
  <2>3. ASSUME NEW i \in 1..a PROVE Spliced(s, a, ns, b)[i] = s[i]
    <3>1. i \in 1..(a + Len(ns) + (Len(s) - b)) /\ i <= a
      BY <1>2
    <3> QED
      BY <3>1 DEF Spliced
  <2>5. ASSUME NEW i \in 1..Len(ns) PROVE Spliced(s, a, ns, b)[a + i] = ns[i]
    <3>1. /\ a + i \in 1..(a + Len(ns) + (Len(s) - b)) /\ ~(a + i <= a)
          /\ a + i <= a + Len(ns) /\ (a + i) - a = i
      BY <1>2
    <3> QED
      BY <3>1 DEF Spliced
  <2>4. ASSUME NEW i \in 1..(Len(s) - b) PROVE Spliced(s, a, ns, b)[a + Len(ns) + i] = s[b + i]
    <3>1. /\ a + Len(ns) + i \in 1..(a + Len(ns) + (Len(s) - b)) /\ ~(a + Len(ns) + i <= a)
          /\ ~(a + Len(ns) + i <= a + Len(ns)) /\ (a + Len(ns) + i) - a - Len(ns) + b = b + i
      BY <1>2
    <3> QED
      BY <3>1 DEF Spliced
  <2> QED
    BY <2>2, <2>3, <2>4, <2>5
<1> HIDE DEF t, s, c, rest
<1>4. ASSUME NEW i \in 1..Len(t)
      PROVE  \/ i \in 1..a
             \/ \E j \in 1..c : i = a + j
             \/ \E j \in 1..rest : i = a + c + j
  <2>1. i \in Nat /\ i >= 1 /\ i <= a + c + rest
    BY <1>2, <1>3
  <2>2. CASE i <= a
    BY <2>1, <2>2, <1>2
  <2>3. CASE i > a /\ i <= a + c
    <3>1. i - a \in 1..c /\ i = a + (i - a)
      BY <2>1, <2>3, <1>2
    <3> QED
      BY <3>1
  <2>4. CASE i > a + c
    <3>1. i - (a + c) \in 1..rest /\ i = a + c + (i - (a + c))
      BY <2>1, <2>4, <1>2
    <3> QED
      BY <3>1
  <2> QED
    BY <2>1, <2>2, <2>3, <2>4, <1>2
<1>5. /\ \A i \in 1..a : i \in 1..Len(s) /\ i <= b
      /\ \A i \in 1..rest : b + i \in 1..Len(s) /\ b + i > b
      /\ \A i \in 1..Len(s) : i > b => i - b \in 1..rest /\ b + (i - b) = i
  BY <1>1, <1>2 DEF rest
<1>6. Apart(t)
  <2> SUFFICES ASSUME NEW i \in 1..Len(t), NEW j \in 1..Len(t), t[i] = t[j] PROVE i = j
    BY DEF Apart
  <2>1. \A x \in 1..a : \A y \in 1..a : t[x] = t[y] => x = y
    BY <1>1, <1>3, <1>5 DEF Apart
  <2>2. \A x \in 1..c : \A y \in 1..c : t[a + x] = t[a + y] => x = y
    <3> SUFFICES ASSUME NEW x \in 1..c, NEW y \in 1..c, t[a + x] = t[a + y] PROVE x = y
      OBVIOUS
    <3>1. ns[x] = ns[y]
      BY <1>3
    <3> QED
      BY <3>1 DEF Apart, c
  <2>3. \A x \in 1..rest : \A y \in 1..rest : t[a + c + x] = t[a + c + y] => x = y
    <3> SUFFICES ASSUME NEW x \in 1..rest, NEW y \in 1..rest, t[a + c + x] = t[a + c + y] PROVE x = y
      OBVIOUS
    <3>1. s[b + x] = s[b + y]
      BY <1>3
    <3>2. b + x = b + y
      BY <1>1, <1>5, <3>1 DEF Apart
    <3> QED
      BY <3>2, <1>2
  <2>4. \A x \in 1..a : \A y \in 1..c : t[x] # t[a + y]
    BY <1>1, <1>2, <1>3, <1>5
  <2>5. \A x \in 1..rest : \A y \in 1..c : t[a + c + x] # t[a + y]
    BY <1>1, <1>2, <1>3, <1>5
  <2>6. \A x \in 1..a : \A y \in 1..rest : t[x] # t[a + c + y]
    <3> SUFFICES ASSUME NEW x \in 1..a, NEW y \in 1..rest, t[x] = t[a + c + y] PROVE FALSE
      OBVIOUS
    <3>1. s[x] = s[b + y]
      BY <1>3
    <3>2. x = b + y
      BY <1>1, <1>5, <3>1 DEF Apart
    <3>3. x \in 1..Len(s) /\ x <= b /\ b + y > b
      BY <1>5
    <3> QED
      BY <3>2, <3>3, <1>2
  <2>7. i \in 1..a \/ (\E x \in 1..c : i = a + x) \/ (\E x \in 1..rest : i = a + c + x)
    BY <1>4
  <2>8. j \in 1..a \/ (\E y \in 1..c : j = a + y) \/ (\E y \in 1..rest : j = a + c + y)
    BY <1>4
  <2>9. CASE i \in 1..a
    BY <2>1, <2>4, <2>6, <2>8, <2>9
  <2>10. CASE \E x \in 1..c : i = a + x
    <3>1. PICK x \in 1..c : i = a + x
      BY <2>10
    <3>2. t[a + x] = t[j]
      BY <3>1
    <3> QED
      BY <2>2, <2>4, <2>5, <2>8, <3>1, <3>2
  <2>11. CASE \E x \in 1..rest : i = a + c + x
    <3>1. PICK x \in 1..rest : i = a + c + x
      BY <2>11
    <3>2. t[a + c + x] = t[j]
      BY <3>1
    <3> QED
      BY <2>3, <2>5, <2>6, <2>8, <3>1, <3>2
  <2> QED
    BY <2>7, <2>9, <2>10, <2>11
<1>7. /\ g \in Heaps
      /\ \A m \in Lists : m # l => g.root[m] = h.root[m]
      /\ \A n \in Nodes : n \in g.used <=> \/ OnPath(n, ns)
                                           \/ n \in h.used /\ ~\E i \in (a + 1)..b : n = s[i]
      /\ \A n \in h.used : \/ \E i \in (a + 1)..b : n = s[i]
                           \/ g.node[n] = h.node[n]
                           \/ a > 0 /\ n = s[a]
      /\ \A i \in 1..c : g.node[ns[i]].next = IF i = c THEN After(s, b) ELSE ns[i + 1]
  BY DEF Respliced, s, c
<1> DEFINE entry == IF c = 0 THEN After(s, b) ELSE ns[1]
<1>8. /\ a = 0 => g.root[l].next = entry
      /\ a # 0 => g.root[l].next = h.root[l].next /\ g.node[s[a]].next = entry
  BY DEF Respliced, s, c
<1>9. \A i \in 0..rest : After(t, a + c + i) = After(s, b + i)
  <2> SUFFICES ASSUME NEW i \in 0..rest PROVE After(t, a + c + i) = After(s, b + i)
    OBVIOUS
  <2>1. CASE i = rest
    <3>1. ~(a + c + i < Len(t)) /\ ~(b + i < Len(s))
      BY <1>1, <1>2, <1>3, <2>1 DEF rest
    <3> QED
      BY <3>1 DEF After
  <2>2. CASE i # rest
    <3>1. i + 1 \in 1..rest /\ a + c + i < Len(t) /\ b + i < Len(s)
          /\ (a + c + i) + 1 = a + c + (i + 1) /\ (b + i) + 1 = b + (i + 1)
      BY <1>1, <1>2, <1>3, <2>2 DEF rest
    <3> QED
      BY <3>1, <1>3 DEF After
  <2> QED
    BY <2>1, <2>2
<1>10. entry = After(t, a)
  <2>1. CASE c = 0
    <3>1. 0 \in 0..rest /\ a + c + 0 = a /\ b + 0 = b
      BY <1>2, <2>1
    <3> QED
      BY <3>1, <1>9, <2>1
  <2>2. CASE c # 0
    <3>1. 1 \in 1..c /\ a < Len(t)
      BY <1>2, <1>3, <2>2
    <3> QED
      BY <3>1, <1>3, <2>2 DEF After
  <2> QED
    BY <2>1, <2>2
<1> HIDE DEF entry
<1>11. ASSUME NEW i \in 1..Len(t) PROVE g.node[t[i]].next = After(t, i)
  <2>1. CASE i \in 1..a
    <3>1. t[i] = s[i] /\ i \in 1..Len(s) /\ s[i] \in h.used
      BY <1>1, <1>3, <1>5, <2>1
    <3>2. ~\E j \in (a + 1)..b : s[i] = s[j]
      <4> SUFFICES ASSUME NEW j \in (a + 1)..b, s[i] = s[j] PROVE FALSE
        OBVIOUS
      <4>1. j \in 1..Len(s) /\ i # j
        BY <1>1, <1>2, <2>1
      <4> QED
        BY <1>1, <3>1, <4>1 DEF Apart
    <3>3. CASE i = a
      <4>1. a # 0
        BY <2>1, <1>2, <3>3
      <4> QED
        BY <1>8, <1>10, <3>1, <3>3, <4>1
    <3>4. CASE i # a
      <4>1. /\ i < Len(s) /\ i + 1 \in 1..a /\ i < Len(t) /\ a \in 1..Len(s)
        BY <1>1, <1>2, <1>3, <2>1, <3>4
      <4>2. s[i] # s[a]
        BY <1>1, <3>1, <3>4, <4>1 DEF Apart
      <4>3. g.node[s[i]] = h.node[s[i]]
        BY <1>7, <3>1, <3>2, <4>2
      <4>4. h.node[s[i]].next = After(s, i)
        BY <1>1, <3>1 DEF IsPath
      <4>5. t[i + 1] = s[i + 1]
        BY <1>3, <4>1
      <4> QED
        BY <3>1, <4>1, <4>3, <4>4, <4>5 DEF After
    <3> QED
      BY <3>3, <3>4
  <2>2. CASE \E j \in 1..c : i = a + j
    <3>1. PICK j \in 1..c : i = a + j
      BY <2>2
    <3>2. t[i] = ns[j]
      BY <1>3, <3>1
    <3>3. CASE j = c
      <4>1. 0 \in 0..rest /\ a + c + 0 = i /\ b + 0 = b
        BY <1>2, <3>1, <3>3
      <4>2. After(t, i) = After(s, b)
        BY <1>9, <4>1
      <4> QED
        BY <1>7, <3>1, <3>2, <3>3, <4>2
    <3>4. CASE j # c
      <4>1. j + 1 \in 1..c /\ i < Len(t) /\ a + (j + 1) = i + 1
        BY <1>2, <1>3, <3>1, <3>4
      <4>2. t[i + 1] = ns[j + 1]
        BY <1>3, <4>1
      <4> QED
        BY <1>7, <3>1, <3>2, <3>4, <4>1, <4>2 DEF After
    <3> QED
      BY <3>3, <3>4
  <2>3. CASE \E j \in 1..rest : i = a + c + j
    <3>1. PICK j \in 1..rest : i = a + c + j
      BY <2>3
    <3>2. t[i] = s[b + j] /\ b + j \in 1..Len(s) /\ s[b + j] \in h.used
      BY <1>1, <1>3, <1>5, <3>1
    <3>3. ~\E k \in (a + 1)..b : s[b + j] = s[k]
      <4> SUFFICES ASSUME NEW k \in (a + 1)..b, s[b + j] = s[k] PROVE FALSE
        OBVIOUS
      <4>1. k \in 1..Len(s) /\ b + j # k
        BY <1>1, <1>2, <3>1
      <4> QED
        BY <1>1, <3>2, <4>1 DEF Apart
    <3>4. ~(a > 0 /\ s[b + j] = s[a])
      <4> SUFFICES ASSUME a > 0, s[b + j] = s[a] PROVE FALSE
        OBVIOUS
      <4>1. a \in 1..Len(s) /\ b + j # a
        BY <1>1, <1>2, <3>1
      <4> QED
        BY <1>1, <3>2, <4>1 DEF Apart
    <3>5. g.node[s[b + j]] = h.node[s[b + j]]
      BY <1>7, <3>2, <3>3, <3>4
    <3>6. h.node[s[b + j]].next = After(s, b + j)
      BY <1>1, <3>2 DEF IsPath
    <3>7. j \in 0..rest
      BY <3>1, <1>2
    <3> QED
      BY <1>9, <3>1, <3>2, <3>5, <3>6, <3>7
  <2> QED
    BY <1>4, <2>1, <2>2, <2>3
<1>12. g.root[l].next = After(t, 0)
  <2>1. CASE a = 0
    BY <1>8, <1>10, <2>1
  <2>2. CASE a # 0
    <3>1. 0 < Len(t) /\ 0 < Len(s) /\ 1 \in 1..a
      BY <1>1, <1>2, <1>3, <2>2
    <3>2. h.root[l].next = After(s, 0)
      BY <1>1 DEF IsPath
    <3> QED
      BY <1>3, <1>8, <2>2, <3>1, <3>2 DEF After
  <2> QED
    BY <2>1, <2>2
<1>13. IsPath(g, g.root[l].next, t)
  BY <1>3, <1>11, <1>12 DEF IsPath
<1>14. \A n \in h.used : ~OnPath(n, s) => n \in g.used /\ g.node[n] = h.node[n]
  <2> SUFFICES ASSUME NEW n \in h.used, ~OnPath(n, s) PROVE n \in g.used /\ g.node[n] = h.node[n]
    OBVIOUS
  <2>1. ~\E i \in (a + 1)..b : n = s[i]
    BY <1>1, <1>2 DEF OnPath
  <2>2. ~(a > 0 /\ n = s[a])
    BY <1>1, <1>2 DEF OnPath
  <2> QED
    BY <1>1, <1>7, <2>1, <2>2
<1>15. ASSUME NEW i \in 1..Len(t)
       PROVE  t[i] \in g.used /\ (t[i] \in h.used => OnPath(t[i], s))
  <2>1. CASE i \in 1..a
    <3>1. t[i] = s[i] /\ i \in 1..Len(s) /\ s[i] \in h.used /\ s[i] \in Nodes
      BY <1>1, <1>3, <1>5, <2>1
    <3>2. ~\E j \in (a + 1)..b : s[i] = s[j]
      <4> SUFFICES ASSUME NEW j \in (a + 1)..b, s[i] = s[j] PROVE FALSE
        OBVIOUS
      <4>1. j \in 1..Len(s) /\ i # j
        BY <1>1, <1>2, <2>1
      <4> QED
        BY <1>1, <3>1, <4>1 DEF Apart
    <3> QED
      BY <1>7, <3>1, <3>2 DEF OnPath
  <2>2. CASE \E j \in 1..c : i = a + j
    <3>1. PICK j \in 1..c : i = a + j
      BY <2>2
    <3>2. t[i] = ns[j] /\ ns[j] \in Nodes /\ ns[j] \notin h.used /\ OnPath(ns[j], ns)
      BY <1>2, <1>3, <3>1 DEF OnPath, c
    <3> QED
      BY <1>7, <3>2
  <2>3. CASE \E j \in 1..rest : i = a + c + j
    <3>1. PICK j \in 1..rest : i = a + c + j
      BY <2>3
    <3>2. t[i] = s[b + j] /\ b + j \in 1..Len(s) /\ s[b + j] \in h.used /\ s[b + j] \in Nodes
      BY <1>1, <1>3, <1>5, <3>1
    <3>3. ~\E k \in (a + 1)..b : s[b + j] = s[k]
      <4> SUFFICES ASSUME NEW k \in (a + 1)..b, s[b + j] = s[k] PROVE FALSE
        OBVIOUS
      <4>1. k \in 1..Len(s) /\ b + j # k
        BY <1>1, <1>2, <3>1
      <4> QED
        BY <1>1, <3>2, <4>1 DEF Apart
    <3> QED
      BY <1>7, <3>2, <3>3 DEF OnPath
  <2> QED
    BY <1>4, <2>1, <2>2, <2>3
<1>16. ASSUME NEW n \in g.used PROVE OnPath(n, t) \/ (n \in h.used /\ ~OnPath(n, s))
  <2>1. n \in Nodes
    BY <1>7 DEF Heaps
  <2>2. CASE OnPath(n, ns)
    <3>1. PICK j \in 1..c : n = ns[j]
      BY <2>2 DEF OnPath, c
    <3>2. a + j \in 1..Len(t) /\ t[a + j] = n
      BY <1>2, <1>3, <3>1
    <3> QED
      BY <3>2 DEF OnPath
  <2>3. CASE n \in h.used /\ ~\E i \in (a + 1)..b : n = s[i]
    <3> SUFFICES ASSUME OnPath(n, s) PROVE OnPath(n, t)
      BY <2>3
    <3>1. PICK i \in 1..Len(s) : n = s[i]
      BY DEF OnPath
    <3>2. i <= a \/ i > b
      BY <1>2, <2>3, <3>1
    <3>3. CASE i <= a
      <4>1. i \in 1..a /\ i \in 1..Len(t) /\ t[i] = s[i]
        BY <1>2, <1>3, <3>1, <3>3
      <4> QED
        BY <3>1, <4>1 DEF OnPath
    <3>4. CASE i > b
      <4>1. i - b \in 1..rest /\ b + (i - b) = i
        BY <1>5, <3>1, <3>4
      <4>2. a + c + (i - b) \in 1..Len(t)
        BY <1>2, <1>3, <4>1
      <4>3. t[a + c + (i - b)] = s[b + (i - b)]
        BY <1>3, <4>1
      <4> QED
        BY <3>1, <4>1, <4>2, <4>3 DEF OnPath
    <3> QED
      BY <3>2, <3>3, <3>4
  <2> QED
    BY <1>7, <2>1, <2>2, <2>3
<1>17. g \in Heaps /\ \A m \in Lists : m # l => g.root[m] = h.root[m]
  BY <1>7
<1> QED
  BY <1>6, <1>13, <1>14, <1>15, <1>16, <1>17, Relaid DEF s, t
-----------------------------------------------------------------------------
(* The elements after a call.                                               *)
Things == Values \cup {Zero}

LEMMA ItemsAre ==
  ASSUME NEW g, NEW q, Laid(g, q), NEW l \in Lists, ~List!IsEmpty(g, l),
         NEW w \in Seq(Things), Len(w) = 1 + Len(q[l]), w[1] = g.root[l].value,
         \A i \in 2..Len(w) : w[i] = g.node[q[l][i - 1]].value
  PROVE  List!Items(g, l) = w
<1>1. List!Items(g, l) \in Seq(Things) /\ Len(List!Items(g, l)) = List!Size(g, l) /\ List!Size(g, l) = 1 + Len(q[l])
  BY ItemsFacts, SizeFacts DEF Things
<1>2. ASSUME NEW i \in 1..Len(List!Items(g, l)) PROVE List!Items(g, l)[i] = w[i]
  <2>1. List!Items(g, l)[i] = ValueAt(g, l, q[l], i)
    BY <1>1, ItemsFacts
  <2>2. i = 1 \/ i \in 2..Len(w)
    BY <1>1, LenProperties
  <2> QED
    BY <2>1, <2>2 DEF ValueAt
<1> QED
  BY <1>1, <1>2, SeqEqual

LEMMA NotEmpty ==
  ASSUME NEW g, NEW q, Laid(g, q), NEW l \in Lists, g.root[l].value # Zero \/ Len(q[l]) > 0
  PROVE  ~List!IsEmpty(g, l)
BY SizeFacts DEF List!IsEmpty, List!Root

\* The elements in the nodes.
ValuesRespliced(h, g, s, a, ns, b) ==
    \A i \in 1..(a + Len(ns) + (Len(s) - b)) :
        g.node[Spliced(s, a, ns, b)[i]].value =
            IF i <= a THEN h.node[s[i]].value
            ELSE IF i <= a + Len(ns) THEN g.node[ns[i - a]].value
            ELSE h.node[s[i - a - Len(ns) + b]].value

LEMMA ResplicedValues ==
  ASSUME NEW h, NEW p, Laid(h, p), NEW l \in Lists, NEW g,
         NEW b \in 0..Len(p[l]), NEW a \in 0..b, NEW ns \in Seq(Nodes),
         Respliced(h, g, l, p[l], a, ns, b)
  PROVE  ValuesRespliced(h, g, p[l], a, ns, b)
<1> DEFINE s == p[l]
           c == Len(ns)
           t == Spliced(s, a, ns, b)
<1> SUFFICES ASSUME NEW i \in 1..(a + c + (Len(s) - b))
             PROVE  g.node[t[i]].value = IF i <= a THEN h.node[s[i]].value
                                         ELSE IF i <= a + c THEN g.node[ns[i - a]].value
                                         ELSE h.node[s[i - a - c + b]].value
  BY DEF ValuesRespliced
<1>1. /\ Len(s) \in Nat /\ c \in Nat /\ a \in Nat /\ b \in Nat /\ a <= b /\ b <= Len(s)
      /\ Apart(s) /\ \A k \in 1..Len(s) : s[k] \in h.used
  BY LaidFacts, LenProperties
<1>2. t[i] = IF i <= a THEN s[i] ELSE IF i <= a + c THEN ns[i - a] ELSE s[i - a - c + b]
  BY DEF Spliced
<1>3. ASSUME NEW k \in 1..Len(s), ~(k \in (a + 1)..b)
      PROVE  g.node[s[k]].value = h.node[s[k]].value
  <2>1. s[k] \in h.used
    BY <1>1
  <2>2. ~\E j \in (a + 1)..b : s[k] = s[j]
    <3> SUFFICES ASSUME NEW j \in (a + 1)..b, s[k] = s[j] PROVE FALSE
      OBVIOUS
    <3>1. j \in 1..Len(s) /\ k # j
      BY <1>1, <1>3
    <3> QED
      BY <1>1, <3>1 DEF Apart
  <2> QED
    BY <2>1, <2>2 DEF Respliced
<1> HIDE DEF s, c, t
<1>4. CASE i <= a
  <2>1. i \in 1..Len(s) /\ ~(i \in (a + 1)..b)
    BY <1>1, <1>4
  <2> QED
    BY <1>2, <1>3, <1>4, <2>1 DEF s, c, t
<1>5. CASE ~(i <= a) /\ i <= a + c
  BY <1>2, <1>5 DEF s, c, t
<1>6. CASE ~(i <= a) /\ ~(i <= a + c)
  <2>1. i <= a + c + (Len(s) - b) /\ i \in Nat
    BY <1>1 DEF s, c
  <2>2. i - a - c + b \in 1..Len(s) /\ ~(i - a - c + b \in (a + 1)..b)
    BY <1>1, <1>6, <2>1
  <2> QED
    BY <1>2, <1>3, <1>6, <2>2 DEF s, c, t
<1> QED
  BY <1>4, <1>5, <1>6

\* The root's element is kept and is not the only one that may be falsy: the
\* elements change as the nodes behind them.
KeepsFirst(h, p, g, l, a, ns, v, b) ==
    /\ Laid(h, p) /\ l \in Lists /\ ~List!IsEmpty(h, l)
    /\ b \in 0..Len(p[l]) /\ a \in 0..b
    /\ ns \in Seq(Nodes) /\ Apart(ns) /\ \A i \in 1..Len(ns) : ns[i] \notin h.used
    /\ Respliced(h, g, l, p[l], a, ns, b)
    /\ g.root[l].value = h.root[l].value
    /\ g.root[l].value # Zero \/ Len(ns) > 0
    /\ v \in Seq(Things) /\ Len(v) = Len(ns)
    /\ \A i \in 1..Len(ns) : g.node[ns[i]].value = v[i]

LEMMA KeptFirst ==
  ASSUME NEW h, NEW p, NEW g, NEW l, NEW a, NEW ns, NEW v, NEW b,
         KeepsFirst(h, p, g, l, a, ns, v, b)
  PROVE  List!Items(g, l) = Spliced(List!Items(h, l), a + 1, v, b + 1)
<1>0. /\ Laid(h, p) /\ l \in Lists /\ ~List!IsEmpty(h, l)
      /\ b \in 0..Len(p[l]) /\ a \in 0..b
      /\ ns \in Seq(Nodes) /\ Apart(ns) /\ \A i \in 1..Len(ns) : ns[i] \notin h.used
      /\ Respliced(h, g, l, p[l], a, ns, b)
      /\ g.root[l].value = h.root[l].value
      /\ g.root[l].value # Zero \/ Len(ns) > 0
      /\ v \in Seq(Things) /\ Len(v) = Len(ns)
      /\ \A i \in 1..Len(ns) : g.node[ns[i]].value = v[i]
  BY DEF KeepsFirst
<1> DEFINE s == p[l]
           c == Len(ns)
           t == Spliced(s, a, ns, b)
           x == List!Items(h, l)
           w == Spliced(x, a + 1, v, b + 1)
           q == [p EXCEPT ![l] = t]
<1>1. /\ Len(s) \in Nat /\ c \in Nat /\ a \in Nat /\ b \in Nat /\ a <= b /\ b <= Len(s)
      /\ s \in Seq(Nodes)
  BY <1>0, LaidFacts, LenProperties
<1>2. x \in Seq(Things) /\ Len(x) = 1 + Len(s) /\ \A i \in 1..(1 + Len(s)) : x[i] = ValueAt(h, l, s, i)
  BY <1>0, ItemsFacts, SizeFacts DEF Things
<1>3. Laid(g, q)
  BY <1>0, RespliceLays
<1>4. q[l] = t
  BY <1>0 DEF Laid
<1>5. Len(t) = a + c + (Len(s) - b)
  <2>1. s \in Seq(Nodes) /\ ns \in Seq(Nodes) /\ b \in 0..Len(s) /\ a \in 0..b
    BY <1>0, <1>1
  <2> HIDE DEF s
  <2> QED
    BY <1>0, <2>1, SplicedFacts
<1>6. w \in Seq(Things) /\ Len(w) = (a + 1) + c + ((1 + Len(s)) - (b + 1))
  <2>1. b + 1 \in 0..Len(x) /\ a + 1 \in 0..(b + 1) /\ x \in Seq(Things) /\ v \in Seq(Things)
    BY <1>0, <1>1, <1>2
  <2> HIDE DEF x
  <2> DEFINE a1 == a + 1
             b1 == b + 1
  <2> HIDE DEF a1, b1
  <2>2. b1 \in 0..Len(x) /\ a1 \in 0..b1
    BY <1>0, <2>1 DEF a1, b1
  <2>3. \A y, z \in Seq(Things) : \A j \in 0..Len(y) : \A i \in 0..j :
            /\ Spliced(y, i, z, j) \in Seq(Things)
            /\ Len(Spliced(y, i, z, j)) = i + Len(z) + (Len(y) - j)
    BY <1>0, SplicedFacts
  <2>4. w = Spliced(x, a1, v, b1)
    BY DEF a1, b1
  <2> HIDE DEF w
  <2>5. w \in Seq(Things) /\ Len(w) = a1 + Len(v) + (Len(x) - b1)
    BY <2>1, <2>2, <2>3, <2>4
  <2> QED
    BY <1>0, <1>2, <2>5 DEF a1, b1
<1>7. \A i \in 1..((a + 1) + c + ((1 + Len(s)) - (b + 1))) :
          w[i] = IF i <= a + 1 THEN x[i]
                 ELSE IF i <= (a + 1) + c THEN v[i - (a + 1)] ELSE x[i - (a + 1) - c + (b + 1)]
  <2> HIDE DEF x
  <2> QED
    BY <1>0, <1>2 DEF Spliced
<1>8. \A i \in 1..(a + c + (Len(s) - b)) :
          g.node[t[i]].value = IF i <= a THEN h.node[s[i]].value
                               ELSE IF i <= a + c THEN g.node[ns[i - a]].value
                               ELSE h.node[s[i - a - c + b]].value
  <2>1. ValuesRespliced(h, g, p[l], a, ns, b)
    BY <1>0, ResplicedValues
  <2> QED
    BY <1>0, <2>1 DEF ValuesRespliced
<1>9. Len(w) = 1 + Len(t)
  <2> HIDE DEF s, c, t, x, w
  <2> QED
    BY <1>1, <1>5, <1>6
<1>10. ~List!IsEmpty(g, l)
  <2>1. g.root[l].value # Zero \/ Len(q[l]) > 0
    BY <1>0, <1>1, <1>4, <1>5
  <2> HIDE DEF q
  <2> QED
    BY <1>0, <1>3, <2>1, NotEmpty
<1> HIDE DEF s, c, t, x, w, q
<1>11. w[1] = g.root[l].value
  <2>1. 1 \in 1..((a + 1) + c + ((1 + Len(s)) - (b + 1))) /\ 1 <= a + 1 /\ 1 \in 1..(1 + Len(s))
    BY <1>0, <1>1
  <2> QED
    BY <1>0, <1>2, <1>7, <2>1 DEF ValueAt
<1>12. ASSUME NEW i \in 2..Len(w) PROVE w[i] = g.node[t[i - 1]].value
  <2>1. /\ i - 1 \in 1..(a + c + (Len(s) - b)) /\ i # 1
        /\ i \in 1..((a + 1) + c + ((1 + Len(s)) - (b + 1)))
    BY <1>1, <1>6
  <2>2. CASE i <= a + 1
    <3>1. i - 1 <= a /\ i \in 1..(1 + Len(s))
      BY <1>0, <1>1, <2>1, <2>2
    <3> QED
      BY <1>0, <1>2, <1>7, <1>8, <2>1, <2>2, <3>1 DEF ValueAt
  <2>3. CASE ~(i <= a + 1) /\ i <= (a + 1) + c
    <3>1. ~(i - 1 <= a) /\ i - 1 <= a + c /\ i - (a + 1) = (i - 1) - a /\ (i - 1) - a \in 1..c
      BY <1>1, <2>1, <2>3
    <3>2. w[i] = v[(i - 1) - a] /\ g.node[t[i - 1]].value = g.node[ns[(i - 1) - a]].value
      BY <1>0, <1>7, <1>8, <2>1, <2>3, <3>1
    <3> QED
      BY <1>0, <3>1, <3>2 DEF c
  <2>4. CASE ~(i <= a + 1) /\ ~(i <= (a + 1) + c)
    <3>1. /\ ~(i - 1 <= a) /\ ~(i - 1 <= a + c)
          /\ i - (a + 1) - c + (b + 1) = ((i - 1) - a - c + b) + 1
          /\ ((i - 1) - a - c + b) + 1 \in 2..(1 + Len(s))
      BY <1>1, <2>1, <2>4
    <3>2. w[i] = x[((i - 1) - a - c + b) + 1] /\ g.node[t[i - 1]].value = h.node[s[(i - 1) - a - c + b]].value
      BY <1>0, <1>7, <1>8, <2>1, <2>4, <3>1
    <3> DEFINE k == (i - 1) - a - c + b
    <3>3. k + 1 \in 2..(1 + Len(s)) /\ k + 1 \in 1..(1 + Len(s)) /\ k + 1 # 1 /\ (k + 1) - 1 = k
      BY <1>1, <2>1, <3>1
    <3> HIDE DEF k
    <3>4. x[k + 1] = h.node[s[k]].value
      BY <1>0, <1>2, <3>3 DEF ValueAt
    <3> QED
      BY <1>0, <3>2, <3>4 DEF k
  <2> QED
    BY <2>2, <2>3, <2>4
<1>13. /\ Laid(g, q) /\ ~List!IsEmpty(g, l) /\ w \in Seq(Things) /\ Len(w) = 1 + Len(q[l])
       /\ w[1] = g.root[l].value /\ \A i \in 2..Len(w) : w[i] = g.node[q[l][i - 1]].value
  BY <1>0, <1>3, <1>4, <1>6, <1>9, <1>10, <1>11, <1>12
<1>14. List!Items(g, l) = w
  BY <1>0, <1>13, ItemsAre
<1> QED
  BY <1>0, <1>14 DEF x, w
-----------------------------------------------------------------------------
(* Insertion behind an element.                                             *)
LEMMA InsertBehindFacts ==
  ASSUME NEW h, NEW p, Laid(h, p), NEW l \in Lists, NEW i \in 1..List!Size(h, l),
         NEW v \in Seq(Things), Len(v) > 0, Len(v) <= Cardinality(Nodes \ h.used)
  PROVE  LET g == List!InsertAfter(h, l, i, v)
         IN  /\ \E q : Laid(g, q)
             /\ List!Items(g, l) = Spliced(List!Items(h, l), i, v, i)
<1> DEFINE s == p[l]
           k == Len(v)
           ns == List!Take(h, k)
           h1 == List!SetNext(h, l, i, ns[1])
           after == List!NodeAt(h, l, i + 1)
           g == List!Allocated(h1, ns, v, after)
           a == i - 1
<1>1. /\ List!Size(h, l) \in Nat /\ Len(s) = List!Size(h, l) - 1 /\ i \in Nat /\ a \in 0..Len(s)
      /\ i + 1 \in 2..(List!Size(h, l) + 1) /\ ~List!IsEmpty(h, l) /\ i # 0 /\ (i + 1) - 2 = a
      /\ a \in Nat /\ a \in 0..a
  BY SizeFacts
<1>2. k \in Nat /\ k # 0
  BY LenProperties
<1>3. ns \in Seq(Nodes) /\ Len(ns) = k /\ Apart(ns) /\ \A j \in 1..k : ns[j] \in Nodes \ h.used
  BY <1>2, TakeFacts
<1>4. List!InsertAfter(h, l, i, v) = g
  BY <1>1 DEF List!InsertAfter
<1>5. after = After(s, a)
  BY <1>1, SizeFacts
<1>6. after \in Nodes \cup {NULL}
  <2>1. \A j \in 1..Len(s) : s[j] \in Nodes
    BY LaidFacts
  <2> QED
    BY <1>1, <1>5, <2>1 DEF After
<1>7. ns[1] \in Nodes
  BY <1>2, <1>3
<1> HIDE DEF ns, after, k
<1>8. /\ h1 \in Heaps /\ h1.used = h.used
      /\ \A m \in Lists : m # l => h1.root[m] = h.root[m]
      /\ h1.root[l].value = h.root[l].value
      /\ \A n \in Nodes : h1.node[n].value = h.node[n].value
      /\ h1.root[l].next = IF i = 1 THEN ns[1] ELSE h.root[l].next
      /\ i > 1 => h1.node[s[i - 1]].next = ns[1]
      /\ \A n \in Nodes : (i > 1 /\ n = s[i - 1]) \/ h1.node[n] = h.node[n]
  BY <1>7, SetNextFacts
<1> HIDE DEF h1
<1>9. /\ g \in Heaps /\ g.root = h1.root
      /\ \A n \in Nodes : n \in g.used <=> n \in h1.used \/ OnPath(n, ns)
      /\ \A n \in Nodes : ~OnPath(n, ns) => g.node[n] = h1.node[n]
      /\ \A j \in 1..Len(ns) : /\ g.node[ns[j]].value = v[j]
                               /\ g.node[ns[j]].next = IF j = Len(ns) THEN after ELSE ns[j + 1]
  BY <1>3, <1>6, <1>8, AllocatedFacts DEF Things, k
<1> HIDE DEF g
<1>10. /\ \A n \in h.used : ~OnPath(n, ns) /\ n \in Nodes
       /\ \A j \in 1..Len(s) : s[j] \in h.used
  BY <1>3, LaidFacts DEF OnPath
<1>11. Respliced(h, g, l, s, a, ns, a)
  <2>1. ~\E j \in (a + 1)..a : TRUE
    BY <1>1
  <2>2. a > 0 <=> i > 1
    BY <1>1
  <2>3. a = 0 <=> i = 1
    BY <1>1
  <2>4. Len(ns) # 0
    BY <1>2, <1>3
  <2>5. ASSUME a # 0 PROVE g.node[s[a]].next = ns[1]
    <3>1. a \in 1..Len(s) /\ i > 1
      BY <1>1, <2>5
    <3> QED
      BY <1>8, <1>9, <1>10, <3>1
  <2>6. \A n \in h.used : g.node[n] = h.node[n] \/ (a > 0 /\ n = s[a] /\ g.node[n].value = h.node[n].value)
    BY <1>8, <1>9, <1>10, <2>2
  <2> QED
    BY <1>5, <1>8, <1>9, <2>1, <2>3, <2>4, <2>5, <2>6 DEF Respliced
<1>12. /\ a \in 0..Len(p[l]) /\ a \in 0..a /\ \A j \in 1..Len(ns) : ns[j] \notin h.used
       /\ Respliced(h, g, l, p[l], a, ns, a)
  BY <1>1, <1>3, <1>11
<1>13. \E q : Laid(g, q)
  <2>1. Laid(g, [p EXCEPT ![l] = Spliced(p[l], a, ns, a)])
    BY <1>3, <1>12, RespliceLays
  <2> QED
    BY <2>1
<1>14. List!Items(g, l) = Spliced(List!Items(h, l), a + 1, v, a + 1)
  <2>1. /\ ns \in Seq(Nodes) /\ Apart(ns) /\ g.root[l].value = h.root[l].value
        /\ Len(ns) > 0 /\ Len(v) = Len(ns)
        /\ \A j \in 1..Len(ns) : g.node[ns[j]].value = v[j]
    BY <1>2, <1>3, <1>8, <1>9 DEF k
  <2>2. KeepsFirst(h, p, g, l, a, ns, v, a)
    BY <1>1, <1>12, <2>1 DEF KeepsFirst
  <2> HIDE DEF a
  <2> QED
    BY <2>2, KeptFirst
<1>15. a + 1 = i
  BY <1>1
<1> QED
  BY <1>4, <1>13, <1>14, <1>15
-----------------------------------------------------------------------------
(* In front of the first element.                                           *)
\* The root has a new value, the new nodes come behind it.
TakesFirst(h, p, g, l, ms, b, w) ==
    /\ Laid(h, p) /\ l \in Lists /\ b \in 0..Len(p[l])
    /\ ms \in Seq(Nodes) /\ Apart(ms) /\ \A i \in 1..Len(ms) : ms[i] \notin h.used
    /\ Respliced(h, g, l, p[l], 0, ms, b)
    /\ w \in Seq(Things) /\ Len(w) = 1 + Len(ms) + (Len(p[l]) - b)
    /\ w[1] = g.root[l].value
    /\ w[1] # Zero \/ Len(w) > 1
    /\ \A i \in 1..Len(ms) : w[1 + i] = g.node[ms[i]].value
    /\ \A i \in 1..(Len(p[l]) - b) : w[1 + Len(ms) + i] = h.node[p[l][b + i]].value

LEMMA TakenFirst ==
  ASSUME NEW h, NEW p, NEW g, NEW l, NEW ms, NEW b, NEW w,
         TakesFirst(h, p, g, l, ms, b, w)
  PROVE  List!Items(g, l) = w
<1>0. /\ Laid(h, p) /\ l \in Lists /\ b \in 0..Len(p[l])
      /\ ms \in Seq(Nodes) /\ Apart(ms) /\ \A i \in 1..Len(ms) : ms[i] \notin h.used
      /\ Respliced(h, g, l, p[l], 0, ms, b)
      /\ w \in Seq(Things) /\ Len(w) = 1 + Len(ms) + (Len(p[l]) - b)
      /\ w[1] = g.root[l].value
      /\ w[1] # Zero \/ Len(w) > 1
      /\ \A i \in 1..Len(ms) : w[1 + i] = g.node[ms[i]].value
      /\ \A i \in 1..(Len(p[l]) - b) : w[1 + Len(ms) + i] = h.node[p[l][b + i]].value
  BY DEF TakesFirst
<1> DEFINE s == p[l]
           c == Len(ms)
           t == Spliced(s, 0, ms, b)
           q == [p EXCEPT ![l] = t]
<1>1. /\ Len(s) \in Nat /\ c \in Nat /\ b \in Nat /\ b <= Len(s) /\ s \in Seq(Nodes)
      /\ 0 \in 0..b
  BY <1>0, LaidFacts, LenProperties
<1>3. Laid(g, q)
  BY <1>0, <1>1, RespliceLays
<1>4. q[l] = t
  BY <1>0 DEF Laid
<1>5. Len(t) = 0 + c + (Len(s) - b)
  <2>1. s \in Seq(Nodes) /\ ms \in Seq(Nodes) /\ b \in 0..Len(s) /\ 0 \in 0..b
    BY <1>0, <1>1
  <2> HIDE DEF s
  <2> QED
    BY <2>1, SplicedFacts
<1>8. \A i \in 1..(0 + c + (Len(s) - b)) :
          g.node[t[i]].value = IF i <= 0 THEN h.node[s[i]].value
                               ELSE IF i <= 0 + c THEN g.node[ms[i - 0]].value
                               ELSE h.node[s[i - 0 - c + b]].value
  <2>1. ValuesRespliced(h, g, p[l], 0, ms, b)
    BY <1>0, <1>1, ResplicedValues
  <2> QED
    BY <2>1 DEF ValuesRespliced
<1> HIDE DEF t, q
<1>9. Len(w) = 1 + Len(t)
  <2>1. Len(w) = 1 + c + (Len(s) - b)
    BY <1>0
  <2> HIDE DEF c, s
  <2> QED
    BY <1>1, <1>5, <2>1
<1>10. ~List!IsEmpty(g, l)
  <2>1. g.root[l].value # Zero \/ Len(q[l]) > 0
    <3>1. Len(w) > 1 => Len(t) > 0
      <4> HIDE DEF c, s
      <4> QED
        BY <1>1, <1>5, <1>9
    <3> QED
      BY <1>0, <1>4, <3>1
  <2> QED
    BY <1>0, <1>3, <2>1, NotEmpty
<1>12. ASSUME NEW i \in 2..Len(w) PROVE w[i] = g.node[t[i - 1]].value
  <2>0. /\ \A j \in 1..c : w[1 + j] = g.node[ms[j]].value
        /\ \A j \in 1..(Len(s) - b) : w[1 + c + j] = h.node[s[b + j]].value
    BY <1>0
  <2> HIDE DEF c, s
  <2> DEFINE j == i - 1
  <2>1. j \in 1..(0 + c + (Len(s) - b)) /\ i = 1 + j /\ ~(j <= 0)
    BY <1>1, <1>5, <1>9
  <2> HIDE DEF j
  <2>2. CASE j <= c
    <3>1. j \in 1..c /\ j <= 0 + c /\ j - 0 = j
      BY <1>1, <2>1, <2>2
    <3> QED
      BY <1>8, <2>0, <2>1, <3>1 DEF j
  <2>3. CASE ~(j <= c)
    <3>1. /\ j - c \in 1..(Len(s) - b) /\ 1 + c + (j - c) = i /\ ~(j <= 0 + c)
          /\ j - 0 - c + b = b + (j - c)
      BY <1>1, <2>1, <2>3
    <3>2. w[i] = h.node[s[b + (j - c)]].value
      BY <2>0, <3>1
    <3>3. g.node[t[j]].value = h.node[s[b + (j - c)]].value
      BY <1>8, <2>1, <3>1
    <3> QED
      BY <3>2, <3>3 DEF j
  <2> QED
    BY <2>2, <2>3
<1>13. /\ Laid(g, q) /\ ~List!IsEmpty(g, l) /\ w \in Seq(Things) /\ Len(w) = 1 + Len(q[l])
       /\ w[1] = g.root[l].value /\ \A i \in 2..Len(w) : w[i] = g.node[q[l][i - 1]].value
  BY <1>0, <1>3, <1>4, <1>9, <1>10, <1>12
<1>14. l \in Lists
  BY <1>0
<1> HIDE DEF s, c
<1> QED
  BY <1>13, <1>14, ItemsAre

\* All elements are in nodes of their own.
MovedOut(h, h1, l, p1) ==
    /\ Laid(h1, p1)
    /\ h.root[l].value = Zero => h1 = h
    /\ h.root[l].value # Zero => \E n : h1.used = h.used \cup {n}
    /\ List!IsEmpty(h, l) \/ h.root[l].value # Zero =>
           /\ Len(p1[l]) = List!Size(h, l)
           /\ \A i \in 1..Len(p1[l]) : h1.node[p1[l][i]].value = List!Items(h, l)[i]

LEMMA RootMovedOutFacts ==
  ASSUME NEW h, NEW p, Laid(h, p), NEW l \in Lists,
         h.root[l].value = Zero \/ 1 <= Cardinality(Nodes \ h.used)
  PROVE  \E p1 : MovedOut(h, List!RootMovedOut(h, l), l, p1)
<1> DEFINE s == p[l]
           h1 == List!RootMovedOut(h, l)
<1>1. CASE h.root[l].value = Zero
  <2>1. h1 = h
    BY <1>1 DEF List!RootMovedOut
  <2>2. List!IsEmpty(h, l) => Len(p[l]) = List!Size(h, l) /\ Len(p[l]) = 0
    BY SizeFacts
  <2>3. Laid(h1, p)
    BY <2>1
  <2> HIDE DEF h1, s
  <2>4. MovedOut(h, h1, l, p)
    BY <1>1, <2>1, <2>2, <2>3 DEF MovedOut
  <2> QED
    BY <2>4 DEF h1
<1>2. CASE h.root[l].value # Zero
  <2> DEFINE ns == List!Take(h, 1)
             v == <<h.root[l].value>>
             after == h.root[l].next
             h2 == List!Allocated(h, ns, v, after)
             t == Spliced(s, 0, ns, 0)
  <2>1. /\ Len(s) \in Nat /\ s \in Seq(Nodes) /\ IsPath(h, after, s) /\ after \in Nodes \cup {NULL}
        /\ v \in Seq(Things) /\ Len(v) = 1 /\ v[1] = h.root[l].value /\ h \in Heaps
        /\ \A j \in 1..Len(s) : s[j] \in h.used
    <3>1. /\ Len(s) \in Nat /\ s \in Seq(Nodes) /\ IsPath(h, after, s) /\ h.root[l] \in Element
          /\ \A j \in 1..Len(s) : s[j] \in h.used
      BY LaidFacts
    <3>2. after \in Nodes \cup {NULL} /\ h.root[l].value \in Things
      BY <3>1 DEF Element, Things
    <3>3. v \in Seq(Things) /\ Len(v) = 1 /\ v[1] = h.root[l].value
      BY <3>2
    <3> QED
      BY <3>1, <3>2, <3>3 DEF Laid
  <2>2. ns \in Seq(Nodes) /\ Len(ns) = 1 /\ Apart(ns) /\ ns[1] \in Nodes \ h.used
    <3>1. 1 \in Nat /\ 1 <= Cardinality(Nodes \ h.used)
      BY <1>2
    <3>2. /\ ns \in Seq(Nodes) /\ Len(ns) = 1 /\ Apart(ns)
          /\ \A j \in 1..1 : ns[j] \in Nodes \ h.used
      BY <3>1, TakeFacts
    <3> QED
      BY <3>2
  <2>3. h1 = [h2 EXCEPT !.root[l].next = ns[1]]
    BY <1>2 DEF List!RootMovedOut
  <2> HIDE DEF ns, v, after
  <2>4. /\ h2 \in Heaps /\ h2.root = h.root
        /\ \A n \in Nodes : n \in h2.used <=> n \in h.used \/ OnPath(n, ns)
        /\ \A n \in Nodes : ~OnPath(n, ns) => h2.node[n] = h.node[n]
        /\ \A j \in 1..Len(ns) : /\ h2.node[ns[j]].value = v[j]
                                 /\ h2.node[ns[j]].next = IF j = Len(ns) THEN after ELSE ns[j + 1]
    <3>1. /\ h \in Heaps /\ ns \in Seq(Nodes) /\ Apart(ns) /\ v \in Seq(Values \cup {Zero})
          /\ Len(v) = Len(ns) /\ after \in Nodes \cup {NULL}
      BY <2>1, <2>2 DEF Things
    <3> QED
      BY <3>1, AllocatedFacts
  <2> HIDE DEF h1, h2
  <2>5. /\ h1 \in Heaps /\ h1.node = h2.node /\ h1.used = h2.used
        /\ h1.root[l].next = ns[1] /\ \A m \in Lists : m # l => h1.root[m] = h.root[m]
    <3> DEFINE r == [h2.root[l] EXCEPT !.next = ns[1]]
               root == [h2.root EXCEPT ![l] = r]
    <3>1. h1 = [h2 EXCEPT !.root = root]
      BY <2>3, <2>4 DEF Heaps, Element
    <3>2. r \in Element /\ r.next = ns[1]
      BY <2>2, <2>4 DEF Heaps, Element
    <3> HIDE DEF r
    <3>3. root \in [Lists -> Element] /\ root[l] = r /\ \A m \in Lists : m # l => root[m] = h.root[m]
      BY <2>4, <3>2 DEF Heaps
    <3> HIDE DEF root
    <3> QED
      BY <2>4, <3>1, <3>2, <3>3 DEF Heaps
  <2>6. \A n : OnPath(n, ns) <=> n = ns[1]
    BY <2>2 DEF OnPath
  <2>7. Respliced(h, h1, l, s, 0, ns, 0)
    <3>1. \A n \in h.used : h1.node[n] = h.node[n]
      BY <2>1, <2>2, <2>4, <2>5, <2>6 DEF Heaps
    <3>2. \A n \in Nodes : n \in h1.used <=> OnPath(n, ns) \/ n \in h.used
      BY <2>4, <2>5
    <3>3. \A j \in 1..Len(ns) : h1.node[ns[j]].next = IF j = Len(ns) THEN After(s, 0) ELSE ns[j + 1]
      BY <2>1, <2>4, <2>5 DEF IsPath
    <3>4. ~\E j \in (0 + 1)..0 : TRUE
      OBVIOUS
    <3> QED
      BY <2>2, <2>5, <3>1, <3>2, <3>3, <3>4 DEF Respliced
  <2>8. /\ 0 \in 0..Len(p[l]) /\ 0 \in 0..0 /\ \A j \in 1..Len(ns) : ns[j] \notin h.used
        /\ Respliced(h, h1, l, p[l], 0, ns, 0)
    BY <2>1, <2>2, <2>7
  <2> DEFINE p1 == [p EXCEPT ![l] = t]
  <2>9. Laid(h1, p1)
    BY <2>2, <2>8, RespliceLays
  <2>10. p1[l] = t
    BY DEF Laid
  <2>11. Len(t) = 0 + Len(ns) + (Len(s) - 0)
    <3>1. s \in Seq(Nodes) /\ ns \in Seq(Nodes) /\ 0 \in 0..Len(s) /\ 0 \in 0..0
      BY <2>1, <2>2
    <3> HIDE DEF s
    <3> QED
      BY <3>1, SplicedFacts
  <2>12. ValuesRespliced(h, h1, s, 0, ns, 0)
    BY <2>2, <2>8, ResplicedValues
  <2>13. Len(t) = 1 + Len(s) /\ List!Size(h, l) = 1 + Len(s)
    <3>1. ~List!IsEmpty(h, l)
      BY <1>2 DEF List!IsEmpty, List!Root
    <3>2. List!Size(h, l) = 1 + Len(p[l])
      BY <3>1, SizeFacts
    <3> HIDE DEF t
    <3> QED
      BY <2>1, <2>2, <2>11, <3>2
  <2>14. ASSUME NEW i \in 1..Len(t) PROVE h1.node[t[i]].value = List!Items(h, l)[i]
    <3>0. List!Items(h, l)[i] = ValueAt(h, l, s, i)
      BY <2>13, ItemsFacts
    <3>1. h1.node[t[i]].value = IF i <= 0 THEN h.node[s[i]].value
                                ELSE IF i <= 0 + Len(ns) THEN h1.node[ns[i - 0]].value
                                ELSE h.node[s[i - 0 - Len(ns) + 0]].value
      BY <2>11, <2>12 DEF ValuesRespliced
    <3> HIDE DEF t, s
    <3>2. CASE i = 1
      <4>1. ~(i <= 0) /\ i <= 0 + Len(ns) /\ i - 0 = 1 /\ 1 \in 1..Len(ns)
        BY <2>2, <3>2
      <4>2. h1.node[ns[1]].value = h.root[l].value
        BY <2>1, <2>4, <2>5, <4>1
      <4> QED
        BY <3>0, <3>1, <3>2, <4>1, <4>2 DEF ValueAt
    <3>3. CASE i # 1
      <4>1. ~(i <= 0) /\ ~(i <= 0 + Len(ns)) /\ i - 0 - Len(ns) + 0 = i - 1
        BY <2>1, <2>2, <2>13, <3>3
      <4> QED
        BY <3>0, <3>1, <3>3, <4>1 DEF ValueAt
    <3> QED
      BY <3>2, <3>3
  <2>15. h1.used = h.used \cup {ns[1]}
    BY <2>1, <2>2, <2>4, <2>5, <2>6 DEF Heaps
  <2> HIDE DEF p1, t
  <2>16. MovedOut(h, h1, l, p1)
    BY <1>2, <2>9, <2>10, <2>13, <2>14, <2>15 DEF MovedOut
  <2> QED
    BY <2>16 DEF h1
<1> QED
  BY <1>1, <1>2

LEMMA FreeAfterOne ==
  ASSUME NEW used, NEW n
  PROVE  /\ Cardinality(Nodes \ used) \in Nat
         /\ Cardinality(Nodes \ (used \cup {n})) \in Nat
         /\ Cardinality(Nodes \ used) <= Cardinality(Nodes \ (used \cup {n})) + 1
<1> DEFINE S == Nodes \ used
<1>1. IsFiniteSet(S)
  BY ListAssumption, FS_Subset
<1>2. S \ {n} = Nodes \ (used \cup {n})
  OBVIOUS
<1> HIDE DEF S
<1>3. /\ IsFiniteSet(S \ {n})
      /\ Cardinality(S \ {n}) = IF n \in S THEN Cardinality(S) - 1 ELSE Cardinality(S)
  BY <1>1, FS_RemoveElement
<1>4. Cardinality(S) \in Nat /\ Cardinality(S \ {n}) \in Nat
  BY <1>1, <1>3, FS_CardinalityType
<1>5. Cardinality(S) <= Cardinality(S \ {n}) + 1
  BY <1>3, <1>4
<1> QED
  BY <1>2, <1>4, <1>5 DEF S

LEMMA InsertInFrontFacts ==
  ASSUME NEW h, NEW p, Laid(h, p), NEW l \in Lists, NEW v \in Seq(Things), Len(v) > 0,
         \/ Len(v) + 1 <= Cardinality(Nodes \ h.used)
         \/ h.root[l].value = Zero /\ Len(v) <= Cardinality(Nodes \ h.used)
  PROVE  LET g == List!InsertAfter(h, l, 0, v)
         IN  /\ \E q : Laid(g, q)
             /\ v[1] # Zero /\ (List!IsEmpty(h, l) \/ h.root[l].value # Zero) =>
                    List!Items(g, l) = Spliced(List!Items(h, l), 0, v, 0)
<1> DEFINE h1 == List!RootMovedOut(h, l)
           k == Len(v)
           ns == List!Take(h1, k)
           after == h1.root[l].next
           h2 == List!Allocated(h1, ns, v, after)
           h3 == List!Delete(h2, {ns[1]})
           r == h2.node[ns[1]]
           g == [h3 EXCEPT !.root[l] = r]
<1>1. k \in Nat /\ 1 \in 1..k /\ \A i \in 1..k : v[i] \in Things
  BY LenProperties, ElementOfSeq
<1>2. List!InsertAfter(h, l, 0, v) = g
  BY DEF List!InsertAfter
<1>3. PICK p1 : MovedOut(h, h1, l, p1)
  <2>1. Cardinality(Nodes \ h.used) \in Nat
    BY FreeAfterOne
  <2>2. h.root[l].value = Zero \/ 1 <= Cardinality(Nodes \ h.used)
    BY <1>1, <2>1
  <2> QED
    BY <2>2, RootMovedOutFacts
<1>4. k <= Cardinality(Nodes \ h1.used)
  <2>1. CASE h.root[l].value = Zero
    <3>1. h1 = h /\ Cardinality(Nodes \ h.used) \in Nat
      BY <1>3, <2>1, FreeAfterOne DEF MovedOut
    <3> QED
      BY <1>1, <3>1
  <2>2. CASE h.root[l].value # Zero
    <3>1. PICK n : h1.used = h.used \cup {n}
      BY <1>3, <2>2 DEF MovedOut
    <3> DEFINE x == Cardinality(Nodes \ h.used)
               y == Cardinality(Nodes \ (h.used \cup {n}))
    <3>2. x \in Nat /\ y \in Nat /\ x <= y + 1
      BY FreeAfterOne
    <3>3. k + 1 <= x
      BY <2>2
    <3>4. Cardinality(Nodes \ h1.used) = y
      BY <3>1
    <3> HIDE DEF x, y, k, h1
    <3> QED
      BY <1>1, <3>2, <3>3, <3>4
  <2> QED
    BY <2>1, <2>2
<1> HIDE DEF h1
<1>5. Laid(h1, p1)
  BY <1>3 DEF MovedOut
<1> DEFINE s == p1[l]
<1>6. /\ Len(s) \in Nat /\ s \in Seq(Nodes) /\ IsPath(h1, after, s) /\ after \in Nodes \cup {NULL}
      /\ \A j \in 1..Len(s) : s[j] \in h1.used
      /\ h1 \in Heaps /\ h1.used \subseteq Nodes
  <2>1. /\ Len(s) \in Nat /\ s \in Seq(Nodes) /\ IsPath(h1, after, s) /\ h1.root[l] \in Element
        /\ \A j \in 1..Len(s) : s[j] \in h1.used
        /\ h1.used \subseteq Nodes
    BY <1>5, LaidFacts
  <2>2. after \in Nodes \cup {NULL}
    BY <2>1 DEF Element
  <2> QED
    BY <1>5, <2>1, <2>2 DEF Laid
<1>7. ns \in Seq(Nodes) /\ Len(ns) = k /\ Apart(ns) /\ \A j \in 1..k : ns[j] \in Nodes \ h1.used
  BY <1>1, <1>4, TakeFacts
<1> HIDE DEF ns, after
<1>8. /\ h2 \in Heaps /\ h2.root = h1.root
      /\ \A n \in Nodes : n \in h2.used <=> n \in h1.used \/ OnPath(n, ns)
      /\ \A n \in Nodes : ~OnPath(n, ns) => h2.node[n] = h1.node[n]
      /\ \A j \in 1..Len(ns) : /\ h2.node[ns[j]].value = v[j]
                               /\ h2.node[ns[j]].next = IF j = Len(ns) THEN after ELSE ns[j + 1]
  <2>1. /\ h1 \in Heaps /\ ns \in Seq(Nodes) /\ Apart(ns) /\ v \in Seq(Values \cup {Zero})
        /\ Len(v) = Len(ns) /\ after \in Nodes \cup {NULL}
    BY <1>6, <1>7 DEF Things
  <2> QED
    BY <2>1, AllocatedFacts
<1> HIDE DEF h2
<1>9. /\ h3 \in Heaps /\ h3.root = h2.root /\ h3.used = h2.used \ {ns[1]}
      /\ \A n \in Nodes : n # ns[1] => h3.node[n] = h2.node[n]
  <2>1. h2 \in Heaps
    BY <1>8
  <2> QED
    BY <2>1, DeleteFacts
<1> HIDE DEF h3
<1>10. r \in Element /\ r.value = v[1] /\ r.next = IF 1 = k THEN after ELSE ns[2]
  <2>1. ns[1] \in Nodes
    BY <1>1, <1>7
  <2>2. r \in Element
    BY <1>8, <2>1 DEF Heaps
  <2>3. 1 + 1 = 2
    OBVIOUS
  <2> QED
    BY <1>1, <1>7, <1>8, <2>2, <2>3
<1> HIDE DEF r
<1>11. /\ g \in Heaps /\ g.used = h3.used /\ g.node = h3.node /\ g.root[l] = r
       /\ \A m \in Lists : m # l => g.root[m] = h1.root[m]
  <2> DEFINE root == [h3.root EXCEPT ![l] = r]
  <2>1. g = [h3 EXCEPT !.root = root]
    BY <1>9 DEF Heaps
  <2>2. root \in [Lists -> Element] /\ root[l] = r /\ \A m \in Lists : m # l => root[m] = h3.root[m]
    BY <1>9, <1>10 DEF Heaps
  <2> HIDE DEF root
  <2> QED
    BY <1>8, <1>9, <2>1, <2>2 DEF Heaps
<1> HIDE DEF g
<1> DEFINE ms == [i \in 1..(k - 1) |-> ns[i + 1]]
<1>12. /\ ms \in Seq(Nodes) /\ Len(ms) = k - 1 /\ k - 1 \in Nat
       /\ \A i \in 1..(k - 1) : ms[i] = ns[i + 1] /\ i + 1 \in 1..k /\ i + 1 # 1
  <2>1. k - 1 \in Nat /\ \A i \in 1..(k - 1) : i + 1 \in 1..k /\ i + 1 # 1
    BY <1>1
  <2>2. ms \in [1..(k - 1) -> Nodes]
    BY <1>7, <2>1
  <2>3. \A i \in 1..(k - 1) : ms[i] = ns[i + 1]
    OBVIOUS
  <2> HIDE DEF ms
  <2> QED
    BY <2>1, <2>2, <2>3, FunctionIsSeq
<1> HIDE DEF ms
<1>13. Apart(ms)
  <2> SUFFICES ASSUME NEW i \in 1..Len(ms), NEW j \in 1..Len(ms), ms[i] = ms[j] PROVE i = j
    BY DEF Apart
  <2>1. i + 1 \in 1..k /\ j + 1 \in 1..k /\ ns[i + 1] = ns[j + 1] /\ i \in Nat /\ j \in Nat
    BY <1>12
  <2>2. i + 1 = j + 1
    BY <1>7, <2>1 DEF Apart
  <2> QED
    BY <2>1, <2>2
<1>14. \A i \in 1..Len(ms) : ms[i] \notin h1.used /\ ms[i] # ns[1]
  <2> SUFFICES ASSUME NEW i \in 1..Len(ms) PROVE ms[i] \notin h1.used /\ ms[i] # ns[1]
    OBVIOUS
  <2>1. ms[i] = ns[i + 1] /\ i + 1 \in 1..k /\ i + 1 # 1
    BY <1>12
  <2> QED
    BY <1>1, <1>7, <2>1 DEF Apart
<1>15. \A n \in Nodes : OnPath(n, ns) /\ n # ns[1] <=> OnPath(n, ms)
  <2> SUFFICES ASSUME NEW n \in Nodes PROVE OnPath(n, ns) /\ n # ns[1] <=> OnPath(n, ms)
    OBVIOUS
  <2>1. ASSUME OnPath(n, ns), n # ns[1] PROVE OnPath(n, ms)
    <3>1. PICK i \in 1..k : n = ns[i]
      BY <1>7, <2>1 DEF OnPath
    <3>2. i # 1
      BY <2>1, <3>1
    <3>3. i - 1 \in 1..(k - 1) /\ (i - 1) + 1 = i
      BY <1>1, <3>2
    <3>4. ms[i - 1] = n
      BY <1>12, <3>1, <3>3
    <3> QED
      BY <1>12, <3>3, <3>4 DEF OnPath
  <2>2. ASSUME OnPath(n, ms) PROVE OnPath(n, ns) /\ n # ns[1]
    <3>1. PICK i \in 1..Len(ms) : n = ms[i]
      BY <2>2 DEF OnPath
    <3>2. n = ns[i + 1] /\ i + 1 \in 1..Len(ns) /\ n # ns[1]
      BY <1>7, <1>12, <1>14, <3>1
    <3> QED
      BY <3>2 DEF OnPath
  <2> QED
    BY <2>1, <2>2
<1>16. Respliced(h1, g, l, s, 0, ms, 0)
  <2>1. ~\E j \in (0 + 1)..0 : TRUE
    OBVIOUS
  <2>2. ns[1] \notin h1.used /\ \A n \in h1.used : n \in Nodes /\ ~OnPath(n, ns)
    BY <1>1, <1>6, <1>7 DEF OnPath
  <2>3. \A n \in h1.used : g.node[n] = h1.node[n]
    BY <1>8, <1>9, <1>11, <2>2
  <2>4. \A n \in Nodes : n \in g.used <=> OnPath(n, ms) \/ n \in h1.used
    BY <1>8, <1>9, <1>11, <1>15, <2>2
  <2>5. after = After(s, 0)
    BY <1>6 DEF IsPath
  <2>6. ASSUME NEW i \in 1..Len(ms)
        PROVE  g.node[ms[i]].next = IF i = Len(ms) THEN After(s, 0) ELSE ms[i + 1]
    <3>1. ms[i] = ns[i + 1] /\ i + 1 \in 1..k /\ i + 1 # 1 /\ ns[i + 1] \in Nodes /\ ns[i + 1] # ns[1]
      BY <1>7, <1>12, <1>14
    <3>2. g.node[ms[i]] = h2.node[ns[i + 1]]
      BY <1>9, <1>11, <3>1
    <3>3. h2.node[ns[i + 1]].next = IF i + 1 = k THEN after ELSE ns[(i + 1) + 1]
      BY <1>7, <1>8, <3>1
    <3>4. i + 1 = k <=> i = Len(ms)
      BY <1>1, <1>12
    <3>5. i # Len(ms) => i + 1 \in 1..(k - 1)
      BY <1>12
    <3> QED
      BY <1>12, <2>5, <3>2, <3>3, <3>4, <3>5
  <2>7. g.root[l].next = IF Len(ms) = 0 THEN After(s, 0) ELSE ms[1]
    <3>1. Len(ms) = 0 <=> 1 = k
      BY <1>1, <1>12
    <3>2. Len(ms) # 0 => ms[1] = ns[2]
      <4>1. Len(ms) # 0 => 1 \in 1..(k - 1) /\ 1 + 1 = 2
        BY <1>12
      <4> QED
        BY <1>12, <4>1
    <3> QED
      BY <1>10, <1>11, <2>5, <3>1, <3>2
  <2> QED
    BY <1>11, <2>1, <2>3, <2>4, <2>6, <2>7 DEF Respliced
<1>17. /\ 0 \in 0..Len(p1[l]) /\ 0 \in 0..0 /\ \A j \in 1..Len(ms) : ms[j] \notin h1.used
       /\ Respliced(h1, g, l, p1[l], 0, ms, 0)
  BY <1>6, <1>14, <1>16
<1>18. \E q : Laid(g, q)
  <2>1. Laid(g, [p1 EXCEPT ![l] = Spliced(p1[l], 0, ms, 0)])
    BY <1>5, <1>12, <1>13, <1>17, RespliceLays
  <2> QED
    BY <2>1
<1>19. ASSUME v[1] # Zero, List!IsEmpty(h, l) \/ h.root[l].value # Zero
       PROVE  List!Items(g, l) = Spliced(List!Items(h, l), 0, v, 0)
  <2> DEFINE x == List!Items(h, l)
             w == Spliced(x, 0, v, 0)
  <2>1. Len(s) = List!Size(h, l) /\ \A i \in 1..Len(s) : h1.node[s[i]].value = x[i]
    BY <1>3, <1>19 DEF MovedOut
  <2>2. x \in Seq(Things) /\ Len(x) = Len(s)
    BY <2>1, ItemsFacts DEF Things
  <2> HIDE DEF x
  <2>3. w \in Seq(Things) /\ Len(w) = 0 + k + (Len(x) - 0)
    <3>1. 0 \in 0..Len(x) /\ 0 \in 0..0
      BY <1>6, <2>2
    <3> HIDE DEF s
    <3> QED
      BY <2>2, <3>1, SplicedFacts
  <2>4. \A i \in 1..(0 + k + (Len(x) - 0)) :
           w[i] = IF i <= 0 THEN x[i] ELSE IF i <= 0 + k THEN v[i - 0] ELSE x[i - 0 - k + 0]
    BY DEF Spliced
  <2> HIDE DEF w, s, k
  <2>5. \A i \in 1..k : w[i] = v[i]
    <3> SUFFICES ASSUME NEW i \in 1..k PROVE w[i] = v[i]
      OBVIOUS
    <3>1. i \in 1..(0 + k + (Len(x) - 0)) /\ ~(i <= 0) /\ i <= 0 + k /\ i - 0 = i
      BY <1>1, <1>6, <2>2
    <3> QED
      BY <2>4, <3>1
  <2>6. \A i \in 1..Len(s) : w[k + i] = x[i]
    <3> SUFFICES ASSUME NEW i \in 1..Len(s) PROVE w[k + i] = x[i]
      OBVIOUS
    <3>1. /\ k + i \in 1..(0 + k + (Len(x) - 0)) /\ ~(k + i <= 0) /\ ~(k + i <= 0 + k)
          /\ (k + i) - 0 - k + 0 = i
      BY <1>1, <1>6, <2>2
    <3> QED
      BY <2>4, <3>1
  <2>7. Len(w) = 1 + Len(ms) + (Len(s) - 0)
    BY <1>1, <1>6, <1>12, <2>2, <2>3
  <2>8. w[1] = g.root[l].value /\ w[1] # Zero
    BY <1>1, <1>10, <1>11, <1>19, <2>5
  <2>9. ASSUME NEW i \in 1..Len(ms) PROVE w[1 + i] = g.node[ms[i]].value
    <3>1. ms[i] = ns[i + 1] /\ i + 1 \in 1..k /\ i + 1 # 1 /\ ns[i + 1] \in Nodes /\ ns[i + 1] # ns[1]
          /\ 1 + i = i + 1
      BY <1>7, <1>12, <1>14
    <3>2. g.node[ms[i]] = h2.node[ns[i + 1]]
      BY <1>9, <1>11, <3>1
    <3>3. h2.node[ns[i + 1]].value = v[i + 1]
      BY <1>7, <1>8, <3>1
    <3> QED
      BY <2>5, <3>1, <3>2, <3>3
  <2>10. ASSUME NEW i \in 1..(Len(s) - 0) PROVE w[1 + Len(ms) + i] = h1.node[s[0 + i]].value
    <3>1. i \in 1..Len(s) /\ 1 + Len(ms) + i = k + i /\ 0 + i = i
      BY <1>1, <1>6, <1>12
    <3> QED
      BY <2>1, <2>6, <3>1
  <2>11. TakesFirst(h1, p1, g, l, ms, 0, w)
    <3>1. /\ Len(w) = 1 + Len(ms) + (Len(p1[l]) - 0)
          /\ \A i \in 1..(Len(p1[l]) - 0) : w[1 + Len(ms) + i] = h1.node[p1[l][0 + i]].value
      BY <2>7, <2>10 DEF s
    <3> QED
      BY <1>5, <1>12, <1>13, <1>17, <2>3, <2>8, <2>9, <3>1 DEF TakesFirst
  <2>12. List!Items(g, l) = w
    BY <2>11, TakenFirst
  <2> QED
    BY <2>12 DEF w, x
<1> QED
  BY <1>2, <1>18, <1>19
-----------------------------------------------------------------------------
(* Erasing.                                                                 *)
LEMMA NodesOfFacts ==
  ASSUME NEW h, NEW p, Laid(h, p), NEW l \in Lists, NEW from \in Nat, from >= 2,
         NEW j \in Nat, j <= List!Size(h, l) + 1
  PROVE  \A n : n \in List!NodesOf(h, l, from, j) <=> \E k \in (from - 1)..(j - 2) : n = p[l][k]
<1> DEFINE s == p[l]
           i == from - 1
<1>1. /\ List!Size(h, l) \in Nat /\ Len(s) = (IF List!Size(h, l) = 0 THEN 0 ELSE List!Size(h, l) - 1) /\ Len(s) \in Nat
      /\ \A k \in 2..(List!Size(h, l) + 1) : List!NodeAt(h, l, k) = After(s, k - 2)
      /\ i \in Nat /\ i >= 1 /\ j \in Nat /\ i + 1 = from
  BY SizeFacts
<1> HIDE DEF s, i
<1>2. ASSUME NEW k \in i..(j - 2) PROVE List!NodeAt(h, l, k + 1) = s[k] /\ k + 1 \in (i + 1)..(j - 1)
  <2>1. /\ k + 1 \in 2..(List!Size(h, l) + 1) /\ (k + 1) - 2 < Len(s) /\ ((k + 1) - 2) + 1 = k
        /\ k + 1 \in (i + 1)..(j - 1)
    BY <1>1
  <2> QED
    BY <1>1, <2>1 DEF After
<1>3. \A k \in (i + 1)..(j - 1) : k - 1 \in i..(j - 2) /\ (k - 1) + 1 = k
  BY <1>1
<1>4. ASSUME NEW n
      PROVE  (\E k \in (i + 1)..(j - 1) : n = List!NodeAt(h, l, k)) <=> \E k \in i..(j - 2) : n = s[k]
  <2>1. ASSUME NEW k \in (i + 1)..(j - 1), n = List!NodeAt(h, l, k) PROVE \E m \in i..(j - 2) : n = s[m]
    <3>1. k - 1 \in i..(j - 2) /\ (k - 1) + 1 = k
      BY <1>3
    <3>2. List!NodeAt(h, l, (k - 1) + 1) = s[k - 1]
      BY <1>2, <3>1
    <3> QED
      BY <2>1, <3>1, <3>2
  <2>2. ASSUME NEW k \in i..(j - 2), n = s[k] PROVE \E m \in (i + 1)..(j - 1) : n = List!NodeAt(h, l, m)
    BY <1>2, <2>2
  <2> QED
    BY <2>1, <2>2
<1> QED
  BY <1>1, <1>4 DEF List!NodesOf, s, i

LEMMA EraseBehindFacts ==
  ASSUME NEW h, NEW p, Laid(h, p), NEW l \in Lists, NEW i \in 1..List!Size(h, l),
         NEW j \in (i + 1)..(List!Size(h, l) + 1)
  PROVE  LET g == List!EraseRange(h, l, i, j)
         IN  /\ \E q : Laid(g, q)
             /\ h.root[l].value # Zero => List!Items(g, l) = Spliced(List!Items(h, l), i, <<>>, j - 1)
<1> DEFINE s == p[l]
           at == List!NodeAt(h, l, j)
           h1 == List!SetNext(h, l, i, at)
           gone == List!NodesOf(h, l, i + 1, j)
           g == List!Delete(h1, gone)
           a == i - 1
           b == j - 2
           ns == <<>>
<1>1. /\ List!Size(h, l) \in Nat /\ Len(s) = List!Size(h, l) - 1 /\ i \in Nat /\ j \in Nat
      /\ j \in 2..(List!Size(h, l) + 1) /\ ~List!IsEmpty(h, l) /\ i > 0
      /\ a \in Nat /\ b \in 0..Len(s) /\ a \in 0..b /\ b \in Nat /\ a + 1 = i
      /\ (j - 1) = b + 1 /\ a <= b /\ b <= Len(s)
  BY SizeFacts
<1>2. List!EraseRange(h, l, i, j) = g
  BY <1>1 DEF List!EraseRange
<1>3. at = After(s, b)
  BY <1>1, SizeFacts
<1>4. at \in Nodes \cup {NULL}
  <2>1. \A k \in 1..Len(s) : s[k] \in Nodes
    BY LaidFacts
  <2>2. b < Len(s) => b + 1 \in 1..Len(s)
    BY <1>1
  <2> HIDE DEF at, b, s
  <2> QED
    BY <1>3, <2>1, <2>2 DEF After
<1>5. \A n : n \in gone <=> \E k \in (a + 1)..b : n = s[k]
  <2> DEFINE from == i + 1
  <2>0. from \in Nat /\ from >= 2 /\ j \in Nat /\ j <= List!Size(h, l) + 1 /\ from - 1 = a + 1
    BY <1>1
  <2> HIDE DEF from
  <2>1. \A n : n \in List!NodesOf(h, l, from, j) <=> \E k \in (from - 1)..(j - 2) : n = s[k]
    BY <2>0, NodesOfFacts
  <2>2. gone = List!NodesOf(h, l, from, j)
    BY DEF from
  <2> HIDE DEF gone
  <2> QED
    BY <2>0, <2>1, <2>2
<1> HIDE DEF at, gone
<1>6. /\ h1 \in Heaps /\ h1.used = h.used
      /\ \A m \in Lists : m # l => h1.root[m] = h.root[m]
      /\ h1.root[l].value = h.root[l].value
      /\ \A n \in Nodes : h1.node[n].value = h.node[n].value
      /\ h1.root[l].next = IF i = 1 THEN at ELSE h.root[l].next
      /\ i > 1 => h1.node[s[i - 1]].next = at
      /\ \A n \in Nodes : (i > 1 /\ n = s[i - 1]) \/ h1.node[n] = h.node[n]
  BY <1>4, SetNextFacts
<1> HIDE DEF h1
<1>7. /\ g \in Heaps /\ g.root = h1.root /\ g.used = h1.used \ gone
      /\ \A n \in Nodes : n \notin gone => g.node[n] = h1.node[n]
  <2>1. h1 \in Heaps
    BY <1>6
  <2> QED
    BY <2>1, DeleteFacts
<1> HIDE DEF g
<1>8. /\ h.used \subseteq Nodes /\ Apart(s) /\ \A k \in 1..Len(s) : s[k] \in Nodes /\ s[k] \in h.used
  BY LaidFacts
<1>9. ns \in Seq(Nodes) /\ Len(ns) = 0 /\ Apart(ns) /\ \A n : ~OnPath(n, ns)
      /\ ns \in Seq(Things)
  BY DEF Apart, OnPath
<1> HIDE DEF ns
<1>10. Respliced(h, g, l, s, a, ns, b)
  <2>1. ASSUME a # 0 PROVE g.node[s[a]].next = at
    <3>1. a \in 1..Len(s) /\ i > 1
      BY <1>1, <2>1
    <3>2. s[a] \notin gone
      <4> SUFFICES ASSUME NEW k \in (a + 1)..b, s[a] = s[k] PROVE FALSE
        BY <1>5
      <4>1. k \in 1..Len(s) /\ k # a
        BY <1>1
      <4> QED
        BY <1>8, <3>1, <4>1 DEF Apart
    <3> QED
      BY <1>6, <1>7, <1>8, <3>1, <3>2
  <2>2. a = 0 <=> i = 1
    BY <1>1
  <2>3. a > 0 <=> i > 1
    BY <1>1
  <2>4. \A n \in h.used : \/ \E k \in (a + 1)..b : n = s[k]
                          \/ g.node[n] = h.node[n]
                          \/ a > 0 /\ n = s[a] /\ g.node[n].value = h.node[n].value
    BY <1>5, <1>6, <1>7, <1>8, <2>3
  <2>5. \A n \in Nodes : n \in g.used <=> n \in h.used /\ ~\E k \in (a + 1)..b : n = s[k]
    BY <1>5, <1>6, <1>7
  <2>6. \A k \in 1..Len(ns) : FALSE
    BY <1>9
  <2> QED
    BY <1>3, <1>6, <1>7, <1>9, <2>1, <2>2, <2>4, <2>5, <2>6 DEF Respliced
<1>11. /\ b \in 0..Len(p[l]) /\ a \in 0..b /\ \A k \in 1..Len(ns) : ns[k] \notin h.used
       /\ Respliced(h, g, l, p[l], a, ns, b)
  BY <1>1, <1>9, <1>10
<1>12. \E q : Laid(g, q)
  <2>1. Laid(g, [p EXCEPT ![l] = Spliced(p[l], a, ns, b)])
    BY <1>9, <1>11, RespliceLays
  <2> QED
    BY <2>1
<1>13. ASSUME h.root[l].value # Zero PROVE List!Items(g, l) = Spliced(List!Items(h, l), a + 1, ns, b + 1)
  <2>1. g.root[l].value = h.root[l].value /\ g.root[l].value # Zero
    BY <1>6, <1>7, <1>13
  <2>2. \A k \in 1..Len(ns) : g.node[ns[k]].value = ns[k]
    BY <1>9
  <2>3. KeepsFirst(h, p, g, l, a, ns, ns, b)
    BY <1>1, <1>9, <1>11, <2>1, <2>2 DEF KeepsFirst
  <2> HIDE DEF a, b
  <2> QED
    BY <2>3, KeptFirst
<1> QED
  BY <1>1, <1>2, <1>12, <1>13 DEF ns

\* The elements of the other lists are left alone.
OfAnother(h, p, g, q, l, a, ns, b, m) ==
    /\ Laid(h, p) /\ Laid(g, q) /\ l \in Lists /\ Respliced(h, g, l, p[l], a, ns, b)
    /\ b \in 0..Len(p[l]) /\ a \in 0..b
    /\ m \in Lists /\ m # l /\ q[m] = p[m]

LEMMA OthersKept ==
  ASSUME NEW h, NEW p, NEW g, NEW q, NEW l, NEW a, NEW ns, NEW b, NEW m,
         OfAnother(h, p, g, q, l, a, ns, b, m)
  PROVE  List!Items(g, m) = List!Items(h, m)
<1> USE DEF OfAnother
<1>1. g.root[m] = h.root[m]
  BY DEF Respliced
<1>2. /\ Len(p[l]) \in Nat /\ Len(p[m]) \in Nat /\ \A i \in 1..Len(p[m]) : p[m][i] \in h.used
      /\ a \in Nat /\ b \in Nat /\ b <= Len(p[l]) /\ a <= b
  BY LaidFacts
<1>3. ASSUME NEW i \in 1..Len(p[m]) PROVE g.node[p[m][i]] = h.node[p[m][i]]
  <2>1. \A j \in 1..Len(p[l]) : p[m][i] # p[l][j]
    BY DEF Laid
  <2>2. ~\E j \in (a + 1)..b : p[m][i] = p[l][j]
    BY <1>2, <2>1
  <2>3. ~(a > 0 /\ p[m][i] = p[l][a])
    BY <1>2, <2>1
  <2> QED
    BY <1>2, <2>2, <2>3 DEF Respliced
<1>4. List!Size(g, m) = List!Size(h, m) /\ List!Size(h, m) \in Nat
  BY <1>1, SizeFacts DEF List!IsEmpty
<1>5. List!Size(h, m) <= Len(p[m]) + 1
  BY <1>2, SizeFacts
<1>6. ASSUME NEW i \in 1..List!Size(h, m) PROVE List!Items(g, m)[i] = List!Items(h, m)[i]
  <2>1. List!Items(g, m)[i] = ValueAt(g, m, p[m], i) /\ List!Items(h, m)[i] = ValueAt(h, m, p[m], i)
    BY <1>4, ItemsFacts
  <2>2. i = 1 \/ i - 1 \in 1..Len(p[m])
    BY <1>2, <1>4, <1>5
  <2> QED
    BY <1>1, <1>3, <2>1, <2>2 DEF ValueAt
<1>7. /\ List!Items(g, m) \in Seq(Things) /\ List!Items(h, m) \in Seq(Things)
      /\ Len(List!Items(g, m)) = List!Size(h, m) /\ Len(List!Items(h, m)) = List!Size(h, m)
  BY <1>4, ItemsFacts DEF Things
<1> QED
  BY <1>6, <1>7, SeqEqual

\* The nodes up to a place go, the root is replaced.
RootReplaced(h, p, g, l, j, b, r) ==
    /\ Laid(h, p) /\ l \in Lists /\ j \in Nat /\ j <= List!Size(h, l) + 1
    /\ b \in 0..Len(p[l]) /\ \A k : k \in 1..(j - 2) <=> k \in 1..b
    /\ r \in Element /\ r.next = After(p[l], b)
    /\ g = [List!DeleteRange(h, l, 2, j) EXCEPT !.root[l] = r]

LEMMA RootReplacedFacts ==
  ASSUME NEW h, NEW p, NEW goal, NEW l, NEW j, NEW b, NEW r, RootReplaced(h, p, goal, l, j, b, r)
  PROVE  /\ Respliced(h, goal, l, p[l], 0, <<>>, b)
         /\ Laid(goal, [p EXCEPT ![l] = Spliced(p[l], 0, <<>>, b)])
         /\ goal.root[l] = r
<1>0. /\ Laid(h, p) /\ l \in Lists /\ j \in Nat /\ j <= List!Size(h, l) + 1
      /\ b \in 0..Len(p[l]) /\ \A k : k \in 1..(j - 2) <=> k \in 1..b
      /\ r \in Element /\ r.next = After(p[l], b)
  BY DEF RootReplaced
<1> DEFINE s == p[l]
           gone == List!NodesOf(h, l, 2, j)
           h1 == List!Delete(h, gone)
           root == [h1.root EXCEPT ![l] = r]
           g == [h1 EXCEPT !.root[l] = r]
           ns == <<>>
<1>1. h \in Heaps
  BY <1>0 DEF Laid
<1>2. \A n : n \in gone <=> \E k \in 1..b : n = s[k]
  <2>1. 2 \in Nat /\ 2 >= 2 /\ 2 - 1 = 1
    OBVIOUS
  <2>2. \A n : n \in List!NodesOf(h, l, 2, j) <=> \E k \in (2 - 1)..(j - 2) : n = s[k]
    BY <1>0, <2>1, NodesOfFacts
  <2> QED
    BY <1>0, <2>1, <2>2
<1> HIDE DEF gone
<1>3. /\ h1 \in Heaps /\ h1.root = h.root /\ h1.used = h.used \ gone
      /\ \A n \in Nodes : n \notin gone => h1.node[n] = h.node[n]
  BY <1>1, DeleteFacts
<1> HIDE DEF h1
<1>4. /\ g \in Heaps /\ g.used = h1.used /\ g.node = h1.node /\ g.root[l] = r
      /\ \A m \in Lists : m # l => g.root[m] = h.root[m]
  <2>1. g = [h1 EXCEPT !.root = root]
    BY <1>3 DEF Heaps
  <2>2. root \in [Lists -> Element] /\ root[l] = r /\ \A m \in Lists : m # l => root[m] = h.root[m]
    BY <1>0, <1>3 DEF Heaps
  <2> HIDE DEF root
  <2> QED
    BY <1>3, <2>1, <2>2 DEF Heaps
<1> HIDE DEF g
<1>5. h.used \subseteq Nodes
  BY <1>1 DEF Heaps
<1>6. ns \in Seq(Nodes) /\ Len(ns) = 0 /\ Apart(ns) /\ \A n : ~OnPath(n, ns)
  BY DEF Apart, OnPath
<1>7. 0 + 1 = 1 /\ ~(0 > 0)
  OBVIOUS
<1> HIDE DEF ns
<1>8. Respliced(h, g, l, s, 0, ns, b)
  <2>1. \A n \in h.used : (\E k \in (0 + 1)..b : n = s[k]) \/ g.node[n] = h.node[n]
    BY <1>2, <1>3, <1>4, <1>5
  <2>2. \A n \in Nodes : n \in g.used <=> n \in h.used /\ ~\E k \in (0 + 1)..b : n = s[k]
    BY <1>2, <1>3, <1>4
  <2>3. \A k \in 1..Len(ns) : FALSE
    BY <1>6
  <2> QED
    BY <1>0, <1>4, <1>6, <1>7, <2>1, <2>2, <2>3 DEF Respliced
<1>9. Laid(g, [p EXCEPT ![l] = Spliced(p[l], 0, ns, b)])
  <2>1. b \in 0..Len(p[l]) /\ 0 \in 0..b /\ \A k \in 1..Len(ns) : ns[k] \notin h.used
    BY <1>0, <1>6, LaidFacts
  <2> QED
    BY <1>0, <1>6, <1>8, <2>1, RespliceLays
<1>10. goal = g
  BY DEF RootReplaced, List!DeleteRange, g, h1, gone
<1> QED
  BY <1>4, <1>8, <1>9, <1>10 DEF ns

LEMMA EraseFrontFacts ==
  ASSUME NEW h, NEW p, Laid(h, p), NEW l \in Lists, NEW j \in 2..List!Size(h, l)
  PROVE  LET g == List!EraseRange(h, l, 0, j)
         IN  /\ \E q : Laid(g, q)
             /\ List!Items(h, l)[j] # Zero => List!Items(g, l) = Spliced(List!Items(h, l), 0, <<>>, j - 1)
<1> DEFINE s == p[l]
           b == j - 1
           to == j + 1
           r == h.node[List!NodeAt(h, l, j)]
           g == [List!DeleteRange(h, l, 2, to) EXCEPT !.root[l] = r]
           ns == <<>>
           x == List!Items(h, l)
<1>1. /\ List!Size(h, l) \in Nat /\ Len(s) = List!Size(h, l) - 1 /\ Len(s) \in Nat /\ j \in Nat
      /\ b \in 1..Len(s) /\ b \in Nat /\ j - 2 < Len(s) /\ (j - 2) + 1 = b
      /\ j # List!Size(h, l) + 1 /\ to \in Nat /\ to <= List!Size(h, l) + 1 /\ to - 2 = b
      /\ List!NodeAt(h, l, j) = After(s, j - 2)
      /\ List!Size(h, l) = 1 + Len(s) /\ j = 1 + b
  BY SizeFacts
<1>2. List!EraseRange(h, l, 0, j) = g
  BY <1>1 DEF List!EraseRange
<1>3. r = h.node[s[b]]
  BY <1>1 DEF After
<1>4. r \in Element /\ r.next = After(s, b)
  <2>1. s[b] \in Nodes /\ h.node \in [Nodes -> Element] /\ h.node[s[b]].next = After(s, b)
    BY <1>1, LaidFacts DEF IsPath
  <2> QED
    BY <1>3, <2>1
<1>5. \A k : k \in 1..(to - 2) <=> k \in 1..b
  BY <1>1
<1> HIDE DEF r, b
<1>6. /\ Respliced(h, g, l, p[l], 0, ns, b)
      /\ Laid(g, [p EXCEPT ![l] = Spliced(p[l], 0, ns, b)])
      /\ g.root[l] = r
  <2>1. b \in 0..Len(p[l]) /\ r.next = After(p[l], b) /\ to \in Nat /\ to <= List!Size(h, l) + 1
    BY <1>1, <1>4
  <2>2. RootReplaced(h, p, g, l, to, b, r)
    BY <1>4, <1>5, <2>1 DEF RootReplaced
  <2> HIDE DEF g
  <2> QED
    BY <2>2, RootReplacedFacts
<1> HIDE DEF g
<1>7. \E q : Laid(g, q)
  BY <1>6
<1>8. ns \in Seq(Nodes) /\ Len(ns) = 0 /\ Apart(ns) /\ ns \in Seq(Things)
  BY DEF Apart
<1> HIDE DEF ns
<1>9. ASSUME x[j] # Zero PROVE List!Items(g, l) = Spliced(x, 0, ns, b)
  <2> DEFINE w == Spliced(x, 0, ns, b)
  <2>1. /\ x \in Seq(Things) /\ Len(x) = 1 + Len(s)
        /\ \A i \in 1..(1 + Len(s)) : x[i] = ValueAt(h, l, s, i)
    BY <1>1, ItemsFacts DEF Things
  <2> HIDE DEF x
  <2>2. w \in Seq(Things) /\ Len(w) = 0 + 0 + (Len(x) - b)
    <3>1. b \in 0..Len(x) /\ 0 \in 0..b
      BY <1>1, <2>1
    <3> HIDE DEF s
    <3>2. /\ Spliced(x, 0, ns, b) \in Seq(Things)
          /\ Len(Spliced(x, 0, ns, b)) = 0 + Len(ns) + (Len(x) - b)
      BY <1>8, <2>1, <3>1, SplicedFacts
    <3> QED
      BY <1>8, <3>2
  <2>3. \A i \in 1..(Len(x) - b) : w[i] = x[b + i]
    <3> SUFFICES ASSUME NEW i \in 1..(Len(x) - b) PROVE w[i] = x[b + i]
      OBVIOUS
    <3>1. /\ i \in 1..(0 + Len(ns) + (Len(x) - b)) /\ ~(i <= 0) /\ ~(i <= 0 + Len(ns))
          /\ i - 0 - Len(ns) + b = b + i
      BY <1>1, <1>8, <2>1
    <3> QED
      BY <3>1 DEF Spliced
  <2> HIDE DEF w, s
  <2>4. Len(w) = 1 + Len(ns) + (Len(s) - b)
    BY <1>1, <1>8, <2>1, <2>2
  <2>5. w[1] = r.value /\ w[1] # Zero
    <3>1. 1 \in 1..(Len(x) - b) /\ b + 1 = j /\ j \in 1..(1 + Len(s)) /\ j # 1 /\ j - 1 = b
      BY <1>1, <2>1
    <3>2. w[1] = x[j] /\ x[j] = h.node[s[b]].value
      BY <2>1, <2>3, <3>1 DEF ValueAt
    <3> QED
      BY <1>3, <1>9, <3>2 DEF x
  <2>6. ASSUME NEW i \in 1..(Len(s) - b) PROVE w[1 + Len(ns) + i] = h.node[s[b + i]].value
    <3>1. /\ 1 + Len(ns) + i \in 1..(Len(x) - b) /\ b + (1 + Len(ns) + i) = (b + i) + 1
          /\ (b + i) + 1 \in 1..(1 + Len(s)) /\ (b + i) + 1 # 1 /\ ((b + i) + 1) - 1 = b + i
      BY <1>1, <1>8, <2>1
    <3>2. w[1 + Len(ns) + i] = x[(b + i) + 1]
      BY <2>3, <3>1
    <3>3. x[(b + i) + 1] = h.node[s[b + i]].value
      BY <2>1, <3>1 DEF ValueAt
    <3> QED
      BY <3>2, <3>3
  <2>7. TakesFirst(h, p, g, l, ns, b, w)
    <3>0. b \in 0..Len(s)
      BY <1>1
    <3>1. /\ Len(w) = 1 + Len(ns) + (Len(p[l]) - b) /\ b \in 0..Len(p[l])
          /\ \A i \in 1..(Len(p[l]) - b) : w[1 + Len(ns) + i] = h.node[p[l][b + i]].value
      BY <2>4, <2>6, <3>0 DEF s
    <3>2. \A i \in 1..Len(ns) : FALSE
      BY <1>8
    <3> QED
      BY <1>6, <1>8, <2>2, <2>5, <3>1, <3>2 DEF TakesFirst
  <2>8. List!Items(g, l) = w
    BY <2>7, TakenFirst
  <2> QED
    BY <2>8 DEF w
<1> QED
  BY <1>2, <1>7, <1>9 DEF ns, b, x

\* The list is empty and has given its nodes back, the others are as they were.
Cleared(h, p, g, q, l) ==
    /\ Laid(g, q) /\ q[l] = <<>> /\ g.root[l] = List!Root /\ g.used \subseteq h.used
    /\ \A m \in Lists : m # l => q[m] = p[m] /\ g.root[m] = h.root[m] /\ List!Items(g, m) = List!Items(h, m)

LEMMA EmptyItems ==
  ASSUME NEW g, NEW l, g.root[l] = List!Root
  PROVE  List!IsEmpty(g, l) /\ List!Size(g, l) = 0 /\ List!Items(g, l) = <<>>
BY DEF List!IsEmpty, List!Size, List!Items

LEMMA ListClearFacts ==
  ASSUME NEW h, NEW p, Laid(h, p), NEW l \in Lists
  PROVE  \E q : Cleared(h, p, List!Clear(h, l), q, l)
<1> DEFINE s == p[l]
           b == Len(s)
           j == List!Size(h, l) + 1
           g == [List!DeleteRange(h, l, 2, j) EXCEPT !.root[l] = List!Root]
           ns == <<>>
           t == Spliced(s, 0, ns, b)
           q == [p EXCEPT ![l] = t]
<1>1. /\ List!Size(h, l) \in Nat /\ b = (IF List!Size(h, l) = 0 THEN 0 ELSE List!Size(h, l) - 1) /\ b \in Nat
      /\ j \in Nat /\ j <= List!Size(h, l) + 1 /\ b \in 0..Len(s)
  BY SizeFacts
<1>2. List!Clear(h, l) = g
  BY DEF List!Clear, List!EraseRange
<1>3. List!Root \in Element /\ List!Root.next = After(s, b)
  BY <1>1 DEF List!Root, Element, After
<1>4. \A k : k \in 1..(j - 2) <=> k \in 1..b
  <2>1. CASE List!Size(h, l) = 0
    BY <1>1, <2>1
  <2>2. CASE List!Size(h, l) # 0
    BY <1>1, <2>2
  <2> QED
    BY <2>1, <2>2
<1> HIDE DEF j, b
<1>5. /\ Respliced(h, g, l, p[l], 0, ns, b)
      /\ Laid(g, q)
      /\ g.root[l] = List!Root
  <2> HIDE DEF s
  <2>1. b \in 0..Len(p[l]) /\ List!Root.next = After(p[l], b) /\ j \in Nat /\ j <= List!Size(h, l) + 1
        /\ List!Root \in Element
    BY <1>1, <1>3 DEF s
  <2>3. RootReplaced(h, p, g, l, j, b, List!Root)
    BY <1>4, <2>1 DEF RootReplaced
  <2> HIDE DEF g
  <2>2. /\ Respliced(h, g, l, p[l], 0, ns, b)
        /\ Laid(g, [p EXCEPT ![l] = Spliced(p[l], 0, ns, b)])
        /\ g.root[l] = List!Root
    BY <2>3, RootReplacedFacts
  <2> QED
    BY <2>2 DEF s
<1> HIDE DEF g
<1>6. q[l] = t /\ \A m \in Lists : m # l => q[m] = p[m]
  BY DEF Laid
<1> HIDE DEF q
<1>7. List!IsEmpty(g, l)
  BY <1>5 DEF List!IsEmpty
<1>8. q[l] = <<>>
  BY <1>5, <1>7, SizeFacts
<1>9. g.used \subseteq h.used
  <2>1. \A n : ~OnPath(n, ns)
    BY DEF OnPath
  <2>2. g.used \subseteq Nodes
    BY <1>5 DEF Laid, Heaps
  <2> QED
    BY <1>5, <2>1, <2>2 DEF Respliced
<1>10. ASSUME NEW m \in Lists, m # l PROVE g.root[m] = h.root[m] /\ List!Items(g, m) = List!Items(h, m)
  <2>1. g.root[m] = h.root[m]
    BY <1>5, <1>10 DEF Respliced
  <2>2. b \in 0..Len(p[l]) /\ 0 \in 0..b /\ q[m] = p[m]
    BY <1>1, <1>6, <1>10
  <2> HIDE DEF ns, s
  <2>3. Laid(g, q) /\ Respliced(h, g, l, p[l], 0, ns, b) /\ m # l
    BY <1>5, <1>10
  <2>5. OfAnother(h, p, g, q, l, 0, ns, b, m)
    BY <2>2, <2>3 DEF OfAnother
  <2>4. List!Items(g, m) = List!Items(h, m)
    BY <2>5, OthersKept
  <2> QED
    BY <2>1, <2>4
<1>11. Cleared(h, p, g, q, l)
  BY <1>5, <1>6, <1>8, <1>9, <1>10 DEF Cleared
<1> QED
  BY <1>2, <1>11
-----------------------------------------------------------------------------
(* The calls, in any heap that is laid out as lists.                        *)
Lays(h) == \E p : Laid(h, p)

Truthy(h, l) == Zero \notin List!Range(List!Items(h, l))

LEMMA TruthyFacts ==
  ASSUME NEW h, Lays(h), NEW l \in Lists, Truthy(h, l)
  PROVE  /\ \A i \in 1..List!Size(h, l) : List!Items(h, l)[i] # Zero
         /\ List!IsEmpty(h, l) \/ h.root[l].value # Zero
<1>1. PICK p : Laid(h, p)
  BY DEF Lays
<1>2. /\ List!Size(h, l) \in Nat /\ ~List!IsEmpty(h, l) => List!Size(h, l) >= 1
      /\ List!Items(h, l) \in Seq(Values \cup {Zero}) /\ Len(List!Items(h, l)) = List!Size(h, l)
      /\ \A i \in 1..List!Size(h, l) : List!Items(h, l)[i] = ValueAt(h, l, p[l], i)
  <2>1. /\ List!Items(h, l) \in Seq(Values \cup {Zero}) /\ Len(List!Items(h, l)) = List!Size(h, l)
        /\ \A i \in 1..List!Size(h, l) : List!Items(h, l)[i] = ValueAt(h, l, p[l], i)
    BY <1>1, ItemsFacts
  <2>2. Len(p[l]) \in Nat
    BY <1>1, LaidFacts
  <2>3. List!Size(h, l) \in Nat /\ ~List!IsEmpty(h, l) => List!Size(h, l) = 1 + Len(p[l])
    BY <1>1, SizeFacts
  <2>4. List!Size(h, l) \in Nat
    BY <1>1, SizeFacts
  <2> QED
    BY <2>1, <2>2, <2>3, <2>4
<1> DEFINE x == List!Items(h, l)
<1>3. DOMAIN x = 1..List!Size(h, l)
  BY <1>2, LenProperties
<1>4. \A i \in 1..List!Size(h, l) : x[i] # Zero
  BY <1>3 DEF Truthy, List!Range
<1>5. ~List!IsEmpty(h, l) => h.root[l].value # Zero
  <2> SUFFICES ASSUME ~List!IsEmpty(h, l) PROVE h.root[l].value # Zero
    OBVIOUS
  <2>1. 1 \in 1..List!Size(h, l)
    BY <1>2
  <2> QED
    BY <1>2, <1>4, <2>1 DEF ValueAt
<1> QED
  BY <1>4, <1>5

LEMMA InsertFacts ==
  ASSUME NEW h, Lays(h), NEW l \in Lists, NEW i \in 0..List!Size(h, l),
         NEW v \in Seq(Things), Len(v) > 0,
         \/ Len(v) + 1 <= Cardinality(Nodes \ h.used)
         \/ Len(v) <= Cardinality(Nodes \ h.used) /\ (i # 0 \/ List!IsEmpty(h, l))
  PROVE  LET g == List!InsertAfter(h, l, i, v)
         IN  /\ Lays(g)
             /\ v[1] # Zero /\ (i # 0 \/ List!IsEmpty(h, l) \/ h.root[l].value # Zero) =>
                    List!Items(g, l) = Spliced(List!Items(h, l), i, v, i)
<1>1. PICK p : Laid(h, p)
  BY DEF Lays
<1>2. Len(v) \in Nat /\ Cardinality(Nodes \ h.used) \in Nat /\ List!Size(h, l) \in Nat
  BY <1>1, FreeAfterOne, SizeFacts, LenProperties
<1>3. CASE i = 0
  <2>1. List!IsEmpty(h, l) => h.root[l].value = Zero
    BY DEF List!IsEmpty, List!Root
  <2>2. \/ Len(v) + 1 <= Cardinality(Nodes \ h.used)
        \/ h.root[l].value = Zero /\ Len(v) <= Cardinality(Nodes \ h.used)
    BY <1>3, <2>1
  <2>3. LET g == List!InsertAfter(h, l, 0, v)
        IN  /\ \E q : Laid(g, q)
            /\ v[1] # Zero /\ (List!IsEmpty(h, l) \/ h.root[l].value # Zero) =>
                   List!Items(g, l) = Spliced(List!Items(h, l), 0, v, 0)
    BY <1>1, <2>2, InsertInFrontFacts
  <2> QED
    BY <1>3, <2>3 DEF Lays
<1>4. CASE i # 0
  <2>1. i \in 1..List!Size(h, l) /\ Len(v) <= Cardinality(Nodes \ h.used)
    BY <1>2, <1>4
  <2>2. LET g == List!InsertAfter(h, l, i, v)
        IN  /\ \E q : Laid(g, q)
            /\ List!Items(g, l) = Spliced(List!Items(h, l), i, v, i)
    BY <1>1, <2>1, InsertBehindFacts
  <2> QED
    BY <2>2 DEF Lays
<1> QED
  BY <1>3, <1>4

LEMMA ListEraseFacts ==
  ASSUME NEW h, Lays(h), NEW l \in Lists, NEW i \in 0..List!Size(h, l),
         NEW j \in (i + 1)..(List!Size(h, l) + 1), ~List!RunsOff(h, l, i, j)
  PROVE  LET g == List!EraseRange(h, l, i, j)
         IN  /\ Lays(g)
             /\ Truthy(h, l) => List!Items(g, l) = Spliced(List!Items(h, l), i, <<>>, j - 1)
<1> DEFINE g == List!EraseRange(h, l, i, j)
           x == List!Items(h, l)
<1>1. PICK p : Laid(h, p)
  BY DEF Lays
<1>2. /\ List!Size(h, l) \in Nat /\ i \in Nat /\ j \in Nat /\ List!IsEmpty(h, l) => List!Size(h, l) = 0
      /\ x \in Seq(Things) /\ Len(x) = List!Size(h, l)
  <2>1. List!Size(h, l) \in Nat /\ List!IsEmpty(h, l) => List!Size(h, l) = 0
    BY <1>1, SizeFacts
  <2>2. List!Size(h, l) \in Nat
    BY <1>1, SizeFacts
  <2>3. x \in Seq(Things) /\ Len(x) = List!Size(h, l)
    BY <1>1, ItemsFacts DEF Things
  <2> QED
    BY <2>1, <2>2, <2>3
<1>3. CASE i # 0
  <2>1. i \in 1..List!Size(h, l)
    BY <1>2, <1>3
  <2>2. /\ \E q : Laid(g, q)
        /\ h.root[l].value # Zero => List!Items(g, l) = Spliced(List!Items(h, l), i, <<>>, j - 1)
    BY <1>1, <2>1, EraseBehindFacts
  <2>3. ~List!IsEmpty(h, l)
    BY <1>2, <2>1
  <2>4. Truthy(h, l) => h.root[l].value # Zero
    BY <2>3, TruthyFacts
  <2> QED
    BY <2>2, <2>4 DEF Lays
<1>4. CASE i = 0 /\ j = List!Size(h, l) + 1
  <2>1. g = List!Clear(h, l)
    BY <1>4 DEF List!Clear
  <2>2. PICK q : Cleared(h, p, List!Clear(h, l), q, l)
    BY <1>1, ListClearFacts
  <2>3. Lays(g) /\ List!Items(g, l) = <<>>
    BY <2>1, <2>2, EmptyItems DEF Cleared, Lays
  <2> DEFINE w == Spliced(x, 0, <<>>, j - 1)
             ns == <<>>
             b == j - 1
  <2>4. w = <<>>
    <3>1. ns \in Seq(Things) /\ Len(ns) = 0 /\ b \in 0..Len(x) /\ 0 \in 0..b /\ x \in Seq(Things)
          /\ Len(x) - b = 0
      BY <1>2, <1>4
    <3> HIDE DEF ns, b, x
    <3>2. Spliced(x, 0, ns, b) \in Seq(Things) /\ Len(Spliced(x, 0, ns, b)) = 0 + Len(ns) + (Len(x) - b)
      BY <3>1, SplicedFacts
    <3>3. Spliced(x, 0, ns, b) = <<>>
      BY <3>1, <3>2, EmptySeq
    <3> QED
      BY <3>3 DEF ns, b
  <2> HIDE DEF w
  <2>5. w = Spliced(List!Items(h, l), i, <<>>, j - 1)
    BY <1>4 DEF w
  <2> QED
    BY <2>3, <2>4, <2>5
<1>5. CASE i = 0 /\ j # List!Size(h, l) + 1
  <2>1. j # 1
    BY <1>2, <1>5 DEF List!RunsOff
  <2>2. j \in 2..List!Size(h, l)
    BY <1>2, <1>5, <2>1
  <2>3. LET gg == List!EraseRange(h, l, 0, j)
        IN  /\ \E q : Laid(gg, q)
            /\ List!Items(h, l)[j] # Zero => List!Items(gg, l) = Spliced(List!Items(h, l), 0, <<>>, j - 1)
    BY <1>1, <2>2, EraseFrontFacts
  <2>4. j \in 1..List!Size(h, l)
    BY <2>2
  <2>5. Truthy(h, l) => List!Items(h, l)[j] # Zero
    BY <2>4, TruthyFacts
  <2> QED
    BY <1>5, <2>3, <2>5 DEF Lays
<1> QED
  BY <1>3, <1>4, <1>5

\* Neither count nor value of what is put behind nothing changes.
LEMMA SplicedWhole ==
  ASSUME NEW S, NEW v \in Seq(S)
  PROVE  Spliced(<<>>, 0, v, 0) = v
<1> DEFINE e == <<>>
<1>1. e \in Seq(S) /\ Len(e) = 0 /\ 0 \in 0..Len(e) /\ 0 \in 0..0
  OBVIOUS
<1> HIDE DEF e
<1>2. Spliced(e, 0, v, 0) \in Seq(S) /\ Len(Spliced(e, 0, v, 0)) = 0 + Len(v) + (Len(e) - 0)
  BY <1>1, SplicedFacts
<1>3. Len(v) \in Nat
  BY LenProperties
<1>4. Len(Spliced(e, 0, v, 0)) = Len(v)
  BY <1>1, <1>2, <1>3
<1>5. ASSUME NEW i \in 1..Len(v) PROVE Spliced(e, 0, v, 0)[i] = v[i]
  <2>1. i \in 1..(0 + Len(v) + (Len(e) - 0)) /\ ~(i <= 0) /\ i <= 0 + Len(v) /\ i - 0 = i
    BY <1>1, <1>3
  <2> QED
    BY <2>1 DEF Spliced
<1>6. Spliced(e, 0, v, 0) = v
  BY <1>2, <1>4, <1>5, SeqEqual
<1> QED
  BY <1>6 DEF e

LEMMA FreeIsMore ==
  ASSUME NEW used, NEW fewer, fewer \subseteq used
  PROVE  /\ Cardinality(Nodes \ used) \in Nat /\ Cardinality(Nodes \ fewer) \in Nat
         /\ Cardinality(Nodes \ used) <= Cardinality(Nodes \ fewer)
<1>1. IsFiniteSet(Nodes \ fewer)
  BY ListAssumption, FS_Subset
<1>2. Nodes \ used \subseteq Nodes \ fewer
  OBVIOUS
<1>3. IsFiniteSet(Nodes \ used) /\ Cardinality(Nodes \ used) <= Cardinality(Nodes \ fewer)
  BY <1>1, <1>2, FS_Subset
<1> QED
  BY <1>1, <1>3, FS_CardinalityType

LEMMA ListAssignFacts ==
  ASSUME NEW h, Lays(h), NEW l \in Lists, NEW v \in Seq(Things),
         Len(v) <= Cardinality(Nodes \ h.used), v # <<>> => v[1] # Zero
  PROVE  Lays(List!Assign(h, l, v)) /\ List!Items(List!Assign(h, l, v), l) = v
<1> DEFINE g == List!Clear(h, l)
<1>1. PICK p : Laid(h, p)
  BY DEF Lays
<1>2. PICK q : Cleared(h, p, g, q, l)
  BY <1>1, ListClearFacts
<1>3. Lays(g) /\ g.used \subseteq h.used /\ List!IsEmpty(g, l) /\ List!Size(g, l) = 0 /\ List!Items(g, l) = <<>>
  BY <1>2, EmptyItems DEF Cleared, Lays
<1> HIDE DEF g
<1>4. CASE v = <<>>
  BY <1>3, <1>4 DEF List!Assign, g
<1>5. CASE v # <<>>
  <2>1. Len(v) \in Nat /\ Len(v) > 0
    BY <1>5, LenProperties, EmptySeq
  <2>2. Len(v) <= Cardinality(Nodes \ g.used)
    <3>1. /\ Cardinality(Nodes \ h.used) \in Nat /\ Cardinality(Nodes \ g.used) \in Nat
          /\ Cardinality(Nodes \ h.used) <= Cardinality(Nodes \ g.used)
      BY <1>3, FreeIsMore
    <3> QED
      BY <2>1, <3>1
  <2>3. 0 \in 0..List!Size(g, l)
    BY <1>3
  <2>4. LET gg == List!InsertAfter(g, l, 0, v)
        IN  /\ Lays(gg)
            /\ v[1] # Zero /\ (0 # 0 \/ List!IsEmpty(g, l) \/ g.root[l].value # Zero) =>
                   List!Items(gg, l) = Spliced(List!Items(g, l), 0, v, 0)
    BY <1>3, <2>1, <2>2, <2>3, InsertFacts
  <2>5. List!Items(List!InsertAfter(g, l, 0, v), l) = Spliced(<<>>, 0, v, 0)
    BY <1>3, <1>5, <2>4
  <2>6. List!Assign(h, l, v) = List!InsertAfter(g, l, 0, v)
    BY <1>5 DEF List!Assign, g
  <2> QED
    BY <2>4, <2>5, <2>6, SplicedWhole
<1> QED
  BY <1>4, <1>5

LEMMA ListResizeFacts ==
  ASSUME NEW h, Lays(h), NEW l \in Lists, NEW k \in Nat, NEW v \in Things,
         (k + 1) - List!Size(h, l) <= Cardinality(Nodes \ h.used)
  PROVE  LET g == List!Resize(h, l, k, v)
         IN  /\ Lays(g)
             /\ v # Zero /\ Truthy(h, l) =>
                    List!Items(g, l) = [i \in 1..k |-> IF i <= List!Size(h, l) THEN List!Items(h, l)[i] ELSE v]
<1> DEFINE n == List!Size(h, l)
           x == List!Items(h, l)
           y == [i \in 1..k |-> IF i <= n THEN x[i] ELSE v]
           g == List!Resize(h, l, k, v)
<1>1. PICK p : Laid(h, p)
  BY DEF Lays
<1>2. n \in Nat /\ x \in Seq(Things) /\ Len(x) = n /\ Cardinality(Nodes \ h.used) \in Nat
      /\ (~List!IsEmpty(h, l) => n # 0)
  <2>1. n \in Nat /\ Cardinality(Nodes \ h.used) \in Nat
    BY <1>1, SizeFacts, FreeAfterOne
  <2>2. x \in Seq(Things) /\ Len(x) = n
    BY <1>1, ItemsFacts DEF Things
  <2>3. ~List!IsEmpty(h, l) => n = 1 + Len(p[l])
    BY <1>1, SizeFacts
  <2>4. Len(p[l]) \in Nat
    BY <1>1, LaidFacts
  <2> QED
    BY <2>1, <2>2, <2>3, <2>4
<1>3. CASE k <= n
  <2> DEFINE b == n
             ns == <<>>
  <2>1. k \in 0..n /\ n + 1 \in (k + 1)..(n + 1) /\ (n + 1) - 1 = n
    BY <1>2, <1>3
  <2>2. ~List!RunsOff(h, l, k, n + 1)
    <3>1. k = 0 /\ n + 1 = 1 => List!IsEmpty(h, l)
      BY <1>2
    <3> QED
      BY <3>1 DEF List!RunsOff
  <2>3. g = List!EraseRange(h, l, k, n + 1)
    BY <1>3 DEF List!Resize
  <2>4. /\ Lays(g)
        /\ Truthy(h, l) => List!Items(g, l) = Spliced(x, k, <<>>, (n + 1) - 1)
    <3> DEFINE to == n + 1
    <3> HIDE DEF to
    <3>1. k \in 0..List!Size(h, l) /\ to \in (k + 1)..(List!Size(h, l) + 1) /\ ~List!RunsOff(h, l, k, to)
      BY <2>1, <2>2 DEF to
    <3>2. LET gg == List!EraseRange(h, l, k, to)
          IN  /\ Lays(gg)
              /\ Truthy(h, l) => List!Items(gg, l) = Spliced(List!Items(h, l), k, <<>>, to - 1)
      BY <3>1, ListEraseFacts
    <3> QED
      BY <2>3, <3>2 DEF to
  <2>5. Spliced(x, k, ns, n) = y
    <3>1. Len(ns) = 0 /\ k + Len(ns) + (Len(x) - n) = k
      BY <1>2
    <3>2. \A i \in 1..k : i <= k /\ i <= n
      BY <1>2, <1>3
    <3> HIDE DEF ns, n, x
    <3> QED
      BY <3>1, <3>2 DEF Spliced
  <2> QED
    BY <2>1, <2>4, <2>5
<1>4. CASE ~(k <= n)
  <2> DEFINE c == k - n
             vs == [i \in 1..c |-> v]
  <2>1. c \in Nat /\ c > 0 /\ c + 1 = (k + 1) - n /\ n + c = k
    BY <1>2, <1>4
  <2>2. vs \in [1..c -> Things]
    OBVIOUS
  <2>3. \A i \in 1..c : vs[i] = v
    OBVIOUS
  <2> HIDE DEF vs, c
  <2>4. vs \in Seq(Things) /\ Len(vs) = c
    BY <2>1, <2>2, FunctionIsSeq
  <2>5. g = List!InsertAfter(h, l, n, vs)
    BY <1>4 DEF List!Resize, vs, c
  <2>6. n \in 0..List!Size(h, l) /\ Len(vs) > 0 /\ Len(vs) + 1 <= Cardinality(Nodes \ h.used)
    BY <1>2, <2>1, <2>4
  <2>7. /\ Lays(g)
        /\ vs[1] # Zero /\ (n # 0 \/ List!IsEmpty(h, l) \/ h.root[l].value # Zero) =>
               List!Items(g, l) = Spliced(x, n, vs, n)
    <3>1. LET gg == List!InsertAfter(h, l, n, vs)
          IN  /\ Lays(gg)
              /\ vs[1] # Zero /\ (n # 0 \/ List!IsEmpty(h, l) \/ h.root[l].value # Zero) =>
                     List!Items(gg, l) = Spliced(List!Items(h, l), n, vs, n)
      BY <2>4, <2>6, InsertFacts
    <3> QED
      BY <2>5, <3>1
  <2>8. vs[1] = v /\ (n # 0 \/ List!IsEmpty(h, l))
    <3>1. 1 \in 1..c
      BY <2>1
    <3> QED
      BY <1>2, <2>3, <3>1
  <2>9. Spliced(x, n, vs, n) = y
    <3>1. n + Len(vs) + (Len(x) - n) = k
      BY <1>2, <2>1, <2>4
    <3>2. ASSUME NEW i \in 1..k, ~(i <= n) PROVE i <= n + Len(vs) /\ vs[i - n] = v
      <4>1. i - n \in 1..c /\ i <= n + c
        BY <1>2, <2>1, <3>2
      <4> QED
        BY <2>3, <2>4, <4>1
    <3> HIDE DEF n, x
    <3> QED
      BY <3>1, <3>2 DEF Spliced
  <2> QED
    BY <2>7, <2>8, <2>9
<1> QED
  BY <1>3, <1>4

Swapped(h, g, p, q, l, m) ==
    /\ l \in Lists /\ m \in Lists
    /\ Laid(h, p) /\ Laid(g, q) /\ g.node = h.node
    /\ g.root[l] = h.root[m] /\ q[l] = p[m]

LEMMA SwappedItems ==
  ASSUME NEW h, NEW g, NEW p, NEW q, NEW l, NEW m, Swapped(h, g, p, q, l, m)
  PROVE  List!Items(g, l) = List!Items(h, m)
<1>0. /\ l \in Lists /\ m \in Lists
      /\ Laid(h, p) /\ Laid(g, q) /\ g.node = h.node
      /\ g.root[l] = h.root[m] /\ q[l] = p[m]
  BY DEF Swapped
<1>1. List!Size(g, l) = List!Size(h, m)
  <2>1. List!Size(g, l) = IF List!IsEmpty(g, l) THEN 0 ELSE 1 + Len(q[l])
    BY <1>0, SizeFacts
  <2>2. List!Size(h, m) = IF List!IsEmpty(h, m) THEN 0 ELSE 1 + Len(p[m])
    BY <1>0, SizeFacts
  <2> QED
    BY <1>0, <2>1, <2>2 DEF List!IsEmpty
<1>2. /\ List!Items(g, l) \in Seq(Things) /\ Len(List!Items(g, l)) = List!Size(g, l)
      /\ \A i \in 1..List!Size(g, l) : List!Items(g, l)[i] = ValueAt(g, l, q[l], i)
  BY <1>0, ItemsFacts DEF Things
<1>3. /\ List!Items(h, m) \in Seq(Things) /\ Len(List!Items(h, m)) = List!Size(h, m)
      /\ \A i \in 1..List!Size(h, m) : List!Items(h, m)[i] = ValueAt(h, m, p[m], i)
  BY <1>0, ItemsFacts DEF Things
<1>4. \A i \in 1..List!Size(g, l) : List!Items(g, l)[i] = List!Items(h, m)[i]
  BY <1>0, <1>1, <1>2, <1>3 DEF ValueAt
<1> QED
  BY <1>1, <1>2, <1>3, <1>4, SeqEqual

LEMMA ListSwapFacts ==
  ASSUME NEW h, Lays(h), NEW l \in Lists, NEW m \in Lists, l # m
  PROVE  /\ Lays(List!Swap(h, l, m))
         /\ List!Items(List!Swap(h, l, m), l) = List!Items(h, m) /\ List!Items(List!Swap(h, l, m), m) = List!Items(h, l)
<1> DEFINE g == List!Swap(h, l, m)
<1>1. PICK p : Laid(h, p)
  BY DEF Lays
<1> DEFINE root == [h.root EXCEPT ![l] = h.root[m], ![m] = h.root[l]]
           q == [p EXCEPT ![l] = p[m], ![m] = p[l]]
<1>2. /\ h \in Heaps /\ h.root \in [Lists -> Element] /\ p \in [Lists -> Seq(Nodes)]
      /\ \A k \in Lists : IsPath(h, h.root[k].next, p[k])
      /\ \A k, n \in Lists : \A i \in 1..Len(p[k]), j \in 1..Len(p[n]) :
             p[k][i] = p[n][j] => k = n /\ i = j
      /\ \A n \in Nodes : n \in h.used <=> \E k \in Lists : OnPath(n, p[k])
  BY <1>1 DEF Laid, Heaps
<1>3. g = [h EXCEPT !.root = root]
  BY <1>2 DEF List!Swap, Heaps
<1>4. /\ root \in [Lists -> Element] /\ root[l] = h.root[m] /\ root[m] = h.root[l]
      /\ \A k \in Lists : k # l /\ k # m => root[k] = h.root[k]
  BY <1>2
<1>5. /\ q \in [Lists -> Seq(Nodes)] /\ q[l] = p[m] /\ q[m] = p[l]
      /\ \A k \in Lists : k # l /\ k # m => q[k] = p[k]
  BY <1>2
<1> HIDE DEF root, q
<1>6. g \in Heaps /\ g.root = root /\ g.node = h.node /\ g.used = h.used
  BY <1>2, <1>3, <1>4 DEF Heaps
<1> HIDE DEF g
<1> DEFINE Of(k) == IF k = l THEN m ELSE IF k = m THEN l ELSE k
<1>7. \A k \in Lists : Of(k) \in Lists /\ q[k] = p[Of(k)] /\ root[k] = h.root[Of(k)] /\ Of(Of(k)) = k
  BY <1>4, <1>5
<1>8. \A k, n \in Lists : Of(k) = Of(n) => k = n
  OBVIOUS
<1> HIDE DEF Of
<1>9. Laid(g, q)
  <2>1. \A k \in Lists : IsPath(g, g.root[k].next, q[k])
    <3> SUFFICES ASSUME NEW k \in Lists PROVE IsPath(g, g.root[k].next, q[k])
      OBVIOUS
    <3>1. IsPath(h, h.root[Of(k)].next, p[Of(k)])
      BY <1>2, <1>7
    <3>2. IsPath(h, g.root[k].next, q[k])
      BY <1>6, <1>7, <3>1
    <3> QED
      BY <1>6, <3>2 DEF IsPath
  <2>2. ASSUME NEW k \in Lists, NEW n \in Lists, NEW i \in 1..Len(q[k]), NEW j \in 1..Len(q[n]),
               q[k][i] = q[n][j]
        PROVE  k = n /\ i = j
    <3>1. /\ Of(k) \in Lists /\ Of(n) \in Lists /\ i \in 1..Len(p[Of(k)]) /\ j \in 1..Len(p[Of(n)])
          /\ p[Of(k)][i] = p[Of(n)][j]
      BY <1>7, <2>2
    <3>2. Of(k) = Of(n) /\ i = j
      BY <1>2, <3>1
    <3> QED
      BY <1>8, <3>2
  <2>3. \A n \in Nodes : n \in g.used <=> \E k \in Lists : OnPath(n, q[k])
    BY <1>2, <1>6, <1>7
  <2> QED
    BY <1>5, <1>6, <2>1, <2>2, <2>3 DEF Laid
<1>10. Swapped(h, g, p, q, l, m) /\ Swapped(h, g, p, q, m, l)
  BY <1>1, <1>4, <1>5, <1>6, <1>9 DEF Swapped
<1>11. List!Items(g, l) = List!Items(h, m) /\ List!Items(g, m) = List!Items(h, l)
  BY <1>10, SwappedItems
<1> QED
  BY <1>9, <1>11 DEF Lays, g

LEMMA ListMoveAssignFacts ==
  ASSUME NEW h, Lays(h), NEW l \in Lists, NEW m \in Lists, l # m
  PROVE  /\ Lays(List!MoveAssign(h, l, m))
         /\ List!Items(List!MoveAssign(h, l, m), l) = List!Items(h, m) /\ List!Items(List!MoveAssign(h, l, m), m) = <<>>
<1> DEFINE g == List!Clear(h, l)
<1>1. PICK p : Laid(h, p)
  BY DEF Lays
<1>2. PICK q : Cleared(h, p, g, q, l)
  BY <1>1, ListClearFacts
<1> HIDE DEF g
<1>3. Lays(g) /\ g.root[l] = List!Root /\ List!Items(g, l) = <<>> /\ List!Items(g, m) = List!Items(h, m)
  BY <1>2, EmptyItems DEF Cleared, Lays
<1>4. List!MoveAssign(h, l, m) = List!Swap(g, l, m)
  BY <1>3 DEF List!MoveAssign, List!Swap, g
<1>5. /\ Lays(List!Swap(g, l, m))
      /\ List!Items(List!Swap(g, l, m), l) = List!Items(g, m) /\ List!Items(List!Swap(g, l, m), m) = List!Items(g, l)
  BY <1>3, ListSwapFacts
<1> QED
  BY <1>3, <1>4, <1>5
-----------------------------------------------------------------------------
(* In every reachable state the heap is laid out as lists.                  *)
LEMMA ListsInvInit == List!Init => Lays(heap)
<1> SUFFICES ASSUME List!Init PROVE Lays(heap)
  OBVIOUS
<1> DEFINE p == [l \in Lists |-> <<>>]
<1>1. List!Root \in Element /\ List!Root.next = NULL
  BY DEF List!Root, Element
<1>2. /\ heap = [root |-> [l \in Lists |-> List!Root], node |-> [n \in Nodes |-> List!Root], used |-> {}]
      /\ heap.root = [l \in Lists |-> List!Root] /\ heap.used = {}
  BY DEF List!Init
<1>3. heap \in Heaps
  BY <1>1, <1>2 DEF Heaps
<1>4. p \in [Lists -> Seq(Nodes)] /\ \A l \in Lists : p[l] = <<>> /\ Len(p[l]) = 0
  OBVIOUS
<1> HIDE DEF p
<1>5. \A l \in Lists : heap.root[l] = List!Root
  BY <1>2
<1>6. \A l \in Lists : IsPath(heap, heap.root[l].next, p[l])
  <2> SUFFICES ASSUME NEW l \in Lists PROVE IsPath(heap, heap.root[l].next, p[l])
    OBVIOUS
  <2>1. After(p[l], 0) = NULL
    BY <1>4 DEF After
  <2> QED
    BY <1>1, <1>4, <1>5, <2>1 DEF IsPath
<1>7. \A l, m \in Lists : \A i \in 1..Len(p[l]), j \in 1..Len(p[m]) :
          p[l][i] = p[m][j] => l = m /\ i = j
  <2> SUFFICES ASSUME NEW l \in Lists, NEW m \in Lists, NEW i \in 1..Len(p[l]) PROVE FALSE
    OBVIOUS
  <2> QED
    BY <1>4
<1>8. Laid(heap, p)
  <2>1. \A n \in Nodes : n \in heap.used <=> \E l \in Lists : OnPath(n, p[l])
    BY <1>2, <1>4 DEF OnPath
  <2>2. \A n \in heap.used : FALSE
    BY <1>2
  <2> QED
    BY <1>2, <1>3, <1>4, <1>6, <1>7, <2>1, <2>2 DEF Laid
<1> QED
  BY <1>8 DEF Lays

LEMMA RangesFacts ==
  ASSUME NEW v \in List!Ranges
  PROVE  /\ v \in Seq(Things) /\ Len(v) \in Nat /\ Len(v) > 0 /\ v # <<>>
         /\ v[1] # Zero
<1>1. PICK n \in 1..2 : v \in [1..n -> Values]
  BY DEF List!Ranges
<1>2. v \in [1..n -> Things]
  BY <1>1 DEF Things
<1>3. v \in Seq(Things) /\ Len(v) = n
  BY <1>2, FunctionIsSeq
<1>4. 1 \in 1..n /\ v[1] \in Values
  BY <1>1
<1>5. v # <<>>
  BY <1>3, EmptySeq
<1> QED
  BY <1>3, <1>4, <1>5, ListAssumption

LEMMA ListsInvNext ==
  ASSUME Lays(heap), List!Next
  PROVE  Lays(heap')
<1>0. \A l \in Lists : List!Size(heap, l) \in Nat
  BY SizeFacts DEF Lays
<1>1. ASSUME NEW l \in Lists, List!DoInsert(l) PROVE Lays(heap')
  <2>1. PICK i \in 0..List!Size(heap, l), v \in List!Ranges :
            List!Free(Len(v) + 1) /\ List!Becomes(List!InsertAfter(heap, l, i, v))
    BY <1>1 DEF List!DoInsert
  <2>2. v \in Seq(Things) /\ Len(v) \in Nat /\ Len(v) > 0 /\ Cardinality(Nodes \ heap.used) \in Nat
    BY RangesFacts, FreeAfterOne
  <2>3. Len(v) + 1 <= Cardinality(Nodes \ heap.used)
    BY <2>1, <2>2, ListCardinality DEF List!Free
  <2>4. Lays(List!InsertAfter(heap, l, i, v))
    BY <2>2, <2>3, InsertFacts
  <2> QED
    BY <2>1, <2>4 DEF List!Becomes
<1>2. ASSUME NEW l \in Lists, List!DoEraseRange(l) PROVE Lays(heap')
  <2>1. PICK i \in 0..List!Size(heap, l) : \E j \in (i + 1)..(List!Size(heap, l) + 1) :
            ~List!RunsOff(heap, l, i, j) /\ List!Becomes(List!EraseRange(heap, l, i, j))
    BY <1>2 DEF List!DoEraseRange
  <2>2. PICK j \in (i + 1)..(List!Size(heap, l) + 1) :
            ~List!RunsOff(heap, l, i, j) /\ List!Becomes(List!EraseRange(heap, l, i, j))
    BY <2>1
  <2>3. Lays(List!EraseRange(heap, l, i, j))
    BY <2>2, ListEraseFacts
  <2> QED
    BY <2>2, <2>3 DEF List!Becomes
<1>3. ASSUME NEW l \in Lists, List!EraseAfter(l) PROVE Lays(heap')
  <2>1. PICK i \in 0..List!Size(heap, l) : \E f \in {i, i + 1} :
            /\ crashed' = (f = i /\ List!RunsOff(heap, l, i, i + 1))
            /\ heap' = IF f = i /\ ~crashed' THEN List!EraseRange(heap, l, i, i + 1) ELSE heap
    BY <1>3, Zenon DEF List!EraseAfter
  <2>2. heap' = heap \/ (~List!RunsOff(heap, l, i, i + 1) /\ heap' = List!EraseRange(heap, l, i, i + 1))
    BY <2>1
  <2>3. CASE heap' = heap
    BY <2>3
  <2>4. CASE ~List!RunsOff(heap, l, i, i + 1) /\ heap' = List!EraseRange(heap, l, i, i + 1)
    <3> DEFINE j == i + 1
    <3>1. j \in (i + 1)..(List!Size(heap, l) + 1)
      BY <1>0
    <3>2. ~List!RunsOff(heap, l, i, j) /\ heap' = List!EraseRange(heap, l, i, j)
      BY <2>4
    <3> HIDE DEF j
    <3>3. Lays(List!EraseRange(heap, l, i, j))
      BY <3>1, <3>2, ListEraseFacts
    <3> QED
      BY <3>2, <3>3
  <2> QED
    BY <2>2, <2>3, <2>4
<1>4. ASSUME NEW l \in Lists, List!DoAssign(l) PROVE Lays(heap')
  <2>1. PICK v \in List!Ranges \cup {<<>>} : List!Free(Len(v)) /\ List!Becomes(List!Assign(heap, l, v))
    BY <1>4 DEF List!DoAssign
  <2>2. v \in Seq(Things) /\ (v # <<>> => v[1] # Zero)
    <3>1. CASE v \in List!Ranges
      BY <3>1, RangesFacts
    <3>2. CASE v = <<>>
      BY <3>2
    <3> QED
      BY <3>1, <3>2
  <2>3. Len(v) <= Cardinality(Nodes \ heap.used)
    <3>1. Len(v) \in Nat /\ Cardinality(Nodes \ heap.used) \in Nat
      BY <2>2, LenProperties, FreeAfterOne
    <3> QED
      BY <2>1, <3>1, ListCardinality DEF List!Free
  <2>4. Lays(List!Assign(heap, l, v))
    BY <2>2, <2>3, ListAssignFacts
  <2> QED
    BY <2>1, <2>4 DEF List!Becomes
<1>5. ASSUME NEW l \in Lists, List!DoResize(l) PROVE Lays(heap')
  <2>1. PICK k \in 0..(List!Size(heap, l) + 2), v \in Values \cup {Zero} :
            List!Free((k + 1) - List!Size(heap, l)) /\ List!Becomes(List!Resize(heap, l, k, v))
    BY <1>5 DEF List!DoResize
  <2>2. k \in Nat /\ v \in Things
    BY <1>0 DEF Things
  <2>3. (k + 1) - List!Size(heap, l) <= Cardinality(Nodes \ heap.used)
    <3>1. Cardinality(Nodes \ heap.used) \in Nat
      BY FreeAfterOne
    <3> QED
      BY <1>0, <2>1, <2>2, <3>1, ListCardinality DEF List!Free
  <2>4. Lays(List!Resize(heap, l, k, v))
    BY <2>2, <2>3, ListResizeFacts
  <2> QED
    BY <2>1, <2>4 DEF List!Becomes
<1>6. ASSUME NEW l \in Lists, NEW m \in Lists, List!DoMoveAssign(l, m) \/ List!DoSwap(l, m)
      PROVE  Lays(heap')
  <2>1. l # m /\ (heap' = List!MoveAssign(heap, l, m) \/ heap' = List!Swap(heap, l, m))
    BY <1>6 DEF List!DoMoveAssign, List!DoSwap, List!Becomes
  <2>2. Lays(List!MoveAssign(heap, l, m))
    BY <2>1, ListMoveAssignFacts
  <2>3. Lays(List!Swap(heap, l, m))
    BY <2>1, ListSwapFacts
  <2> QED
    BY <2>1, <2>2, <2>3
<1> QED
  BY <1>1, <1>2, <1>3, <1>4, <1>5, <1>6 DEF List!Next

LEMMA ListsOwnNodes ==
  ASSUME Lays(heap)
  PROVE  List!NodesOwned
<1>1. PICK p : Laid(heap, p)
  BY DEF Lays
<1>2. \A l \in Lists : List!Behind(heap, l) = p[l] /\ DOMAIN p[l] = 1..Len(p[l]) /\ p[l] \in Seq(Nodes)
  <2> SUFFICES ASSUME NEW l \in Lists
               PROVE  List!Behind(heap, l) = p[l] /\ DOMAIN p[l] = 1..Len(p[l]) /\ p[l] \in Seq(Nodes)
    OBVIOUS
  <2>1. List!Behind(heap, l) = p[l] /\ p[l] \in Seq(Nodes)
    BY <1>1, LaidFacts
  <2> QED
    BY <2>1, LenProperties
<1>3. \A l \in Lists : \A i \in 1..Len(p[l]) : p[l][i] \in heap.used
  BY <1>1, LaidFacts
<1>4. heap.used \subseteq Nodes
  BY <1>1 DEF Laid, Heaps
<1>5. \A n \in heap.used : \E l \in Lists : OnPath(n, p[l])
  BY <1>1, <1>4 DEF Laid
<1>6. \A l \in Lists : \A n : n \in List!Range(List!Behind(heap, l)) <=> OnPath(n, p[l])
  BY <1>2 DEF List!Range, OnPath
<1>7. heap.used = UNION {List!Range(List!Behind(heap, l)) : l \in Lists}
  <2>1. ASSUME NEW n \in heap.used PROVE \E l \in Lists : n \in List!Range(List!Behind(heap, l))
    BY <1>5, <1>6
  <2>2. ASSUME NEW l \in Lists, NEW n \in List!Range(List!Behind(heap, l)) PROVE n \in heap.used
    BY <1>3, <1>6 DEF OnPath
  <2> QED
    BY <2>1, <2>2
<1>8. \A l, m \in Lists : \A i \in 1..Len(p[l]), j \in 1..Len(p[m]) :
          p[l][i] = p[m][j] => l = m /\ i = j
  BY <1>1 DEF Laid
<1>9. \A l, m \in Lists : \A i \in DOMAIN List!Behind(heap, l), j \in DOMAIN List!Behind(heap, m) :
          List!Behind(heap, l)[i] = List!Behind(heap, m)[j] => l = m /\ i = j
  <2> SUFFICES ASSUME NEW l \in Lists, NEW m \in Lists, NEW i \in DOMAIN List!Behind(heap, l),
                      NEW j \in DOMAIN List!Behind(heap, m), List!Behind(heap, l)[i] = List!Behind(heap, m)[j]
               PROVE  l = m /\ i = j
    OBVIOUS
  <2>1. i \in 1..Len(p[l]) /\ j \in 1..Len(p[m]) /\ p[l][i] = p[m][j]
    BY <1>2
  <2> QED
    BY <1>8, <2>1
<1> QED
  BY <1>7, <1>9 DEF List!NodesOwned

LEMMA ListsAreSequences ==
  ASSUME Lays(heap)
  PROVE  List!CallsAsSequences
<1> SUFFICES ASSUME NEW l \in Lists
             PROVE  LET s == List!Items(heap, l)
                        n == List!Size(heap, l)
                    IN  /\ \A i \in 0..n, t \in List!Ranges :
                             \/ ~List!Free(Len(t) + 1)
                             \/ i = 0 /\ n > 0 /\ List!FalsyFirst(l)
                             \/ List!Items(List!InsertAfter(heap, l, i, t), l) = SubSeq(s, 1, i) \o t \o SubSeq(s, i + 1, n)
                        /\ \A i \in 0..n : \A j \in (i + 1)..(n + 1) :
                             \/ List!RunsOff(heap, l, i, j)
                             \/ Zero \in List!Range(s)
                             \/ List!Items(List!EraseRange(heap, l, i, j), l) = SubSeq(s, 1, i) \o SubSeq(s, j, n)
                        /\ \A k \in 0..(n + 2), v \in Values :
                             \/ ~List!Free((k + 1) - n)
                             \/ Zero \in List!Range(s)
                             \/ List!Items(List!Resize(heap, l, k, v), l) = [i \in 1..k |-> IF i <= n THEN s[i] ELSE v]
                        /\ \A t \in List!Ranges \cup {<<>>} : List!Free(Len(t)) => List!Items(List!Assign(heap, l, t), l) = t
                        /\ \A m \in Lists \ {l} :
                             /\ List!Items(List!MoveAssign(heap, l, m), l) = List!Items(heap, m)
                             /\ List!Items(List!MoveAssign(heap, l, m), m) = <<>>
                             /\ List!Items(List!Swap(heap, l, m), l) = List!Items(heap, m)
  BY Zenon DEF List!CallsAsSequences
<1> DEFINE s == List!Items(heap, l)
           n == List!Size(heap, l)
<1>1. PICK p : Laid(heap, p)
  BY DEF Lays
<1>2. n \in Nat /\ s \in Seq(Things) /\ Len(s) = n /\ Cardinality(Nodes \ heap.used) \in Nat
      /\ (~List!IsEmpty(heap, l) => n > 0)
  <2>1. n \in Nat /\ Cardinality(Nodes \ heap.used) \in Nat
    BY <1>1, SizeFacts, FreeAfterOne
  <2>2. s \in Seq(Things) /\ Len(s) = n
    BY <1>1, ItemsFacts DEF Things
  <2>3. ~List!IsEmpty(heap, l) => n = 1 + Len(p[l])
    BY <1>1, SizeFacts
  <2>4. Len(p[l]) \in Nat
    BY <1>1, LaidFacts
  <2> QED
    BY <2>1, <2>2, <2>3, <2>4
<1>3. ASSUME NEW i \in 0..n, NEW t \in List!Ranges, List!Free(Len(t) + 1), ~(i = 0 /\ n > 0 /\ List!FalsyFirst(l))
      PROVE  List!Items(List!InsertAfter(heap, l, i, t), l) = SubSeq(s, 1, i) \o t \o SubSeq(s, i + 1, n)
  <2>1. t \in Seq(Things) /\ Len(t) \in Nat /\ Len(t) > 0 /\ t[1] # Zero
    BY RangesFacts
  <2>2. Len(t) + 1 <= Cardinality(Nodes \ heap.used)
    BY <1>2, <1>3, <2>1, ListCardinality DEF List!Free
  <2>3. i # 0 \/ List!IsEmpty(heap, l) \/ heap.root[l].value # Zero
    BY <1>2, <1>3 DEF List!FalsyFirst
  <2>4. LET g == List!InsertAfter(heap, l, i, t)
        IN  /\ Lays(g)
            /\ t[1] # Zero /\ (i # 0 \/ List!IsEmpty(heap, l) \/ heap.root[l].value # Zero) =>
                   List!Items(g, l) = Spliced(List!Items(heap, l), i, t, i)
    BY <2>1, <2>2, InsertFacts
  <2>5. List!Items(List!InsertAfter(heap, l, i, t), l) = Spliced(s, i, t, i)
    BY <2>1, <2>3, <2>4
  <2>6. i \in 0..Len(s) /\ i \in 0..i
    BY <1>2
  <2> HIDE DEF s
  <2>7. SubSeq(s, 1, i) \o t \o SubSeq(s, i + 1, Len(s)) = Spliced(s, i, t, i)
    BY <1>2, <2>1, <2>6, JoinedAround
  <2> QED
    BY <1>2, <2>5, <2>7
<1>4. ASSUME NEW i \in 0..n, NEW j \in (i + 1)..(n + 1), ~List!RunsOff(heap, l, i, j), Zero \notin List!Range(s)
      PROVE  List!Items(List!EraseRange(heap, l, i, j), l) = SubSeq(s, 1, i) \o SubSeq(s, j, n)
  <2> DEFINE b == j - 1
  <2>1. b \in 0..Len(s) /\ i \in 0..b /\ b + 1 = j
    BY <1>2
  <2>2. LET g == List!EraseRange(heap, l, i, j)
        IN  /\ Lays(g)
            /\ Truthy(heap, l) => List!Items(g, l) = Spliced(List!Items(heap, l), i, <<>>, j - 1)
    BY <1>4, ListEraseFacts
  <2>3. List!Items(List!EraseRange(heap, l, i, j), l) = Spliced(s, i, <<>>, b)
    BY <1>4, <2>2 DEF Truthy
  <2> DEFINE ns == <<>>
  <2>4. ns \in Seq(Things)
    OBVIOUS
  <2> HIDE DEF s, b, ns
  <2>5. SubSeq(s, 1, i) \o SubSeq(s, b + 1, Len(s)) = Spliced(s, i, <<>>, b)
    BY <1>2, <2>1, <2>4, JoinedAround
  <2> QED
    BY <1>2, <2>1, <2>3, <2>5
<1>5. ASSUME NEW k \in 0..(n + 2), NEW v \in Values, List!Free((k + 1) - n), Zero \notin List!Range(s)
      PROVE  List!Items(List!Resize(heap, l, k, v), l) = [i \in 1..k |-> IF i <= n THEN s[i] ELSE v]
  <2>1. k \in Nat /\ v \in Things /\ v # Zero
    BY <1>2, ListAssumption DEF Things
  <2>2. (k + 1) - List!Size(heap, l) <= Cardinality(Nodes \ heap.used)
    BY <1>2, <1>5, <2>1, ListCardinality DEF List!Free
  <2>3. LET g == List!Resize(heap, l, k, v)
        IN  /\ Lays(g)
            /\ v # Zero /\ Truthy(heap, l) =>
                   List!Items(g, l) = [i \in 1..k |-> IF i <= List!Size(heap, l) THEN List!Items(heap, l)[i] ELSE v]
    BY <2>1, <2>2, ListResizeFacts
  <2> QED
    BY <1>5, <2>1, <2>3 DEF Truthy
<1>6. ASSUME NEW t \in List!Ranges \cup {<<>>}, List!Free(Len(t)) PROVE List!Items(List!Assign(heap, l, t), l) = t
  <2>1. t \in Seq(Things) /\ (t # <<>> => t[1] # Zero)
    <3>1. CASE t \in List!Ranges
      BY <3>1, RangesFacts
    <3>2. CASE t = <<>>
      BY <3>2
    <3> QED
      BY <3>1, <3>2
  <2>2. Len(t) <= Cardinality(Nodes \ heap.used)
    <3>1. Len(t) \in Nat
      BY <2>1, LenProperties
    <3> QED
      BY <1>2, <1>6, <3>1, ListCardinality DEF List!Free
  <2> QED
    BY <2>1, <2>2, ListAssignFacts
<1>7. ASSUME NEW m \in Lists \ {l}
      PROVE  /\ List!Items(List!MoveAssign(heap, l, m), l) = List!Items(heap, m)
             /\ List!Items(List!MoveAssign(heap, l, m), m) = <<>>
             /\ List!Items(List!Swap(heap, l, m), l) = List!Items(heap, m)
  <2>1. m \in Lists /\ l # m
    OBVIOUS
  <2> QED
    BY <2>1, ListMoveAssignFacts, ListSwapFacts
<1> HIDE DEF s, n
<1> QED
  BY <1>3, <1>4, <1>5, <1>6, <1>7, Zenon DEF s, n

-----------------------------------------------------------------------------
(***************************************************************************)
(* The address library.                                                    *)
(***************************************************************************)
\* b is the first of the n places from "at" on that is not below what is
\* searched for, or the place behind them.
IsBound(less, at, n, b) ==
    /\ b \in at..(at + n)
    /\ \A i \in at..(b - 1) : less[i]
    /\ b < at + n => ~less[b]

LEMMA BoundExists ==
  ASSUME NEW less, NEW at \in Nat, NEW n \in Nat
  PROVE  \E b : IsBound(less, at, n, b)
<1> DEFINE above == {i \in at..((at + n) - 1) : ~less[i]}
<1>1. CASE above = {}
  <2> DEFINE e == at + n
  <2>1. e \in at..(at + n) /\ ~(e < at + n)
    OBVIOUS
  <2>2. \A i \in at..(e - 1) : less[i]
    BY <1>1
  <2> HIDE DEF e
  <2>3. IsBound(less, at, n, e)
    BY <2>1, <2>2 DEF IsBound
  <2> QED
    BY <2>3
<1>2. CASE above # {}
  <2>1. above \subseteq Nat
    OBVIOUS
  <2>2. PICK b \in above : \A y \in above : b <= y
    <3> HIDE DEF above
    <3> QED
      BY <1>2, <2>1, LeastExists
  <2>3. b \in at..((at + n) - 1) /\ ~less[b]
    OBVIOUS
  <2>4. ASSUME NEW i \in at..(b - 1) PROVE less[i]
    <3>1. i \in at..((at + n) - 1) /\ ~(b <= i)
      BY <2>3
    <3> QED
      BY <2>2, <3>1
  <2>5. b \in at..(at + n)
    BY <2>3
  <2>6. IsBound(less, at, n, b)
    BY <2>3, <2>4, <2>5 DEF IsBound
  <2> QED
    BY <2>6
<1> QED
  BY <1>1, <1>2

LEMMA BoundUnique ==
  ASSUME NEW less, NEW at \in Nat, NEW n \in Nat, NEW b, NEW c,
         IsBound(less, at, n, b), IsBound(less, at, n, c)
  PROVE  b = c
<1>1. b \in at..(at + n) /\ c \in at..(at + n)
  BY DEF IsBound
<1>2. ASSUME b < c PROVE FALSE
  <2>1. b \in at..(c - 1) /\ b < at + n
    BY <1>1, <1>2
  <2> QED
    BY <2>1 DEF IsBound
<1>3. ASSUME c < b PROVE FALSE
  <2>1. c \in at..(b - 1) /\ c < at + n
    BY <1>1, <1>3
  <2> QED
    BY <2>1 DEF IsBound
<1> QED
  BY <1>1, <1>2, <1>3

Ascends(less) == \A i, j \in DOMAIN less : i < j /\ less[j] => less[i]

\* std::lower_bound ends at the bound of the whole table, if what is below the
\* element searched for is in front of what is not.
LEMMA LowerBoundFacts ==
  ASSUME NEW k \in Nat, NEW less \in [1..k -> BOOLEAN], Ascends(less)
  PROVE  IsBound(less, 1, k, Library!LowerBound(less))
<1> DEFINE D == Library!RangesOf(less)
           Step(g, r) ==
               LET at == r[1]
                   half == r[2] \div 2
               IN  CASE r[2] = 0 -> at
                     [] r[2] > 0 /\ less[at + half] -> g[<<at + half + 1, r[2] - half - 1>>]
                     [] OTHER -> g[<<at, half>>]
           Run(g) == g = [r \in D |-> Step(g, r)]
           search == CHOOSE g : Run(g)
           f == [r \in D |-> CHOOSE b : IsBound(less, r[1], r[2], b)]
           Half(r) == r[2] \div 2
           Lower(r) == <<r[1], Half(r)>>
           Upper(r) == <<r[1] + Half(r) + 1, r[2] - Half(r) - 1>>
<1>1. Len(less) = k /\ DOMAIN less = 1..k
  BY FunctionIsSeq
<1>2. D = {r \in (1..(k + 1)) \X (0..k) : r[1] + r[2] <= k + 1}
  BY <1>1 DEF Library!RangesOf
<1> HIDE DEF D
<1>3. ASSUME NEW r \in D
      PROVE  r[1] \in Nat /\ r[1] >= 1 /\ r[2] \in Nat /\ r[1] + r[2] <= k + 1 /\ r[2] <= k
  BY <1>2
<1>4. ASSUME NEW r \in D, r[2] > 0
      PROVE  /\ Half(r) \in Nat /\ Half(r) < r[2]
             /\ Lower(r) \in D /\ Upper(r) \in D
             /\ Lower(r)[1] = r[1] /\ Lower(r)[2] = Half(r)
             /\ Upper(r)[1] = r[1] + Half(r) + 1 /\ Upper(r)[2] = r[2] - Half(r) - 1
             /\ r[1] + Half(r) \in 1..k
             /\ \A g : Step(g, r) = IF less[r[1] + Half(r)] THEN g[Upper(r)] ELSE g[Lower(r)]
  <2>1. r[1] \in Nat /\ r[1] >= 1 /\ r[2] \in Nat /\ r[1] + r[2] <= k + 1
    BY <1>3
  <2>2. Half(r) \in Nat /\ Half(r) < r[2]
    BY <1>4, <2>1
  <2>3. \A g : Step(g, r) = IF less[r[1] + Half(r)] THEN g[Upper(r)] ELSE g[Lower(r)]
    BY <1>4, <2>1
  <2> HIDE DEF Half
  <2>4. r[1] + Half(r) \in 1..k
    BY <2>1, <2>2
  <2>5. Lower(r) \in D
    BY <1>2, <2>1, <2>2
  <2>6. Upper(r) \in D
    BY <1>2, <2>1, <2>2
  <2> QED
    BY <2>2, <2>3, <2>4, <2>5, <2>6
<1>5. ASSUME NEW r \in D, r[2] = 0, NEW g PROVE Step(g, r) = r[1]
  BY <1>5
<1> HIDE DEF Step, Half, Lower, Upper
<1>6. ASSUME NEW r \in D PROVE IsBound(less, r[1], r[2], f[r])
  <2>1. \E b : IsBound(less, r[1], r[2], b)
    BY <1>3, BoundExists
  <2> QED
    BY <2>1
<1> HIDE DEF f
<1>7. ASSUME NEW r \in D PROVE f[r] = Step(f, r)
  <2>1. r[1] \in Nat /\ r[1] >= 1 /\ r[2] \in Nat /\ r[1] + r[2] <= k + 1
    BY <1>3
  <2>2. CASE r[2] = 0
    <3>1. f[r] \in r[1]..(r[1] + 0)
      BY <1>6, <2>2 DEF IsBound
    <3>2. f[r] = r[1]
      BY <2>1, <3>1
    <3> QED
      BY <1>5, <2>2, <3>2
  <2>3. CASE r[2] > 0
    <3> DEFINE at == r[1]
               n == r[2]
               h == Half(r)
               l == f[Lower(r)]
               u == f[Upper(r)]
    <3>1. /\ h \in Nat /\ h < n /\ at \in Nat /\ n \in Nat /\ at >= 1 /\ at + n <= k + 1
          /\ at + h \in 1..k /\ Lower(r) \in D /\ Upper(r) \in D
          /\ Step(f, r) = IF less[at + h] THEN u ELSE l
      BY <1>4, <2>1, <2>3
    <3>2. IsBound(less, at, h, l)
      BY <1>4, <1>6, <2>3
    <3>3. IsBound(less, at + h + 1, n - h - 1, u)
      BY <1>4, <1>6, <2>3
    <3>4. IsBound(less, at, n, f[r])
      BY <1>6
    <3> HIDE DEF at, n, h, l, u
    <3>5. CASE less[at + h]
      <4>1. u \in (at + h + 1)..((at + h + 1) + (n - h - 1))
        BY <3>3 DEF IsBound
      <4>2. u \in at..(at + n) /\ u \in Nat
        BY <3>1, <4>1
      <4>3. ASSUME NEW i \in at..(u - 1) PROVE less[i]
        <5>1. i \in 1..k
          BY <3>1, <4>2
        <5>2. CASE i < at + h
          BY <1>1, <3>1, <3>5, <5>1, <5>2 DEF Ascends
        <5>3. CASE i = at + h
          BY <3>5, <5>3
        <5>4. CASE i > at + h
          <6>1. i \in (at + h + 1)..(u - 1)
            BY <3>1, <4>2, <5>4
          <6> QED
            BY <3>3, <6>1 DEF IsBound
        <5> QED
          BY <3>1, <5>1, <5>2, <5>3, <5>4
      <4>4. u < at + n => ~less[u]
        <5>1. u < at + n => u < (at + h + 1) + (n - h - 1)
          BY <3>1, <4>2
        <5> QED
          BY <3>3, <5>1 DEF IsBound
      <4>5. IsBound(less, at, n, u)
        BY <4>2, <4>3, <4>4 DEF IsBound
      <4> QED
        BY <3>1, <3>4, <3>5, <4>5, BoundUnique
    <3>6. CASE ~less[at + h]
      <4>1. l \in at..(at + h)
        BY <3>2 DEF IsBound
      <4>2. l \in at..(at + n) /\ l \in Nat
        BY <3>1, <4>1
      <4>3. ~less[l]
        <5>1. l < at + h \/ l = at + h
          BY <3>1, <4>1
        <5> QED
          BY <3>2, <3>6, <5>1 DEF IsBound
      <4>4. IsBound(less, at, n, l)
        BY <3>2, <4>2, <4>3 DEF IsBound
      <4> QED
        BY <3>1, <3>4, <3>6, <4>4, BoundUnique
    <3> QED
      BY <3>5, <3>6 DEF at, h
  <2> QED
    BY <2>1, <2>2, <2>3
<1>8. Run(search)
  <2>1. f = [r \in D |-> f[r]]
    BY DEF f
  <2>2. Run(f)
    BY <1>7, <2>1
  <2> HIDE DEF Run
  <2> QED
    BY <2>2
<1> DEFINE wrong == {n \in 0..k : \E r \in D : r[2] = n /\ search[r] # f[r]}
<1>9. Library!LowerBound(less) = search[<<1, k>>]
  BY <1>1 DEF Library!LowerBound, D, Step
<1> HIDE DEF search
<1>10. \A r \in D : search[r] = Step(search, r)
  BY <1>8
<1> HIDE DEF Run
<1>11. wrong = {}
  <2> SUFFICES ASSUME wrong # {} PROVE FALSE
    OBVIOUS
  <2>1. wrong \subseteq Nat
    OBVIOUS
  <2>2. PICK n \in wrong : \A y \in wrong : n <= y
    <3> HIDE DEF wrong
    <3> QED
      BY <2>1, LeastExists
  <2>3. PICK r \in D : r[2] = n /\ search[r] # f[r]
    BY <2>2
  <2>4. n \in Nat
    OBVIOUS
  <2>5. CASE n = 0
    <3>1. search[r] = r[1] /\ f[r] = r[1]
      BY <1>5, <1>7, <1>10, <2>3, <2>5
    <3> QED
      BY <2>3, <3>1
  <2>6. CASE n > 0
    <3>1. r[2] > 0
      BY <2>3, <2>6
    <3>2. /\ Lower(r) \in D /\ Lower(r)[2] < n /\ Lower(r)[2] \in Nat /\ Lower(r)[2] <= k
          /\ Upper(r) \in D /\ Upper(r)[2] < n /\ Upper(r)[2] \in Nat /\ Upper(r)[2] <= k
      BY <1>3, <1>4, <2>3, <2>4, <3>1
    <3>3. ASSUME NEW x \in D, x[2] < n, x[2] \in Nat, x[2] <= k PROVE search[x] = f[x]
      <4>1. x[2] \in 0..k /\ ~(n <= x[2])
        BY <2>4, <3>3
      <4>2. x[2] \notin wrong
        BY <2>2, <4>1
      <4> QED
        BY <4>1, <4>2
    <3>4. search[Lower(r)] = f[Lower(r)] /\ search[Upper(r)] = f[Upper(r)]
      BY <3>2, <3>3
    <3>5. Step(search, r) = Step(f, r)
      BY <1>4, <3>1, <3>4
    <3> QED
      BY <1>7, <1>10, <2>3, <3>5
  <2> QED
    BY <2>4, <2>5, <2>6
<1>12. <<1, k>> \in D
  BY <1>2
<1>13. search[<<1, k>>] = f[<<1, k>>]
  <2>1. <<1, k>>[2] = k /\ k \in 0..k
    OBVIOUS
  <2> QED
    BY <1>11, <1>12, <2>1
<1>14. IsBound(less, <<1, k>>[1], <<1, k>>[2], f[<<1, k>>])
  BY <1>6, <1>12
<1> QED
  BY <1>9, <1>13, <1>14

\* A table of entries, of which no two have the same id.
IsTableOf(m) ==
    /\ \E n \in Nat : m \in [1..n -> Library!Entries]
    /\ \A i, j \in DOMAIN m : m[i].id = m[j].id => m[i] = m[j]

LEMMA TableOfFacts ==
  ASSUME NEW m, IsTableOf(m)
  PROVE  /\ Len(m) \in Nat /\ DOMAIN m = 1..Len(m) /\ m \in [1..Len(m) -> Library!Entries]
         /\ \A i \in 1..Len(m) : /\ m[i].id \in Ids /\ m[i].id \in Nat
                                 /\ m[i].offset \in Offsets /\ m[i].offset \in Nat
<1>1. PICK n \in Nat : m \in [1..n -> Library!Entries]
  BY DEF IsTableOf
<1>2. Len(m) = n /\ DOMAIN m = 1..n
  BY <1>1, FunctionIsSeq
<1> QED
  BY <1>1, <1>2, LibraryAssumption DEF Library!Entries

\* Sorting keeps a table's length and its entries.
LEMMA SortedFacts ==
  ASSUME NEW m, IsTableOf(m), NEW t \in [DOMAIN m -> Library!Range(m)],
         Library!Range(t) = Library!Range(m)
  PROVE  /\ IsTableOf(t) /\ Len(t) = Len(m)
         /\ \A i \in 1..Len(m) : \E j \in 1..Len(m) : t[i] = m[j]
         /\ \A i \in 1..Len(m) : \E j \in 1..Len(m) : m[i] = t[j]
<1> DEFINE n == Len(m)
<1>1. n \in Nat /\ DOMAIN m = 1..n /\ m \in [1..n -> Library!Entries]
  BY TableOfFacts
<1>2. DOMAIN t = 1..n /\ t = [i \in 1..n |-> t[i]]
  BY <1>1
<1> HIDE DEF n
<1>3. ASSUME NEW i \in 1..n PROVE \E j \in 1..n : t[i] = m[j]
  BY <1>1, <1>2 DEF Library!Range
<1>4. ASSUME NEW i \in 1..n PROVE \E j \in 1..n : m[i] = t[j]
  BY <1>1, <1>2 DEF Library!Range
<1>5. \A i \in 1..n : t[i] \in Library!Entries
  BY <1>1, <1>3
<1>6. t \in [1..n -> Library!Entries]
  BY <1>2, <1>5
<1>7. Len(t) = n
  BY <1>1, <1>6, FunctionIsSeq
<1>8. ASSUME NEW i \in 1..n, NEW j \in 1..n, t[i].id = t[j].id PROVE t[i] = t[j]
  <2>1. PICK a \in 1..n, b \in 1..n : t[i] = m[a] /\ t[j] = m[b]
    BY <1>3
  <2> QED
    BY <1>1, <1>8, <2>1 DEF IsTableOf
<1>9. IsTableOf(t)
  BY <1>1, <1>2, <1>6, <1>8 DEF IsTableOf
<1> QED
  BY <1>3, <1>4, <1>7, <1>9 DEF n

\* What is known of the library in every reachable state: VR's table is sorted
\* once it is loaded.
LibraryInv ==
    /\ IsTableOf(mapping)
    /\ runtime = "vr" /\ loaded =>
           \A i, j \in DOMAIN mapping : i < j => mapping[i].id <= mapping[j].id

LEMMA LibraryInvInit == Library!Init => LibraryInv
<1> SUFFICES ASSUME Library!Init PROVE LibraryInv
  OBVIOUS
<1>1. mapping \in Library!Files /\ loaded = FALSE
  BY DEF Library!Init
<1>2. PICK n \in 0..MaxEntries : mapping \in [1..n -> Library!Entries]
  BY <1>1 DEF Library!Files
<1>3. n \in Nat
  BY LibraryAssumption
<1>4. \A i, j \in DOMAIN mapping : mapping[i].id = mapping[j].id => mapping[i] = mapping[j]
  BY <1>1 DEF Library!Files
<1> QED
  BY <1>1, <1>2, <1>3, <1>4 DEF LibraryInv, IsTableOf

LEMMA LibraryInvNext ==
  ASSUME LibraryInv, Library!Next \/ UNCHANGED libraries
  PROVE  LibraryInv'
<1>1. CASE UNCHANGED libraries
  BY <1>1 DEF LibraryInv, IsTableOf, libraries
<1>2. CASE Library!Next
  <2>1. loaded' = TRUE /\ runtime' = runtime /\ (Library!LoadCsv \/ Library!MapBin \/ Library!NoGame)
    BY <1>2 DEF Library!Next, Library!Load
  <2>2. CASE Library!LoadCsv
    <3>1. mapping' \in Library!ById(mapping)
      BY <2>2 DEF Library!LoadCsv
    <3> DEFINE t == mapping'
    <3>2. /\ t \in [DOMAIN mapping -> Library!Range(mapping)]
          /\ Library!Range(t) = Library!Range(mapping)
          /\ \A i, j \in DOMAIN mapping : i < j => ~(t[j].id < t[i].id)
      BY <3>1 DEF Library!Arrangements, Library!ById
    <3> HIDE DEF t
    <3>3. IsTableOf(t) /\ Len(t) = Len(mapping)
      BY <3>2, SortedFacts DEF LibraryInv
    <3>4. \A i, j \in DOMAIN t : i < j => t[i].id <= t[j].id
      <4>1. DOMAIN t = 1..Len(t) /\ \A i \in 1..Len(t) : t[i].id \in Nat
        BY <3>3, TableOfFacts
      <4>2. DOMAIN mapping = 1..Len(t)
        BY <3>3, TableOfFacts DEF LibraryInv
      <4> QED
        BY <3>2, <4>1, <4>2
    <3> QED
      BY <3>3, <3>4 DEF LibraryInv, IsTableOf, t
  <2>3. CASE Library!MapBin
    BY <2>1, <2>3 DEF LibraryInv, IsTableOf, Library!MapBin
  <2>4. CASE Library!NoGame
    <3>1. runtime' # "vr" /\ mapping' = <<>>
      BY <2>1, <2>4 DEF Library!NoGame
    <3>2. <<>> \in [1..0 -> Library!Entries]
      OBVIOUS
    <3> QED
      BY <3>1, <3>2 DEF LibraryInv, IsTableOf
  <2> QED
    BY <2>1, <2>2, <2>3, <2>4
<1> QED
  BY <1>1, <1>2

\* id2offset: the search ends at the first entry whose id is not less.
LEMMA IdFound ==
  ASSUME NEW id \in Ids, IsTableOf(mapping),
         \A i, j \in DOMAIN mapping : i < j => mapping[i].id <= mapping[j].id
  PROVE  LET at == Library!LowerBound([i \in DOMAIN mapping |-> mapping[i].id < id])
         IN  /\ at \in 1..(Len(mapping) + 1)
             /\ \A i \in 1..(at - 1) : mapping[i].id < id
             /\ at <= Len(mapping) => \A i \in at..Len(mapping) : mapping[i].id >= id
<1> DEFINE n == Len(mapping)
           less == [i \in DOMAIN mapping |-> mapping[i].id < id]
           at == Library!LowerBound(less)
<1>1. n \in Nat /\ DOMAIN mapping = 1..n /\ (\A i \in 1..n : mapping[i].id \in Nat) /\ id \in Nat
  BY TableOfFacts, LibraryAssumption
<1>2. less \in [1..n -> BOOLEAN] /\ \A i \in 1..n : less[i] = (mapping[i].id < id)
  BY <1>1
<1> HIDE DEF n, less
<1>3. Ascends(less)
  <2> SUFFICES ASSUME NEW i \in 1..n, NEW j \in 1..n, i < j, less[j] PROVE less[i]
    BY <1>2 DEF Ascends
  <2>1. mapping[i].id <= mapping[j].id /\ mapping[j].id < id
    BY <1>1, <1>2
  <2> QED
    BY <1>1, <1>2, <2>1
<1>4. IsBound(less, 1, n, at)
  BY <1>1, <1>2, <1>3, LowerBoundFacts
<1> HIDE DEF at
<1>5. at \in 1..(n + 1) /\ (\A i \in 1..(at - 1) : less[i]) /\ (at <= n => ~less[at])
  BY <1>1, <1>4 DEF IsBound
<1>6. ASSUME NEW i \in 1..(at - 1) PROVE mapping[i].id < id
  <2>1. i \in 1..n
    BY <1>1, <1>5
  <2> QED
    BY <1>2, <1>5, <2>1
<1>7. ASSUME at <= n, NEW i \in at..n PROVE mapping[i].id >= id
  <2>1. i \in 1..n /\ at \in 1..n /\ (at < i \/ at = i)
    BY <1>1, <1>5, <1>7
  <2>2. ~(mapping[at].id < id) /\ mapping[at].id <= mapping[i].id
    BY <1>1, <1>2, <1>5, <1>7, <2>1
  <2> QED
    BY <1>1, <2>1, <2>2
<1> QED
  BY <1>5, <1>6, <1>7 DEF n, less, at

LEMMA IdsExact ==
  ASSUME LibraryInv, loaded, runtime # "none", runtime = "vr" \/ Library!Sorted, NEW id \in Ids
  PROVE  LET answer == Library!Id2Offset(id)
             higher == {k \in Ids : k > id /\ Library!Known(k) # {}}
         IN  IF Library!Known(id) # {} THEN Library!Known(id) = {answer}
             ELSE IF runtime = "vr" \/ higher = {} THEN answer = Failed
             ELSE \E k \in higher : Library!Known(k) = {answer} /\ \A j \in higher : k <= j
<1> DEFINE n == Len(mapping)
           less == [i \in DOMAIN mapping |-> mapping[i].id < id]
           at == Library!LowerBound(less)
           answer == Library!Id2Offset(id)
           higher == {k \in Ids : k > id /\ Library!Known(k) # {}}
<1>1. /\ n \in Nat /\ DOMAIN mapping = 1..n /\ id \in Nat
      /\ \A i \in 1..n : mapping[i].id \in Ids /\ mapping[i].id \in Nat
  BY TableOfFacts, LibraryAssumption DEF LibraryInv
<1>2. \A i, j \in DOMAIN mapping : i < j => mapping[i].id <= mapping[j].id
  <2>1. CASE runtime = "vr"
    BY <2>1 DEF LibraryInv
  <2>2. CASE Library!Sorted
    BY <1>1, <2>2 DEF Library!Sorted
  <2> QED
    BY <2>1, <2>2
<1>3. /\ at \in 1..(n + 1) /\ \A i \in 1..(at - 1) : mapping[i].id < id
      /\ at <= n => \A i \in at..n : mapping[i].id >= id
  BY <1>2, IdFound DEF LibraryInv
<1>4. answer = IF at > n \/ (runtime = "vr" /\ mapping[at].id # id) THEN Failed
               ELSE mapping[at].offset
  BY DEF Library!Id2Offset
<1> HIDE DEF n, less, at, answer
<1>5. ASSUME NEW i \in 1..n PROVE Library!Known(mapping[i].id) = {mapping[i].offset}
  <2>1. \A j \in 1..n : mapping[j].id = mapping[i].id => mapping[j] = mapping[i]
    BY <1>1 DEF LibraryInv, IsTableOf
  <2> QED
    BY <1>1, <2>1 DEF Library!Known
<1>6. ASSUME NEW k, Library!Known(k) # {} PROVE \E i \in 1..n : mapping[i].id = k
  BY <1>1, <1>6 DEF Library!Known
<1>7. CASE Library!Known(id) # {}
  <2>1. PICK i \in 1..n : mapping[i].id = id
    BY <1>6, <1>7
  <2>2. at <= i /\ at \in 1..n
    BY <1>1, <1>3, <2>1
  <2>3. mapping[at].id >= id /\ mapping[at].id \in Nat /\ mapping[i].id \in Nat
    BY <1>1, <1>3, <2>2
  <2>4. mapping[at].id <= mapping[i].id
    <3>1. at < i \/ at = i
      BY <1>1, <2>2
    <3> QED
      BY <1>1, <1>2, <2>2, <2>3, <3>1
  <2>5. mapping[at].id = id
    BY <1>1, <2>1, <2>3, <2>4
  <2>6. answer = mapping[at].offset
    BY <1>1, <1>4, <2>2, <2>5
  <2> QED
    BY <1>5, <1>7, <2>2, <2>5, <2>6 DEF answer
<1>8. CASE Library!Known(id) = {}
  <2>1. \A i \in 1..n : mapping[i].id # id
    BY <1>5, <1>8
  <2>2. CASE at > n
    <3>1. answer = Failed
      BY <1>4, <2>2
    <3>2. higher = {}
      <4> SUFFICES ASSUME NEW k \in higher PROVE FALSE
        OBVIOUS
      <4>1. PICK i \in 1..n : mapping[i].id = k
        BY <1>6
      <4>2. i \in 1..(at - 1) /\ mapping[i].id < id /\ k > id /\ k \in Nat
        BY <1>1, <1>3, <2>2, <4>1
      <4> QED
        BY <1>1, <4>1, <4>2
    <3> QED
      BY <1>8, <3>1, <3>2 DEF answer
  <2>3. CASE at <= n
    <3> DEFINE k == mapping[at].id
    <3>1. at \in 1..n /\ k \in Ids /\ k \in Nat /\ k > id
      BY <1>1, <1>3, <2>1, <2>3
    <3>2. Library!Known(k) = {mapping[at].offset}
      BY <1>5, <3>1
    <3>3. k \in higher
      BY <3>1, <3>2
    <3>4. ASSUME NEW j \in higher PROVE k <= j
      <4>1. PICK i \in 1..n : mapping[i].id = j
        BY <1>6
      <4>2. i >= at
        <5>1. ASSUME i < at PROVE FALSE
          <6>1. i \in 1..(at - 1)
            BY <1>1, <3>1, <5>1
          <6>2. j < id /\ j > id /\ j \in Nat
            BY <1>1, <1>3, <4>1, <6>1
          <6> QED
            BY <1>1, <6>2
        <5> QED
          BY <1>1, <3>1, <5>1
      <4>3. at < i \/ at = i
        BY <1>1, <3>1, <4>2
      <4> QED
        BY <1>1, <1>2, <3>1, <4>1, <4>3
    <3>5. runtime = "vr" => answer = Failed
      BY <1>4, <2>1, <3>1
    <3>6. runtime # "vr" => answer = mapping[at].offset
      BY <1>1, <1>4, <3>1
    <3> HIDE DEF k
    <3> QED
      BY <1>8, <3>2, <3>3, <3>4, <3>5, <3>6 DEF answer
  <2> QED
    BY <1>1, <1>3, <2>2, <2>3
<1> QED
  BY <1>7, <1>8

LEMMA OffsetsExact ==
  ASSUME LibraryInv, NEW t \in Library!ByOffset(mapping), NEW offset \in Offsets
  PROVE  LET answer == Library!Offset2Id(t, offset)
             least == {i \in DOMAIN mapping : mapping[i].offset >= offset}
         IN  IF least = {} THEN answer = Failed
             ELSE \E i \in least : /\ mapping[i].id = answer
                                   /\ \A j \in least : mapping[i].offset <= mapping[j].offset
<1> DEFINE n == Len(mapping)
           less == [i \in DOMAIN t |-> t[i].offset < offset]
           at == Library!LowerBound(less)
           answer == Library!Offset2Id(t, offset)
           least == {i \in DOMAIN mapping : mapping[i].offset >= offset}
<1>1. /\ t \in [DOMAIN mapping -> Library!Range(mapping)]
      /\ Library!Range(t) = Library!Range(mapping)
      /\ \A i, j \in DOMAIN mapping : i < j => ~(t[j].offset < t[i].offset)
  BY DEF Library!Arrangements, Library!ByOffset
<1>2. /\ IsTableOf(mapping) /\ IsTableOf(t) /\ Len(t) = n
      /\ \A i \in 1..n : \E j \in 1..n : t[i] = mapping[j]
      /\ \A i \in 1..n : \E j \in 1..n : mapping[i] = t[j]
  BY <1>1, SortedFacts DEF LibraryInv
<1>3. /\ n \in Nat /\ DOMAIN mapping = 1..n /\ DOMAIN t = 1..n /\ offset \in Nat
      /\ \A i \in 1..n : mapping[i].offset \in Nat /\ t[i].offset \in Nat
  BY <1>2, TableOfFacts, LibraryAssumption
<1>4. less \in [1..n -> BOOLEAN] /\ \A i \in 1..n : less[i] = (t[i].offset < offset)
  BY <1>3
<1>5. answer = IF at > n THEN Failed ELSE t[at].id
  BY <1>2 DEF Library!Offset2Id
<1> HIDE DEF n, less, answer
<1>6. Ascends(less)
  <2> SUFFICES ASSUME NEW i \in 1..n, NEW j \in 1..n, i < j, less[j] PROVE less[i]
    BY <1>4 DEF Ascends
  <2>1. ~(t[j].offset < t[i].offset) /\ t[j].offset < offset
    BY <1>1, <1>3, <1>4
  <2> QED
    BY <1>3, <1>4, <2>1
<1>7. IsBound(less, 1, n, at)
  BY <1>3, <1>4, <1>6, LowerBoundFacts
<1> HIDE DEF at
<1>8. at \in 1..(n + 1) /\ (\A i \in 1..(at - 1) : less[i]) /\ (at <= n => ~less[at])
  BY <1>3, <1>7 DEF IsBound
<1>9. ASSUME NEW j \in least PROVE at <= n /\ \E b \in at..n : mapping[j] = t[b]
  <2>1. j \in 1..n /\ mapping[j].offset >= offset
    BY <1>3
  <2>2. PICK b \in 1..n : mapping[j] = t[b]
    BY <1>2, <2>1
  <2>3. ~(b < at)
    <3>1. ASSUME b < at PROVE FALSE
      <4>1. b \in 1..(at - 1)
        BY <1>3, <1>8, <3>1
      <4>2. t[b].offset < offset
        BY <1>4, <1>8, <4>1
      <4> QED
        BY <1>3, <2>1, <2>2, <4>2
    <3> QED
      BY <3>1
  <2> QED
    BY <1>3, <1>8, <2>2, <2>3
<1>10. CASE at > n
  <2>1. least = {}
    BY <1>3, <1>8, <1>9, <1>10
  <2> QED
    BY <1>5, <1>10, <2>1 DEF answer
<1>11. CASE at <= n
  <2>1. at \in 1..n
    BY <1>3, <1>8, <1>11
  <2>2. PICK i \in 1..n : t[at] = mapping[i]
    BY <1>2, <2>1
  <2>3. i \in least
    BY <1>3, <1>4, <1>8, <1>11, <2>1, <2>2
  <2>4. mapping[i].id = answer
    BY <1>3, <1>5, <2>1, <2>2
  <2>5. ASSUME NEW j \in least PROVE mapping[i].offset <= mapping[j].offset
    <3>1. PICK b \in at..n : mapping[j] = t[b]
      BY <1>9
    <3>2. b \in 1..n /\ (at < b \/ at = b)
      BY <1>3, <2>1
    <3>3. ~(t[b].offset < t[at].offset)
      BY <1>1, <1>3, <2>1, <3>2
    <3> QED
      BY <1>3, <2>1, <2>2, <3>1, <3>2, <3>3
  <2> HIDE DEF least
  <2> QED
    BY <2>3, <2>4, <2>5 DEF answer, least
<1> QED
  BY <1>3, <1>8, <1>10, <1>11

LEMMA LibraryAnswers ==
  ASSUME LibraryInv
  PROVE  Library!LookupsExact
<1> SUFFICES ASSUME loaded, runtime # "none" PROVE Library!LookupsExact
  BY DEF Library!LookupsExact
<1> QED
  BY IdsExact, OffsetsExact, Zenon DEF Library!LookupsExact

-----------------------------------------------------------------------------
(***************************************************************************)
(* BSTScatterTable: what ScatterTableProofs proves of the table alone is   *)
(* proved of the table here, whose operators are the same.                 *)
(***************************************************************************)
TP == INSTANCE ScatterTableProofs
LEMMA SameFind == \A q, k : Table!Find(q, k) = TP!Find(q, k)
BY DEF Table!Find, TP!Find, Table!Size, TP!Size, Table!Chain, TP!Chain, Table!Slots, TP!Slots, Table!Closed, TP!Closed, Table!Taken, TP!Taken, Table!Home, TP!Home

LEMMA SameInsert == \A q, k : Table!Insert(q, k) = TP!Insert(q, k)
BY DEF Table!Insert, TP!Insert, Table!Home, TP!Home, Table!Find, TP!Find, Table!Size, TP!Size, Table!Chain, TP!Chain, Table!Slots, TP!Slots, Table!Closed, TP!Closed, Table!Taken, TP!Taken, Table!PlaceAtHome, TP!PlaceAtHome, Table!Entry, TP!Entry, Table!SpliceBehind, TP!SpliceBehind, Table!FreeSlot, TP!FreeSlot, Table!Min, TP!Min, Table!Evict, TP!Evict, Table!Before, TP!Before

LEMMA SameErase == \A q, k : Table!Erase(q, k) = TP!Erase(q, k)
BY DEF Table!Erase, TP!Erase, Table!Home, TP!Home, Table!Before, TP!Before, Table!Chain, TP!Chain, Table!Slots, TP!Slots, Table!Closed, TP!Closed, Table!Taken, TP!Taken

LEMMA SameSeek == \A q, k : Table!Seek(q, k) = TP!Seek(q, k)
BY DEF Table!Seek, TP!Seek, Table!Taken, TP!Taken, Table!Slots, TP!Slots, Table!Min, TP!Min

LEMMA SameCapacityFor == \A q : Table!CapacityFor(q) = TP!CapacityFor(q)
BY DEF Table!CapacityFor, TP!CapacityFor, Table!Capacities, TP!Capacities, Table!PowersOfTwo, TP!PowersOfTwo, Table!Min, TP!Min

LEMMA SameFresh == \A q : Table!Fresh(q) = TP!Fresh(q)
BY DEF Table!Fresh, TP!Fresh

LEMMA SameInsertAll == \A q, r : Table!InsertAll(q, r) = TP!InsertAll(q, r)
BY DEF Table!InsertAll, TP!InsertAll, Table!InsertEntry, TP!InsertEntry, Table!Insert, TP!Insert, Table!Home, TP!Home, Table!Find, TP!Find, Table!Size, TP!Size, Table!Chain, TP!Chain, Table!Slots, TP!Slots, Table!Closed, TP!Closed, Table!Taken, TP!Taken, Table!PlaceAtHome, TP!PlaceAtHome, Table!Entry, TP!Entry, Table!SpliceBehind, TP!SpliceBehind, Table!FreeSlot, TP!FreeSlot, Table!Min, TP!Min, Table!Evict, TP!Evict, Table!Before, TP!Before

LEMMA SameReserve == \A q, k : Table!Reserve(q, k) = TP!Reserve(q, k)
BY SameInsertAll, SameCapacityFor, SameFresh DEF Table!Reserve, TP!Reserve

LEMMA SameInsertRange == \A q, r : Table!InsertRange(q, r) = TP!InsertRange(q, r)
BY SameInsertAll, SameReserve DEF Table!InsertRange, TP!InsertRange, Table!Size, TP!Size

LEMMA SameClear == \A q : Table!Clear(q) = TP!Clear(q)
BY SameFresh DEF Table!Clear, TP!Clear, Table!Size, TP!Size

LEMMA SameNext == Table!Next <=> TP!Next
<1>1. \A t, k : Table!InsertKey(t, k) <=> TP!InsertKey(t, k)
  BY SameFind, SameInsert, SameReserve DEF Table!InsertKey, TP!InsertKey, Table!Usable, TP!Usable, Table!CanReserve, TP!CanReserve, Table!Become, TP!Become, Table!Fail, TP!Fail
<1>2. \A t, k : Table!EraseKey(t, k) <=> TP!EraseKey(t, k)
  BY SameFind, SameErase DEF Table!EraseKey, TP!EraseKey, Table!Usable, TP!Usable, Table!Become, TP!Become
<1>3. \A t, k : Table!ReserveFor(t, k) <=> TP!ReserveFor(t, k)
  BY SameReserve DEF Table!ReserveFor, TP!ReserveFor, Table!Usable, TP!Usable, Table!CanReserve, TP!CanReserve, Table!Become, TP!Become, Table!Fail, TP!Fail
<1>4. \A t : Table!ClearAll(t) <=> TP!ClearAll(t)
  BY SameClear DEF Table!ClearAll, TP!ClearAll, Table!Usable, TP!Usable, Table!Become, TP!Become
<1>5. \A t : Table!Rebuild(t) <=> TP!Rebuild(t)
  BY SameFresh DEF Table!Rebuild, TP!Rebuild, Table!Usable, TP!Usable, Table!Become, TP!Become
<1>6. \A t, k : Table!InsertFrom(t, k) <=> TP!InsertFrom(t, k)
  BY SameInsertRange DEF Table!InsertFrom, TP!InsertFrom, Table!Size, TP!Size, Table!Usable, TP!Usable, Table!CanReserve, TP!CanReserve, Table!Become, TP!Become, Table!Fail, TP!Fail
<1>7. \A t, k : Table!CopyFrom(t, k) <=> TP!CopyFrom(t, k)
  BY SameInsertRange, SameClear DEF Table!CopyFrom, TP!CopyFrom, Table!Usable, TP!Usable, Table!Become, TP!Become
<1>8. \A t, k : Table!MoveFrom(t, k) <=> TP!MoveFrom(t, k)
  BY SameFresh DEF Table!MoveFrom, TP!MoveFrom, Table!Usable, TP!Usable
<1>9. \A t : Table!SweepBegin(t) <=> TP!SweepBegin(t)
  BY SameSeek DEF Table!SweepBegin, TP!SweepBegin, Table!Usable, TP!Usable, Table!Size, TP!Size
<1>10. \A t : Table!SweepErase(t) <=> TP!SweepErase(t)
  BY SameErase, SameSeek DEF Table!SweepErase, TP!SweepErase
<1>11. \A t : Table!SweepKeep(t) <=> TP!SweepKeep(t)
  BY SameSeek DEF Table!SweepKeep, TP!SweepKeep
<1> QED
  BY <1>1, <1>2, <1>3, <1>4, <1>5, <1>6, <1>7, <1>8, <1>9, <1>10, <1>11, Zenon DEF Table!Next, TP!Next
LEMMA SameChainsHome == Table!ChainsHome <=> TP!ChainsHome
BY DEF Table!ChainsHome, TP!ChainsHome, Table!Taken, TP!Taken, Table!Home, TP!Home, Table!Chain, TP!Chain, Table!Slots, TP!Slots, Table!Closed, TP!Closed

LEMMA SameFreeExact == Table!FreeExact <=> TP!FreeExact
BY DEF Table!FreeExact, TP!FreeExact, Table!TypeOK, TP!TypeOK, Table!Taken, TP!Taken, Table!Slots, TP!Slots, Table!PowersOfTwo, TP!PowersOfTwo, Table!Cardinality, TP!Cardinality

LEMMA SameSweepNeverRevisits == Table!SweepNeverRevisits <=> TP!SweepNeverRevisits
BY DEF Table!SweepNeverRevisits, TP!SweepNeverRevisits, Table!Taken, TP!Taken, Table!Slots, TP!Slots


TablesInv == subject = "table" => TP!IInv

LEMMA TablesInvInit == Init => TablesInv
<1>1. TP!Init => TP!IInv
  BY TableAssumption, TP!InitIInv DEF Table!ScatterTableAssumption, Table!PowersOfTwo, TP!PowersOfTwo
<1> QED
  BY <1>1 DEF Init, TablesInv, TP!Init, Table!Init, TP!Fresh, Table!Fresh

LEMMA TableAssumed == TP!ScatterTableAssumption
BY TableAssumption DEF Table!ScatterTableAssumption, Table!PowersOfTwo, TP!ScatterTableAssumption, TP!PowersOfTwo

LEMMA TablesNext ==
  ASSUME TablesInv, [Next]_vars, subject = "table"
  PROVE  TP!IInv /\ TP!IInv' /\ TP!KeyStep
<1>1. TP!IInv
  BY DEF TablesInv
<1>2. [TP!Next]_(TP!vars)
  <2>1. Table!Next \/ UNCHANGED tables
    BY DEF Next, vars, ArraysStep, ListsStep, ArenasStep, LibrariesStep, TablesStep
  <2> QED
    BY <2>1, SameNext DEF tables, TP!vars
<1>3. TP!IInv /\ [TP!Next]_(TP!vars) => TP!IInv' /\ TP!KeyStep
  BY TableAssumed, TP!StepFacts DEF TP!ScatterTableAssumption, TP!PowersOfTwo
<1> QED
  BY <1>1, <1>2, <1>3

LEMMA FoundIsHeld == \A q : TP!Good(q) => Table!Found(q) = TP!Held(q)
<1>1. \A q : Table!Found(q) = TP!Found(q)
  BY SameFind DEF Table!Found, TP!Found
<1>2. \A q : TP!Good(q) => TP!Found(q) = TP!Held(q)
  BY TableAssumed, TP!FoundIsHeld DEF TP!ScatterTableAssumption, TP!PowersOfTwo
<1> QED
  BY <1>1, <1>2

TableContents == [t \in Tables |-> Table!Found(table[t])]

LEMMA TablesInvNext == TablesInv /\ [Next]_vars => TablesInv'
<1> SUFFICES ASSUME TablesInv, [Next]_vars, subject' = "table"
             PROVE  TP!IInv'
  BY DEF TablesInv
<1>1. subject = "table"
  BY DEF Next, vars
<1> QED
  BY <1>1, TablesNext

LEMMA TablesKept ==
  ASSUME TablesInv
  PROVE  subject = "table" => Table!ChainsHome /\ Table!FreeExact /\ Table!SweepNeverRevisits
<1> SUFFICES ASSUME TP!IInv
             PROVE  Table!ChainsHome /\ Table!FreeExact /\ Table!SweepNeverRevisits
  BY DEF TablesInv
<1>1. TP!ChainsHome
  BY TableAssumed, TP!IInvChains DEF TP!ScatterTableAssumption, TP!PowersOfTwo
<1>2. TP!FreeExact
  BY TableAssumed, TP!IInvFree DEF TP!ScatterTableAssumption, TP!PowersOfTwo
<1>3. TP!SweepNeverRevisits
  BY TableAssumed, TP!IInvSweep DEF TP!ScatterTableAssumption, TP!PowersOfTwo
<1> QED
  BY <1>1, <1>2, <1>3, SameChainsHome, SameFreeExact, SameSweepNeverRevisits

LEMMA TablesInitSets == Init => (subject = "table" => Table!Sets!SetInit)
<1> SUFFICES ASSUME Init, subject = "table" PROVE Table!Sets!SetInit
  OBVIOUS
<1>1. TP!IInv
  BY TablesInvInit DEF TablesInv
<1>2. TableContents = TP!Contents
  BY <1>1, FoundIsHeld DEF TP!IInv, TP!Contents, TableContents
<1>3. table = [t \in Tables |-> TP!Fresh(0)]
  BY DEF Init, Table!Init, Table!Fresh, TP!Fresh
<1>4. TP!Held(TP!Fresh(0)) = {}
  BY TableAssumed, TP!FreshIsGood DEF TP!ScatterTableAssumption, TP!PowersOfTwo
<1>5. TP!Contents = [t \in Tables |-> {}]
  BY <1>3, <1>4 DEF TP!Contents
<1> QED
  BY <1>2, <1>5 DEF Table!Sets!SetInit, TableContents

LEMMA TablesStepSets ==
  ASSUME TablesInv, [Next]_vars, subject = "table"
  PROVE  Table!Sets!SetNext \/ TableContents' = TableContents
<1>1. TP!IInv /\ TP!IInv' /\ TP!KeyStep
  BY TablesNext
<1>2. TableContents = TP!Contents /\ TableContents' = TP!Contents'
  BY <1>1, FoundIsHeld DEF TP!IInv, TP!Contents, TableContents
<1>3. CASE TP!Contents' = TP!Contents
  BY <1>2, <1>3
<1>4. ASSUME NEW t \in Tables, NEW k \in Keys,
             \/ TP!Contents' = [TP!Contents EXCEPT ![t] = @ \cup {k}]
             \/ TP!Contents' = [TP!Contents EXCEPT ![t] = @ \ {k}]
      PROVE  Table!Sets!Add(t, k) \/ Table!Sets!Remove(t, k)
  BY <1>2, <1>4 DEF Table!Sets!Add, Table!Sets!Remove, TableContents
<1>5. ASSUME NEW t \in Tables, TP!Contents' = [TP!Contents EXCEPT ![t] = {}]
      PROVE  Table!Sets!Empty(t)
  BY <1>2, <1>5 DEF Table!Sets!Empty, TableContents
<1>6. ASSUME NEW t \in Tables, NEW u \in Tables,
             \/ TP!Contents' = [TP!Contents EXCEPT ![t] = @ \cup TP!Contents[u]]
             \/ TP!Contents' = [TP!Contents EXCEPT ![t] = TP!Contents[u]]
             \/ TP!Contents' = [TP!Contents EXCEPT ![t] = TP!Contents[u], ![u] = {}]
      PROVE  Table!Sets!AddAll(t, u) \/ Table!Sets!Copy(t, u) \/ Table!Sets!Move(t, u)
  BY <1>2, <1>6 DEF Table!Sets!AddAll, Table!Sets!Copy, Table!Sets!Move, TableContents
<1> QED
  BY <1>1, <1>3, <1>4, <1>5, <1>6 DEF TP!KeyStep, Table!Sets!SetNext

-----------------------------------------------------------------------------
(***************************************************************************)
(* BSTObjectArena.                                                         *)
(***************************************************************************)
LEMMA ArenaCardinality == \A S : Arena!Cardinality(S) = Cardinality(S)
  BY DEF Arena!Cardinality, Cardinality

\* Sequences of different things, one longer or shorter by an end.
LEMMA ApartAppend ==
  ASSUME NEW S, NEW s \in Seq(S), Apart(s), NEW e \in S, ~OnPath(e, s)
  PROVE  /\ Append(s, e) \in Seq(S) /\ Len(s) \in Nat /\ Len(Append(s, e)) = Len(s) + 1
         /\ \A i \in 1..Len(s) : Append(s, e)[i] = s[i]
         /\ Append(s, e)[Len(s) + 1] = e
         /\ Apart(Append(s, e))
         /\ \A n : OnPath(n, Append(s, e)) <=> OnPath(n, s) \/ n = e
<1> DEFINE t == Append(s, e)
<1>1. /\ t \in Seq(S) /\ Len(s) \in Nat /\ Len(t) = Len(s) + 1 /\ t[Len(s) + 1] = e
      /\ \A i \in 1..Len(s) : t[i] = s[i]
  BY AppendProperties, LenProperties
<1> HIDE DEF t
<1>2. Apart(t)
  <2> SUFFICES ASSUME NEW i \in 1..Len(t), NEW j \in 1..Len(t), t[i] = t[j] PROVE i = j
    BY DEF Apart
  <2>1. CASE i \in 1..Len(s) /\ j \in 1..Len(s)
    BY <1>1, <2>1 DEF Apart
  <2>2. CASE i \notin 1..Len(s) /\ j \notin 1..Len(s)
    BY <1>1, <2>2
  <2>3. CASE i \in 1..Len(s) /\ j \notin 1..Len(s)
    <3>1. j = Len(s) + 1 /\ s[i] = e
      BY <1>1, <2>3
    <3> QED
      BY <3>1, <2>3 DEF OnPath
  <2>4. CASE i \notin 1..Len(s) /\ j \in 1..Len(s)
    <3>1. i = Len(s) + 1 /\ s[j] = e
      BY <1>1, <2>4
    <3> QED
      BY <3>1, <2>4 DEF OnPath
  <2> QED
    BY <2>1, <2>2, <2>3, <2>4
<1>3. ASSUME NEW n PROVE OnPath(n, t) <=> OnPath(n, s) \/ n = e
  <2>1. ASSUME NEW i \in 1..Len(t), n = t[i] PROVE OnPath(n, s) \/ n = e
    <3>1. CASE i \in 1..Len(s)
      BY <1>1, <2>1, <3>1 DEF OnPath
    <3>2. CASE i \notin 1..Len(s)
      BY <1>1, <2>1, <3>2
    <3> QED
      BY <3>1, <3>2
  <2>2. ASSUME NEW i \in 1..Len(s), n = s[i] PROVE OnPath(n, t)
    <3>1. i \in 1..Len(t) /\ n = t[i]
      BY <1>1, <2>2
    <3> QED
      BY <3>1 DEF OnPath
  <2>3. Len(s) + 1 \in 1..Len(t)
    BY <1>1
  <2>4. n = e => OnPath(n, t)
    BY <1>1, <2>3 DEF OnPath
  <2> QED
    BY <2>1, <2>2, <2>4 DEF OnPath
<1> QED
  BY <1>1, <1>2, <1>3 DEF t

LEMMA ApartTail ==
  ASSUME NEW S, NEW s \in Seq(S), Apart(s), s # <<>>
  PROVE  /\ Tail(s) \in Seq(S) /\ Len(s) \in Nat \ {0} /\ Len(Tail(s)) = Len(s) - 1
         /\ \A i \in 1..(Len(s) - 1) : Tail(s)[i] = s[i + 1]
         /\ Apart(Tail(s))
         /\ \A n : OnPath(n, Tail(s)) <=> OnPath(n, s) /\ n # s[1]
<1> DEFINE t == Tail(s)
<1>1. /\ t \in Seq(S) /\ Len(s) \in Nat \ {0} /\ Len(t) = Len(s) - 1
      /\ \A i \in 1..Len(t) : t[i] = s[i + 1]
  BY HeadTailProperties, EmptySeq
<1> HIDE DEF t
<1>2. \A i \in 1..Len(t) : i + 1 \in 1..Len(s) /\ i + 1 # 1
  BY <1>1
<1>3. Apart(t)
  BY <1>1, <1>2 DEF Apart
<1>4. ASSUME NEW n PROVE OnPath(n, t) <=> OnPath(n, s) /\ n # s[1]
  <2>1. 1 \in 1..Len(s)
    BY <1>1
  <2>2. ASSUME NEW i \in 1..Len(t), n = t[i] PROVE OnPath(n, s) /\ n # s[1]
    BY <1>1, <1>2, <2>1, <2>2 DEF OnPath, Apart
  <2>3. ASSUME NEW i \in 1..Len(s), n = s[i], n # s[1] PROVE OnPath(n, t)
    <3>1. i - 1 \in 1..Len(t) /\ (i - 1) + 1 = i
      BY <1>1, <2>3
    <3>2. n = t[i - 1]
      BY <1>1, <2>3, <3>1
    <3> QED
      BY <3>1, <3>2 DEF OnPath
  <2> QED
    BY <2>2, <2>3 DEF OnPath
<1> QED
  BY <1>1, <1>3, <1>4 DEF t

LEMMA ApartCons ==
  ASSUME NEW S, NEW s \in Seq(S), Apart(s), NEW e \in S, ~OnPath(e, s)
  PROVE  /\ <<e>> \o s \in Seq(S) /\ Len(s) \in Nat /\ Len(<<e>> \o s) = Len(s) + 1
         /\ \A i \in 1..Len(s) : (<<e>> \o s)[i + 1] = s[i]
         /\ (<<e>> \o s)[1] = e
         /\ Apart(<<e>> \o s)
         /\ \A n : OnPath(n, <<e>> \o s) <=> OnPath(n, s) \/ n = e
<1> DEFINE u == <<e>>
           t == u \o s
<1>1. u \in Seq(S) /\ Len(u) = 1 /\ u[1] = e /\ Len(s) \in Nat
  BY LenProperties
<1> HIDE DEF u
<1>2. /\ t \in Seq(S) /\ Len(t) = 1 + Len(s)
      /\ \A i \in 1..(1 + Len(s)) : t[i] = IF i <= 1 THEN u[i] ELSE s[i - 1]
  <2>1. /\ t \in Seq(S) /\ Len(t) = Len(u) + Len(s)
        /\ \A i \in 1..(Len(u) + Len(s)) : t[i] = IF i <= Len(u) THEN u[i] ELSE s[i - Len(u)]
    BY <1>1, ConcatProperties
  <2> HIDE DEF t
  <2> QED
    BY <2>1, <1>1
<1> HIDE DEF t
<1>3. Len(t) = Len(s) + 1 /\ t[1] = e /\ \A i \in 2..Len(t) : t[i] = s[i - 1] /\ i - 1 \in 1..Len(s)
  <2>1. 1 \in 1..(1 + Len(s))
    BY <1>1
  <2>2. ASSUME NEW i \in 2..Len(t) PROVE t[i] = s[i - 1] /\ i - 1 \in 1..Len(s)
    <3>1. i \in 1..(1 + Len(s)) /\ ~(i <= 1) /\ i - 1 \in 1..Len(s)
      BY <1>1, <1>2
    <3> QED
      BY <3>1, <1>2
  <2> QED
    BY <1>1, <1>2, <2>1, <2>2
<1>4. ASSUME NEW i \in 1..Len(s) PROVE t[i + 1] = s[i] /\ i + 1 \in 1..Len(t)
  <2>1. i + 1 \in 2..Len(t) /\ (i + 1) - 1 = i /\ i + 1 \in 1..Len(t)
    BY <1>1, <1>3
  <2> QED
    BY <2>1, <1>3
<1>5. Apart(t)
  <2> SUFFICES ASSUME NEW i \in 1..Len(t), NEW j \in 1..Len(t), t[i] = t[j] PROVE i = j
    BY DEF Apart
  <2>0. \A k \in 1..Len(t) : k # 1 => k \in 2..Len(t)
    BY <1>1, <1>3
  <2>1. CASE i = 1 /\ j # 1
    BY <1>3, <2>0, <2>1 DEF OnPath
  <2>2. CASE i # 1 /\ j = 1
    BY <1>3, <2>0, <2>2 DEF OnPath
  <2>3. CASE i # 1 /\ j # 1
    <3>1. i - 1 = j - 1
      BY <1>3, <2>0, <2>3 DEF Apart
    <3> QED
      BY <3>1
  <2> QED
    BY <2>1, <2>2, <2>3
<1>6. ASSUME NEW n PROVE OnPath(n, t) <=> OnPath(n, s) \/ n = e
  <2>1. ASSUME NEW i \in 1..Len(t), n = t[i] PROVE OnPath(n, s) \/ n = e
    <3>1. CASE i = 1
      BY <1>3, <2>1, <3>1
    <3>2. CASE i # 1
      <4>1. i \in 2..Len(t)
        BY <1>1, <1>3, <3>2
      <4> QED
        BY <4>1, <1>3, <2>1 DEF OnPath
    <3> QED
      BY <3>1, <3>2
  <2>2. ASSUME NEW i \in 1..Len(s), n = s[i] PROVE OnPath(n, t)
    BY <1>4, <2>2 DEF OnPath
  <2>3. 1 \in 1..Len(t)
    BY <1>1, <1>3
  <2>4. n = e => OnPath(n, t)
    BY <1>3, <2>3 DEF OnPath
  <2> QED
    BY <2>1, <2>2, <2>4 DEF OnPath
<1> QED
  BY <1>1, <1>2, <1>3, <1>4, <1>5, <1>6 DEF t, u

\* The pages from "at" on are those of s, and the last of them has no successor.
Line(nx, at, s) ==
    /\ s \in Seq(Pages) /\ Apart(s)
    /\ at = After(s, 0)
    /\ \A i \in 1..Len(s) : nx[s[i]] = After(s, i)

LEMMA LineKept ==
  ASSUME NEW nx, NEW ny, NEW at, NEW s, Line(nx, at, s),
         \A p \in Pages : OnPath(p, s) => ny[p] = nx[p]
  PROVE  Line(ny, at, s)
<1>1. \A i \in 1..Len(s) : s[i] \in Pages
  BY ElementOfSeq DEF Line
<1> QED
  BY <1>1 DEF Line, OnPath

\* The first page is taken off.
LEMMA LineTail ==
  ASSUME NEW nx, NEW ny, NEW at, NEW s, Line(nx, at, s), at # NULL,
         \A p \in Pages : p # at => ny[p] = nx[p]
  PROVE  /\ s # <<>> /\ Len(s) \in Nat \ {0} /\ at = s[1] /\ at \in Pages
         /\ Line(ny, nx[at], Tail(s))
         /\ Len(Tail(s)) = Len(s) - 1
         /\ Len(s) = 1 => nx[at] = NULL /\ Tail(s) = <<>>
         /\ Len(s) > 1 => nx[at] = s[2] /\ Tail(s)[Len(s) - 1] = s[Len(s)]
         /\ \A n : OnPath(n, Tail(s)) <=> OnPath(n, s) /\ n # at
<1>1. s \in Seq(Pages) /\ Apart(s) /\ Len(s) \in Nat /\ Len(s) > 0 /\ at = s[1]
  <2>1. s \in Seq(Pages) /\ Apart(s) /\ Len(s) \in Nat /\ at = After(s, 0)
    BY LenProperties DEF Line
  <2> QED
    BY <2>1 DEF After
<1>2. s # <<>> /\ 1 \in 1..Len(s) /\ at \in Pages
  <2>1. 1 \in 1..Len(s) /\ s # <<>>
    BY <1>1, EmptySeq
  <2> QED
    BY <1>1, <2>1, ElementOfSeq
<1> DEFINE t == Tail(s)
<1>3. /\ t \in Seq(Pages) /\ Len(t) = Len(s) - 1 /\ Apart(t)
      /\ \A i \in 1..(Len(s) - 1) : t[i] = s[i + 1]
      /\ \A n : OnPath(n, t) <=> OnPath(n, s) /\ n # at
  BY <1>1, <1>2, ApartTail
<1> HIDE DEF t
<1>4. ASSUME NEW i \in 0..Len(t) PROVE After(t, i) = After(s, i + 1)
  <2>1. CASE i < Len(t)
    <3>1. i + 1 < Len(s) /\ i + 1 \in 1..(Len(s) - 1)
      BY <1>1, <1>3, <2>1
    <3> QED
      BY <2>1, <3>1, <1>3 DEF After
  <2>2. CASE ~(i < Len(t))
    <3>1. ~(i + 1 < Len(s))
      BY <1>1, <1>3, <2>2
    <3> QED
      BY <2>2, <3>1 DEF After
  <2> QED
    BY <2>1, <2>2
<1>5. nx[at] = After(t, 0)
  <2>1. nx[s[1]] = After(s, 1)
    BY <1>2 DEF Line
  <2>2. 0 \in 0..Len(t) /\ 0 + 1 = 1
    BY <1>1, <1>3
  <2>3. After(t, 0) = After(s, 1)
    BY <2>2, <1>4
  <2> QED
    BY <1>1, <2>1, <2>3
<1>6. ASSUME NEW i \in 1..Len(t) PROVE ny[t[i]] = After(t, i)
  <2>1. i + 1 \in 1..Len(s) /\ i \in 0..Len(t) /\ i \in 1..(Len(s) - 1) /\ i + 1 # 1
    BY <1>1, <1>3
  <2>2. t[i] = s[i + 1] /\ t[i] # at /\ t[i] \in Pages
    <3>1. t[i] = s[i + 1]
      BY <2>1, <1>3
    <3> QED
      BY <2>1, <3>1, <1>1, <1>2, ElementOfSeq DEF Apart
  <2>3. nx[s[i + 1]] = After(s, i + 1)
    BY <2>1 DEF Line
  <2> QED
    BY <2>1, <2>2, <2>3, <1>4
<1>7. Line(ny, nx[at], t)
  BY <1>3, <1>5, <1>6 DEF Line
<1>8. Len(s) = 1 => nx[at] = NULL /\ t = <<>>
  <2>1. Len(s) = 1 => Len(t) = 0
    BY <1>3
  <2>2. Len(s) = 1 => nx[at] = NULL
    BY <2>1, <1>5 DEF After
  <2> QED
    BY <2>1, <2>2, <1>3, EmptySeq
<1>9. Len(s) > 1 => nx[at] = s[2] /\ t[Len(s) - 1] = s[Len(s)]
  <2> SUFFICES ASSUME Len(s) > 1 PROVE nx[at] = s[2] /\ t[Len(s) - 1] = s[Len(s)]
    OBVIOUS
  <2>1. Len(t) > 0 /\ 1 \in 1..(Len(s) - 1) /\ Len(s) - 1 \in 1..(Len(s) - 1) /\ (Len(s) - 1) + 1 = Len(s)
    BY <1>1, <1>3
  <2>2. t[1] = s[2] /\ t[Len(s) - 1] = s[Len(s)]
    BY <2>1, <1>3
  <2> QED
    BY <2>1, <2>2, <1>5 DEF After
<1> QED
  BY <1>1, <1>2, <1>3, <1>7, <1>8, <1>9 DEF t

\* A page is put in front.
LEMMA LineCons ==
  ASSUME NEW nx, NEW ny, NEW at, NEW s, Line(nx, at, s), NEW p \in Pages, ~OnPath(p, s),
         \A q \in Pages : q # p => ny[q] = nx[q], ny[p] = at
  PROVE  /\ Line(ny, p, <<p>> \o s)
         /\ \A n : OnPath(n, <<p>> \o s) <=> OnPath(n, s) \/ n = p
<1> DEFINE t == <<p>> \o s
<1>1. /\ s \in Seq(Pages) /\ Apart(s) /\ Len(s) \in Nat
      /\ t \in Seq(Pages) /\ Len(t) = Len(s) + 1 /\ t[1] = p /\ Apart(t)
      /\ \A i \in 1..Len(s) : t[i + 1] = s[i]
      /\ \A n : OnPath(n, t) <=> OnPath(n, s) \/ n = p
  BY ApartCons DEF Line
<1> HIDE DEF t
<1>2. ASSUME NEW i \in 0..Len(s) PROVE After(t, i + 1) = After(s, i)
  <2>1. CASE i < Len(s)
    <3>1. i + 1 < Len(t) /\ i + 1 \in 1..Len(s)
      BY <1>1, <2>1
    <3> QED
      BY <2>1, <3>1, <1>1 DEF After
  <2>2. CASE ~(i < Len(s))
    <3>1. ~(i + 1 < Len(t))
      BY <1>1, <2>2
    <3> QED
      BY <2>2, <3>1 DEF After
  <2> QED
    BY <2>1, <2>2
<1>3. p = After(t, 0)
  BY <1>1 DEF After
<1>4. ASSUME NEW i \in 1..Len(t) PROVE ny[t[i]] = After(t, i)
  <2>1. CASE i = 1
    <3>1. 0 \in 0..Len(s) /\ 0 + 1 = 1
      BY <1>1
    <3>2. After(t, 1) = After(s, 0)
      BY <3>1, <1>2
    <3> QED
      BY <2>1, <3>2, <1>1 DEF Line
  <2>2. CASE i # 1
    <3>1. i - 1 \in 1..Len(s) /\ (i - 1) + 1 = i /\ i - 1 \in 0..Len(s)
      BY <1>1, <2>2
    <3>2. t[i] = s[i - 1] /\ After(t, i) = After(s, i - 1)
      BY <3>1, <1>1, <1>2
    <3>3. s[i - 1] \in Pages /\ s[i - 1] # p
      BY <3>1, <1>1, ElementOfSeq DEF OnPath
    <3>4. nx[s[i - 1]] = After(s, i - 1)
      BY <3>1 DEF Line
    <3> QED
      BY <3>2, <3>3, <3>4
  <2> QED
    BY <2>1, <2>2
<1> QED
  BY <1>1, <1>3, <1>4 DEF Line, t

\* A page is linked behind the last.
LastOf(s) == IF Len(s) = 0 THEN NULL ELSE s[Len(s)]
LinkedBehind(nx, z, p) ==
    IF z = NULL THEN [nx EXCEPT ![p] = NULL] ELSE [[nx EXCEPT ![p] = NULL] EXCEPT ![z] = p]

LEMMA LineAppend ==
  ASSUME NEW nx \in [Pages -> Pages \cup {NULL}], NEW at, NEW s, Line(nx, at, s),
         NEW p \in Pages, ~OnPath(p, s),
         NEW z, z = LastOf(s), NEW ny, ny = LinkedBehind(nx, z, p)
  PROVE  /\ z = NULL <=> Len(s) = 0
         /\ Line(ny, IF z = NULL THEN p ELSE at, Append(s, p))
         /\ Append(s, p)[Len(Append(s, p))] = p /\ Len(Append(s, p)) = Len(s) + 1
         /\ Len(s) \in Nat /\ \A i \in 1..Len(s) : Append(s, p)[i] = s[i]
         /\ \A n : OnPath(n, Append(s, p)) <=> OnPath(n, s) \/ n = p
         /\ ny \in [Pages -> Pages \cup {NULL}]
         /\ \A q \in Pages : q # p /\ q # z => ny[q] = nx[q]
         /\ z # NULL => ny[z] = p /\ OnPath(z, s)
<1> DEFINE t == Append(s, p)
<1>1. /\ s \in Seq(Pages) /\ Apart(s) /\ Len(s) \in Nat /\ at = After(s, 0)
      /\ t \in Seq(Pages) /\ Len(t) = Len(s) + 1 /\ t[Len(s) + 1] = p /\ Apart(t)
      /\ \A i \in 1..Len(s) : t[i] = s[i]
      /\ \A n : OnPath(n, t) <=> OnPath(n, s) \/ n = p
  <2>1. s \in Seq(Pages) /\ Apart(s) /\ at = After(s, 0)
    BY DEF Line
  <2> QED
    BY <2>1, ApartAppend
<1> HIDE DEF t
<1>2. \A i \in 1..Len(s) : s[i] \in Pages /\ s[i] # NULL /\ s[i] # p
  BY <1>1, ElementOfSeq, ArenaAssumption DEF OnPath
<1>z. z = IF Len(s) = 0 THEN NULL ELSE s[Len(s)]
  BY DEF LastOf
<1>n. ny = IF z = NULL THEN [nx EXCEPT ![p] = NULL] ELSE [[nx EXCEPT ![p] = NULL] EXCEPT ![z] = p]
  BY DEF LinkedBehind
<1>3. z = NULL <=> Len(s) = 0
  <2>1. Len(s) # 0 => Len(s) \in 1..Len(s)
    BY <1>1
  <2> QED
    BY <2>1, <1>2, <1>z
<1>4. ASSUME z # NULL
      PROVE  /\ z \in Pages /\ z # p /\ z = s[Len(s)] /\ Len(s) \in 1..Len(s)
             /\ \A i \in 1..Len(s) : s[i] = z => i = Len(s)
  <2>1. Len(s) \in 1..Len(s)
    BY <1>1, <1>3, <1>4
  <2>2. z = s[Len(s)]
    BY <1>3, <1>4, <1>z
  <2>3. \A i \in 1..Len(s) : s[i] = z => i = Len(s)
    BY <2>1, <2>2, <1>1 DEF Apart
  <2> QED
    BY <2>1, <2>2, <2>3, <1>2
<1>5. /\ ny \in [Pages -> Pages \cup {NULL}] /\ ny[p] = NULL
      /\ \A q \in Pages : q # p /\ q # z => ny[q] = nx[q]
      /\ z # NULL => ny[z] = p
  <2>1. CASE z = NULL
    BY <2>1, <1>n
  <2>2. CASE z # NULL
    BY <2>2, <1>4, <1>n
  <2> QED
    BY <2>1, <2>2
<1>6. (IF z = NULL THEN p ELSE at) = After(t, 0)
  <2>1. 0 < Len(t) /\ (Len(s) # 0 => 1 \in 1..Len(s) /\ 0 < Len(s))
    BY <1>1
  <2>2. CASE Len(s) = 0
    BY <1>1, <1>3, <2>1, <2>2 DEF After
  <2>3. CASE Len(s) # 0
    <3>1. After(t, 0) = t[1] /\ t[1] = s[1] /\ at = s[1]
      BY <1>1, <2>1, <2>3 DEF After
    <3> QED
      BY <3>1, <2>3, <1>3
  <2> QED
    BY <2>2, <2>3
<1>7. ASSUME NEW i \in 1..Len(t) PROVE ny[t[i]] = After(t, i)
  <2>1. CASE i = Len(s) + 1
    <3>1. ~(i < Len(t))
      BY <2>1, <1>1
    <3> QED
      BY <3>1, <2>1, <1>1, <1>5 DEF After
  <2>2. CASE i # Len(s) + 1
    <3>1. i \in 1..Len(s) /\ i < Len(t)
      BY <2>2, <1>1
    <3>2. After(t, i) = t[i + 1] /\ t[i] = s[i]
      BY <3>1, <1>1 DEF After
    <3>3. CASE i = Len(s)
      <4>1. z # NULL /\ s[i] = z
        BY <3>1, <3>3, <1>3, <1>1, <1>z
      <4> QED
        BY <4>1, <3>2, <3>3, <1>1, <1>5
    <3>4. CASE i # Len(s)
      <4>1. i < Len(s) /\ i + 1 \in 1..Len(s)
        BY <3>1, <3>4, <1>1
      <4>2. s[i] # z
        BY <3>1, <3>4, <1>2, <1>4
      <4>3. nx[s[i]] = s[i + 1]
        BY <3>1, <4>1 DEF Line, After
      <4> QED
        BY <3>1, <3>2, <4>1, <4>2, <4>3, <1>1, <1>2, <1>5
    <3> QED
      BY <3>3, <3>4
  <2> QED
    BY <2>1, <2>2
<1>8. z # NULL => OnPath(z, s)
  BY <1>4 DEF OnPath
<1> QED
  BY <1>1, <1>3, <1>5, <1>6, <1>7, <1>8 DEF Line, t

\* No page comes twice, so that a line is no longer than there are pages.
LEMMA LineIsShort ==
  ASSUME NEW s \in Seq(Pages), Apart(s)
  PROVE  Len(s) \in Nat /\ Cardinality(Pages) \in Nat /\ Len(s) <= Cardinality(Pages)
<1>1. Len(s) \in Nat /\ s \in [1..Len(s) -> Pages] /\ DOMAIN s = 1..Len(s)
  BY LenProperties
<1>2. s \in Injection(1..Len(s), Pages)
  BY <1>1 DEF Injection, IsInjective, Apart
<1>3. IsFiniteSet(Pages) /\ Cardinality(Pages) \in Nat
  BY ArenaAssumption, FS_CardinalityType
<1>4. Cardinality(1..Len(s)) <= Cardinality(Pages)
  BY <1>2, <1>3, FS_Injection
<1>5. Cardinality(1..Len(s)) = Len(s)
  BY <1>1, FS_Interval
<1> QED
  BY <1>1, <1>3, <1>4, <1>5

\* Following next from the first page of a line gives the line.
LEMMA ChainOfLine ==
  ASSUME NEW at, NEW s, Line(next, at, s)
  PROVE  Arena!Chain(at) = s
<1> DEFINE c == Arena!Cardinality(Pages) + 1
           Step(g, i) == IF i = 1 THEN at
                         ELSE IF g[i - 1] = NULL THEN NULL ELSE next[g[i - 1]]
           Run(g) == g = [i \in 1..c |-> Step(g, i)]
           met == CHOOSE g : Run(g)
           f == [i \in 1..c |-> IF i <= Len(s) THEN s[i] ELSE NULL]
<1>1. /\ Len(s) \in Nat /\ c \in Nat /\ Len(s) < c
      /\ \A i \in 1..Len(s) : s[i] \in Pages /\ s[i] # NULL
      /\ s \in Seq(Pages) /\ DOMAIN s = 1..Len(s)
  <2>1. s \in Seq(Pages)
    BY DEF Line
  <2>2. Len(s) \in Nat /\ Arena!Cardinality(Pages) \in Nat /\ Len(s) <= Arena!Cardinality(Pages)
    BY <2>1, LineIsShort, ArenaCardinality DEF Line
  <2>3. \A i \in 1..Len(s) : s[i] \in Pages
    BY <2>1, ElementOfSeq
  <2> QED
    BY <2>1, <2>2, <2>3, LenProperties, ArenaAssumption
<1> HIDE DEF c
<1>2. ASSUME NEW i \in 1..c PROVE f[i] = Step(f, i)
  <2>1. CASE i = 1
    BY <1>1, <2>1 DEF Line, After
  <2>2. CASE i # 1 /\ i - 1 <= Len(s)
    <3>1. i - 1 \in 1..Len(s) /\ i - 1 \in 1..c
      BY <1>1, <2>2
    <3>2. f[i - 1] = s[i - 1] /\ f[i - 1] # NULL
      BY <1>1, <3>1
    <3>3. next[s[i - 1]] = After(s, i - 1)
      BY <3>1 DEF Line
    <3>4. After(s, i - 1) = IF i <= Len(s) THEN s[i] ELSE NULL
      BY <1>1, <3>1 DEF After
    <3> HIDE DEF f
    <3>5. Step(f, i) = IF i <= Len(s) THEN s[i] ELSE NULL
      BY <2>2, <3>2, <3>3, <3>4
    <3> QED
      BY <3>5 DEF f
  <2>3. CASE i # 1 /\ i - 1 > Len(s)
    <3>1. i - 1 \in 1..c /\ ~(i <= Len(s)) /\ ~(i - 1 <= Len(s))
      BY <1>1, <2>3
    <3> QED
      BY <2>3, <3>1
  <2> QED
    BY <1>1, <2>1, <2>2, <2>3
<1>3. Run(met)
  <2>1. f = [i \in 1..c |-> f[i]]
    OBVIOUS
  <2> HIDE DEF f
  <2>2. Run(f)
    BY <1>2, <2>1
  <2> HIDE DEF Run
  <2> QED
    BY <2>2
<1> DEFINE wrong == {i \in 1..c : met[i] # f[i]}
<1> HIDE DEF met, f
<1>4. wrong = {}
  <2> SUFFICES ASSUME wrong # {} PROVE FALSE
    OBVIOUS
  <2>1. wrong \subseteq Nat
    BY <1>1
  <2>2. PICK i \in wrong : \A y \in wrong : i <= y
    <3> HIDE DEF wrong
    <3> QED
      BY <2>1, LeastExists
  <2>3. i \in 1..c /\ met[i] = Step(met, i) /\ f[i] = Step(f, i) /\ met[i] # f[i]
    BY <1>2, <1>3, <2>2
  <2>4. i # 1
    BY <2>3
  <2>5. i - 1 \in 1..c /\ ~(i <= i - 1)
    BY <1>1, <2>3, <2>4
  <2>6. met[i - 1] = f[i - 1]
    BY <2>2, <2>5
  <2> QED
    BY <2>3, <2>4, <2>6
<1>5. ASSUME NEW i \in 1..c PROVE met[i] = IF i <= Len(s) THEN s[i] ELSE NULL
  <2>1. met[i] = f[i]
    BY <1>4
  <2> QED
    BY <2>1 DEF f
<1>6. DOMAIN met = 1..c /\ \A i \in 1..Len(s) : i \in 1..c
  BY <1>1, <1>3
<1>7. {j \in DOMAIN met : met[j] # NULL} = 1..Len(s)
  BY <1>1, <1>5, <1>6
<1>8. Arena!Chain(at) = [i \in 1..Len(s) |-> s[i]]
  <2>1. Arena!Chain(at) = [i \in {j \in DOMAIN met : met[j] # NULL} |-> met[i]]
    BY DEF Arena!Chain, met, c
  <2>2. \A i \in 1..Len(s) : met[i] = s[i]
    BY <1>5, <1>6
  <2> QED
    BY <1>7, <2>1, <2>2
<1>9. s = [i \in 1..Len(s) |-> s[i]]
  BY <1>1, LenProperties
<1> QED
  BY <1>8, <1>9

\* The place behind one, in the same page or the next.
Behind(nx, at) ==
    IF at[2] + 1 = PageSize THEN <<nx[at[1]], 0>> ELSE <<at[1], at[2] + 1>>

\* w are the places from the first on, one behind the other, and _end is
\* the place behind the last of them.
Trail(w) ==
    /\ w \in Seq(Pages \X (0..(PageSize - 1))) /\ Len(w) = size /\ Apart(w)
    /\ size = 0 => first = last
    /\ size > 0 => first = w[1] /\ last = <<w[size][1], w[size][2] + 1>>
    /\ \A i \in 1..(size - 1) : w[i + 1] = Behind(next, w[i])

\* operator++ goes along the places.
LEMMA WalkIsTrail ==
  ASSUME NEW w, Trail(w)
  PROVE  /\ \A i \in 1..size : Arena!Walk[i] = w[i]
         /\ Arena!Walk[size + 1] = last
<1> DEFINE c == size + 1
           Step(g, i) == IF i = 1 THEN first ELSE Arena!Following(g[i - 1])
           Run(g) == g = [i \in 1..c |-> Step(g, i)]
           at == CHOOSE g : Run(g)
           f == [i \in 1..c |-> IF i <= size THEN w[i] ELSE last]
<1>1. /\ size \in Nat /\ c \in Nat /\ size < c /\ Len(w) = size
      /\ \A i \in 1..size : w[i] \in Pages \X (0..(PageSize - 1))
  <2>1. w \in Seq(Pages \X (0..(PageSize - 1))) /\ Len(w) = size
    BY DEF Trail
  <2>2. size \in Nat /\ \A i \in 1..size : w[i] \in Pages \X (0..(PageSize - 1))
    BY <2>1, LenProperties, ElementOfSeq
  <2> QED
    BY <2>1, <2>2
<1> HIDE DEF c
<1>2. ASSUME NEW i \in 1..size
      PROVE  Arena!Following(w[i]) = IF i + 1 <= size THEN w[i + 1] ELSE last
  <2>1. size \in 1..size /\ size > 0 /\ i <= size
    BY <1>1
  <2>2. last = <<w[size][1], w[size][2] + 1>>
    BY <2>1 DEF Trail
  <2>3. w[i][2] + 1 = PageSize => (<<w[i][1], PageSize>> = last <=> i = size)
    <3> SUFFICES ASSUME w[i][2] + 1 = PageSize PROVE <<w[i][1], PageSize>> = last <=> i = size
      OBVIOUS
    <3>1. ASSUME <<w[i][1], PageSize>> = last PROVE i = size
      <4>1. w[i][1] = w[size][1] /\ w[i][2] + 1 = w[size][2] + 1
        BY <2>2, <3>1
      <4>2. w[i] = w[size]
        BY <1>1, <2>1, <4>1
      <4> QED
        BY <4>2, <2>1, <1>1 DEF Trail, Apart
    <3>2. i = size => <<w[i][1], PageSize>> = last
      BY <2>2
    <3> QED
      BY <3>1, <3>2
  <2>4. CASE i = size
    <3>1. ~(i + 1 <= size)
      BY <1>1, <2>4
    <3> QED
      BY <2>2, <2>3, <2>4, <3>1 DEF Arena!Following
  <2>5. CASE i # size
    <3>1. i \in 1..(size - 1) /\ i + 1 <= size
      BY <1>1, <2>5
    <3>2. w[i + 1] = Behind(next, w[i])
      BY <3>1 DEF Trail
    <3> QED
      BY <2>3, <2>5, <3>1, <3>2 DEF Arena!Following, Behind
  <2> QED
    BY <2>4, <2>5
<1>3. ASSUME NEW i \in 1..c PROVE f[i] = Step(f, i)
  <2>1. CASE i = 1
    <3>1. CASE size = 0
      BY <2>1, <3>1 DEF Trail
    <3>2. CASE size # 0
      <4>1. 1 <= size /\ size > 0
        BY <1>1, <3>2
      <4> QED
        BY <2>1, <4>1 DEF Trail
    <3> QED
      BY <3>1, <3>2
  <2>2. CASE i # 1
    <3>1. i - 1 \in 1..c /\ i - 1 \in 1..size /\ (i - 1) + 1 = i /\ i - 1 <= size
      BY <1>1, <2>2 DEF c
    <3>2. f[i - 1] = w[i - 1]
      BY <3>1
    <3>3. f[i] = IF i <= size THEN w[i] ELSE last
      OBVIOUS
    <3> HIDE DEF f
    <3>4. Step(f, i) = Arena!Following(w[i - 1])
      BY <2>2, <3>2
    <3>5. Arena!Following(w[i - 1]) = IF (i - 1) + 1 <= size THEN w[(i - 1) + 1] ELSE last
      BY <3>1, <1>2
    <3> QED
      BY <3>1, <3>3, <3>4, <3>5
  <2> QED
    BY <2>1, <2>2
<1>4. Run(at)
  <2>1. f = [i \in 1..c |-> f[i]]
    OBVIOUS
  <2> HIDE DEF f
  <2>2. Run(f)
    BY <1>3, <2>1
  <2> HIDE DEF Run
  <2> QED
    BY <2>2
<1> DEFINE wrong == {i \in 1..c : at[i] # f[i]}
<1> HIDE DEF at, f
<1>5. wrong = {}
  <2> SUFFICES ASSUME wrong # {} PROVE FALSE
    OBVIOUS
  <2>1. wrong \subseteq Nat
    BY <1>1
  <2>2. PICK i \in wrong : \A y \in wrong : i <= y
    <3> HIDE DEF wrong
    <3> QED
      BY <2>1, LeastExists
  <2>3. i \in 1..c /\ at[i] = Step(at, i) /\ f[i] = Step(f, i) /\ at[i] # f[i]
    BY <1>3, <1>4, <2>2
  <2>4. i # 1
    BY <2>3
  <2>5. i - 1 \in 1..c /\ ~(i <= i - 1)
    BY <1>1, <2>3, <2>4
  <2>6. at[i - 1] = f[i - 1]
    BY <2>2, <2>5
  <2> QED
    BY <2>3, <2>4, <2>6
<1>6. ASSUME NEW i \in 1..c PROVE at[i] = IF i <= size THEN w[i] ELSE last
  <2>1. at[i] = f[i]
    BY <1>5
  <2> QED
    BY <2>1 DEF f
<1>7. Arena!Walk = at
  BY DEF Arena!Walk, at, c
<1>8. (\A i \in 1..size : i \in 1..c /\ i <= size) /\ size + 1 \in 1..c /\ ~(size + 1 <= size)
  BY <1>1 DEF c
<1> QED
  BY <1>6, <1>7, <1>8

\* The inductive invariant: the lists of pages are a, those in use, and f, those to
\* be used again, no page is in both; w are the places of the elements.
PagesLaid(a, f) ==
    /\ pages \subseteq Pages /\ next \in [Pages -> Pages \cup {NULL}]
    /\ Line(next, head, a) /\ Line(next, free, f)
    /\ \A p \in Pages : ~(OnPath(p, a) /\ OnPath(p, f))
    /\ \A p \in Pages : p \in pages <=> OnPath(p, a) \/ OnPath(p, f)
    /\ tail = nextAt /\ nextAt = LastOf(a)

Places == Pages \X (0..(PageSize - 1))

\* The elements are in the pages in use, from the first place to the last, and
\* nothing is anywhere else.
PlacesLive(a, w) ==
    /\ buffer \in [Pages -> [0..(PageSize - 1) -> Values \cup {Hole}]]
    /\ Trail(w)
    /\ \A i \in 1..size : /\ OnPath(w[i][1], a)
                          /\ w[i][1] = head => first[2] <= w[i][2]
                          /\ w[i][1] = tail => w[i][2] < last[2]
    /\ \A c \in Places : buffer[c[1]][c[2]] # Hole <=> OnPath(c, w)

EndsMeetPages(a) ==
    /\ Len(a) = 0 => first = Arena!Nowhere /\ last = Arena!Nowhere /\ size = 0
    /\ Len(a) > 0 => \E b \in 0..(PageSize - 1), e \in 1..PageSize : first = <<head, b>> /\ last = <<tail, e>>

ArenaLaid(a, f, w) == PagesLaid(a, f) /\ PlacesLive(a, w) /\ EndsMeetPages(a)

ArenaInv == \E a, f, w : ArenaLaid(a, f, w)

LEMMA LineEnds ==
  ASSUME NEW nx, NEW at, NEW s, Line(nx, at, s)
  PROVE  /\ s \in Seq(Pages) /\ Len(s) \in Nat
         /\ \A i \in 1..Len(s) : s[i] \in Pages /\ s[i] # NULL
         /\ at = NULL <=> Len(s) = 0
         /\ at = NULL <=> s = <<>>
         /\ at # NULL => at = s[1] /\ OnPath(at, s) /\ at \in Pages
<1>1. s \in Seq(Pages) /\ Len(s) \in Nat /\ at = After(s, 0)
  BY LenProperties DEF Line
<1>2. \A i \in 1..Len(s) : s[i] \in Pages /\ s[i] # NULL
  BY <1>1, ElementOfSeq, ArenaAssumption
<1>3. CASE Len(s) = 0
  BY <1>1, <1>2, <1>3, EmptySeq DEF After
<1>4. CASE Len(s) > 0
  <2>1. 1 \in 1..Len(s) /\ at = s[1]
    BY <1>1, <1>4 DEF After
  <2> QED
    BY <1>1, <1>2, <1>4, <2>1, EmptySeq DEF OnPath
<1> QED
  BY <1>1, <1>3, <1>4

LEMMA TrailTypes ==
  ASSUME NEW w, Trail(w)
  PROVE  /\ w \in Seq(Places) /\ Len(w) = size /\ size \in Nat
         /\ \A i \in 1..size : w[i] \in Places /\ w[i][1] \in Pages /\ w[i][2] \in 0..(PageSize - 1)
                               /\ w[i] = <<w[i][1], w[i][2]>>
<1>1. w \in Seq(Places) /\ Len(w) = size /\ size \in Nat
  BY LenProperties DEF Trail, Places
<1>2. \A i \in 1..size : w[i] \in Places
  BY <1>1, ElementOfSeq
<1> QED
  BY <1>1, <1>2 DEF Places

\* What the elements of the arena are.
Stored(buf, w) == [i \in 1..Len(w) |-> buf[w[i][1]][w[i][2]]]

LEMMA ElementsAreStored == \A w : Trail(w) => Arena!Elements = Stored(buffer, w)
<1> SUFFICES ASSUME NEW w, Trail(w) PROVE Arena!Elements = Stored(buffer, w)
  OBVIOUS
<1>1. Len(w) = size /\ \A i \in 1..size : Arena!Walk[i] = w[i]
  BY WalkIsTrail, TrailTypes
<1> QED
  BY <1>1 DEF Arena!Elements, Stored

LEMMA ElementsAreStoredNext == \A w : Trail(w)' => Arena!Elements' = Stored(buffer', w)
<1>1. (\A w : Trail(w) => Arena!Elements = Stored(buffer, w))'
  BY ElementsAreStored, PTL
<1> QED
  BY <1>1 DEF Stored

\* Every element is stored in a live place.
LEMMA PagesAccountedFor ==
  ASSUME NEW a, NEW f, NEW w, ArenaLaid(a, f, w)
  PROVE  Arena!PagesAccounted
<1>1. /\ Line(next, head, a) /\ Line(next, free, f)
      /\ \A p \in Pages : ~(OnPath(p, a) /\ OnPath(p, f))
      /\ \A p \in Pages : p \in pages <=> OnPath(p, a) \/ OnPath(p, f)
      /\ pages \subseteq Pages /\ Trail(w)
      /\ tail = nextAt /\ nextAt = IF Len(a) = 0 THEN NULL ELSE a[Len(a)]
  BY DEF ArenaLaid, PagesLaid, PlacesLive, LastOf
<1>2. Arena!Chain(head) = a /\ Arena!Chain(free) = f
  BY <1>1, ChainOfLine
<1>3. /\ a \in Seq(Pages) /\ f \in Seq(Pages) /\ Len(a) \in Nat /\ Apart(a) /\ Apart(f)
      /\ \A i \in 1..Len(a) : a[i] \in Pages
      /\ \A i \in 1..Len(f) : f[i] \in Pages
      /\ DOMAIN a = 1..Len(a) /\ DOMAIN f = 1..Len(f)
  <2>1. a \in Seq(Pages) /\ f \in Seq(Pages) /\ Apart(a) /\ Apart(f)
    BY <1>1 DEF Line
  <2> QED
    BY <2>1, <1>1, LineEnds, LenProperties
<1>4. /\ \A p : p \in Arena!Range(a) <=> OnPath(p, a)
      /\ \A p : p \in Arena!Range(f) <=> OnPath(p, f)
  BY <1>3 DEF Arena!Range, OnPath
<1>5. /\ \A p \in Arena!Range(a) : p \in Pages
      /\ \A p \in Arena!Range(f) : p \in Pages
  BY <1>3, <1>4 DEF OnPath
<1>6. pages = Arena!Range(a) \cup Arena!Range(f) /\ Arena!Range(a) \cap Arena!Range(f) = {}
  BY <1>1, <1>4, <1>5
<1>7. Arena!IsInjective(a) /\ Arena!IsInjective(f)
  BY <1>3 DEF Arena!IsInjective, Apart
<1>8. /\ Len(w) = size /\ size \in Nat
      /\ \A i \in 1..size : w[i] \in Places
      /\ \A i \in 1..size : Arena!Walk[i] = w[i]
      /\ Arena!Walk[size + 1] = last
  BY <1>1, WalkIsTrail, TrailTypes
<1>9. \A i \in 1..size : w[i] # last
  <2> SUFFICES ASSUME NEW i \in 1..size, w[i] = last PROVE FALSE
    OBVIOUS
  <2>1. size # 0
    BY <1>8
  <2>2. Len(a) > 0
    BY <2>1, <1>3 DEF ArenaLaid, EndsMeetPages
  <2>3. PICK b \in 0..(PageSize - 1), e \in 1..PageSize : first = <<head, b>> /\ last = <<tail, e>>
    BY <2>2 DEF ArenaLaid, EndsMeetPages
  <2>4. w[i][1] = tail /\ w[i][2] = e /\ last[2] = e
    BY <2>3
  <2>5. w[i][1] = tail => w[i][2] < last[2]
    BY DEF ArenaLaid, PlacesLive
  <2> QED
    BY <2>4, <2>5, <2>3, ArenaAssumption
<1>10. \A i \in 1..(size + 1) : Arena!Walk[i] = last <=> i = size + 1
  <2>1. \A i \in 1..(size + 1) : i # size + 1 => i \in 1..size
    BY <1>8
  <2> QED
    BY <2>1, <1>8, <1>9
<1>11. \A i \in 1..size : Arena!Walk[i][1] \in Arena!Range(a)
  BY <1>4, <1>8 DEF ArenaLaid, PlacesLive
<1>12. \A p \in Pages, i \in 0..(PageSize - 1) :
          buffer[p][i] # Hole <=> \E k \in 1..size : Arena!Walk[k] = <<p, i>>
  <2> SUFFICES ASSUME NEW p \in Pages, NEW i \in 0..(PageSize - 1)
               PROVE  buffer[p][i] # Hole <=> \E k \in 1..size : Arena!Walk[k] = <<p, i>>
    OBVIOUS
  <2>1. <<p, i>> \in Places /\ <<p, i>>[1] = p /\ <<p, i>>[2] = i
    BY DEF Places
  <2>2. buffer[p][i] # Hole <=> OnPath(<<p, i>>, w)
    BY <2>1 DEF ArenaLaid, PlacesLive
  <2> QED
    BY <2>2, <1>8 DEF OnPath
<1>13. IF a = <<>> THEN tail = NULL /\ nextAt = NULL ELSE tail = Arena!Last(a) /\ nextAt = tail
  <2>1. a = <<>> <=> Len(a) = 0
    BY <1>1, LineEnds
  <2> QED
    BY <2>1, <1>1 DEF Arena!Last
<1> QED
  BY <1>2, <1>6, <1>7, <1>10, <1>11, <1>12, <1>13 DEF Arena!PagesAccounted

-----------------------------------------------------------------------------
(* emplace_back.                                                            *)

\* A page is linked behind the last one in use, and is not to be used again.
LEMMA LinkPageLays ==
  ASSUME NEW a, NEW f, PagesLaid(a, f), NEW p \in Pages, Arena!LinkPage(p),
         NEW g, g = IF free = NULL THEN f ELSE Tail(f)
  PROVE  /\ ~OnPath(p, a) /\ a \in Seq(Pages) /\ Len(a) \in Nat
         /\ PagesLaid(Append(a, p), g)'
         /\ Append(a, p) \in Seq(Pages) /\ Len(Append(a, p)) = Len(a) + 1
         /\ head' = IF Len(a) = 0 THEN p ELSE head
         /\ tail' = p /\ (Len(a) = 0 <=> tail = NULL)
         /\ \A n : OnPath(n, Append(a, p)) <=> OnPath(n, a) \/ n = p
         /\ \A q \in Pages : q # p /\ q # tail => next'[q] = next[q]
         /\ tail # NULL => next'[tail] = p
<1> DEFINE b == Append(a, p)
<1>1. /\ pages \subseteq Pages /\ next \in [Pages -> Pages \cup {NULL}]
      /\ Line(next, head, a) /\ Line(next, free, f)
      /\ \A q \in Pages : ~(OnPath(q, a) /\ OnPath(q, f))
      /\ \A q \in Pages : q \in pages <=> OnPath(q, a) \/ OnPath(q, f)
      /\ tail = nextAt /\ nextAt = LastOf(a)
  BY DEF PagesLaid
<1>2. /\ Arena!PageFrom(p) /\ pages' = pages \cup {p}
      /\ free' = IF free = NULL THEN NULL ELSE next[free]
      /\ next' = Arena!Linked(p)
      /\ head' = (IF nextAt = NULL THEN p ELSE head) /\ nextAt' = p /\ tail' = p
  BY DEF Arena!LinkPage
<1>3. free # NULL => p = free /\ OnPath(p, f)
  BY <1>1, <1>2, LineEnds DEF Arena!PageFrom
<1>4. free = NULL => p \notin pages /\ f = <<>>
  BY <1>1, <1>2, LineEnds DEF Arena!PageFrom
<1>5. ~OnPath(p, a)
  BY <1>1, <1>3, <1>4
<1>6. next' = LinkedBehind(next, nextAt, p)
  BY <1>2 DEF Arena!Linked, LinkedBehind
<1>7. /\ nextAt = NULL <=> Len(a) = 0
      /\ Line(next', IF nextAt = NULL THEN p ELSE head, b)
      /\ b[Len(b)] = p /\ Len(b) = Len(a) + 1 /\ Len(a) \in Nat
      /\ \A n : OnPath(n, b) <=> OnPath(n, a) \/ n = p
      /\ next' \in [Pages -> Pages \cup {NULL}]
      /\ \A q \in Pages : q # p /\ q # nextAt => next'[q] = next[q]
      /\ nextAt # NULL => next'[nextAt] = p /\ OnPath(nextAt, a)
  <2>1. nextAt = LastOf(a)
    BY <1>1
  <2>2. next \in [Pages -> Pages \cup {NULL}] /\ Line(next, head, a)
    BY <1>1
  <2>3. /\ nextAt = NULL <=> Len(a) = 0
        /\ Line(next', IF nextAt = NULL THEN p ELSE head, Append(a, p))
        /\ Append(a, p)[Len(Append(a, p))] = p /\ Len(Append(a, p)) = Len(a) + 1
        /\ Len(a) \in Nat /\ \A i \in 1..Len(a) : Append(a, p)[i] = a[i]
        /\ \A n : OnPath(n, Append(a, p)) <=> OnPath(n, a) \/ n = p
        /\ next' \in [Pages -> Pages \cup {NULL}]
        /\ \A q \in Pages : q # p /\ q # nextAt => next'[q] = next[q]
        /\ nextAt # NULL => next'[nextAt] = p /\ OnPath(nextAt, a)
    BY <2>1, <2>2, <1>5, <1>6, LineAppend
  <2> QED
    BY <2>3
<1> HIDE DEF b
<1>8. /\ Line(next', free', g)
      /\ \A n : OnPath(n, g) <=> OnPath(n, f) /\ n # p
  <2>1. CASE free = NULL
    <3>1. \A q \in Pages : OnPath(q, f) => q # p /\ q # nextAt
      BY <1>1, <1>4, <1>7, <2>1
    <3>2. Line(next', free, f)
      BY <3>1, <1>1, <1>7, LineKept
    <3>3. ~OnPath(p, f)
      BY <1>1, <1>4, <2>1
    <3> QED
      BY <3>2, <3>3, <1>2, <2>1
  <2>2. CASE free # NULL
    <3>1. Line(next, next[free], Tail(f)) /\ \A n : OnPath(n, Tail(f)) <=> OnPath(n, f) /\ n # free
      <4>1. \A q \in Pages : q # free => next[q] = next[q]
        OBVIOUS
      <4> QED
        BY <4>1, <1>1, <2>2, LineTail
    <3>2. \A q \in Pages : OnPath(q, Tail(f)) => q # p /\ q # nextAt
      <4> SUFFICES ASSUME NEW q \in Pages, OnPath(q, Tail(f)) PROVE q # p /\ q # nextAt
        OBVIOUS
      <4>1. OnPath(q, f) /\ q # free /\ ~OnPath(q, a) /\ q # NULL
        BY <3>1, <1>1, ArenaAssumption
      <4> QED
        BY <4>1, <1>3, <1>7, <2>2
    <3>3. Line(next', next[free], Tail(f))
      BY <3>1, <3>2, <1>7, LineKept
    <3> QED
      BY <3>1, <3>3, <1>2, <1>3, <2>2
  <2> QED
    BY <2>1, <2>2
<1>9. \A q \in Pages : ~(OnPath(q, b) /\ OnPath(q, g))
  BY <1>1, <1>7, <1>8
<1>10. \A q \in Pages : q \in pages' <=> OnPath(q, b) \/ OnPath(q, g)
  BY <1>1, <1>2, <1>3, <1>4, <1>7, <1>8
<1>11. PagesLaid(b, g)'
  <2>1. pages' \subseteq Pages
    BY <1>1, <1>2
  <2>2. Line(next', head', b)
    BY <1>2, <1>7
  <2>3. Len(b) # 0
    BY <1>7
  <2> QED
    BY <2>1, <2>2, <2>3, <1>2, <1>7, <1>8, <1>9, <1>10 DEF PagesLaid, LastOf
<1>12. a \in Seq(Pages) /\ b \in Seq(Pages)
  BY <1>1, <1>7 DEF Line
<1> QED
  BY <1>1, <1>2, <1>5, <1>7, <1>11, <1>12 DEF b

Written(buf, p, o, x) == [buf EXCEPT ![p][o] = x]

LEMMA BufferPut ==
  ASSUME NEW buf \in [Pages -> [0..(PageSize - 1) -> Values \cup {Hole}]],
         NEW p \in Pages, NEW o \in 0..(PageSize - 1), NEW x \in Values \cup {Hole}
  PROVE  /\ Written(buf, p, o, x) \in [Pages -> [0..(PageSize - 1) -> Values \cup {Hole}]]
         /\ Written(buf, p, o, x)[p][o] = x
         /\ \A q \in Pages : q # p => Written(buf, p, o, x)[q] = buf[q]
         /\ \A i \in 0..(PageSize - 1) : i # o => Written(buf, p, o, x)[p][i] = buf[p][i]
<1> DEFINE R == 0..(PageSize - 1)
           V == Values \cup {Hole}
           row == [buf[p] EXCEPT ![o] = x]
<1>1. row \in [R -> V] /\ row[o] = x /\ \A i \in R : i # o => row[i] = buf[p][i]
  OBVIOUS
<1>2. Written(buf, p, o, x) = [buf EXCEPT ![p] = row]
  BY DEF Written
<1> HIDE DEF R, V, row
<1>3. buf \in [Pages -> [R -> V]]
  BY DEF R, V
<1>4. /\ [buf EXCEPT ![p] = row] \in [Pages -> [R -> V]] /\ [buf EXCEPT ![p] = row][p] = row
      /\ \A q \in Pages : q # p => [buf EXCEPT ![p] = row][q] = buf[q]
  BY <1>1, <1>3
<1> QED
  BY <1>1, <1>2, <1>4 DEF R, V

\* The elements stored when one is stored in a place where none is.
LEMMA StoredMore ==
  ASSUME NEW w \in Seq(Places), NEW c \in Places, ~OnPath(c, w), Apart(w), NEW v \in Values,
         NEW buf \in [Pages -> [0..(PageSize - 1) -> Values \cup {Hole}]],
         NEW buf2, buf2 = Written(buf, c[1], c[2], v),
         \A d \in Places : buf[d[1]][d[2]] # Hole <=> OnPath(d, w)
  PROVE  /\ Stored(buf2, Append(w, c)) = Append(Stored(buf, w), v)
         /\ buf2 \in [Pages -> [0..(PageSize - 1) -> Values \cup {Hole}]]
         /\ \A d \in Places : buf2[d[1]][d[2]] # Hole <=> OnPath(d, Append(w, c))
<1> DEFINE V == Values \cup {Hole}
           u == Append(w, c)
           s == Stored(buf, w)
<1>1. c[1] \in Pages /\ c[2] \in 0..(PageSize - 1) /\ c = <<c[1], c[2]>>
  BY DEF Places
<1>2. /\ u \in Seq(Places) /\ Len(w) \in Nat /\ Len(u) = Len(w) + 1
      /\ \A i \in 1..Len(w) : u[i] = w[i]
      /\ u[Len(w) + 1] = c
      /\ \A n : OnPath(n, u) <=> OnPath(n, w) \/ n = c
  BY ApartAppend
<1> HIDE DEF u
<1>3. /\ buf2 \in [Pages -> [0..(PageSize - 1) -> V]]
      /\ buf2[c[1]][c[2]] = v
      /\ \A d \in Places : d # c => buf2[d[1]][d[2]] = buf[d[1]][d[2]]
  <2>1. buf2 \in [Pages -> [0..(PageSize - 1) -> V]] /\ buf2[c[1]][c[2]] = v
    BY <1>1, BufferPut
  <2>2. ASSUME NEW d \in Places, d # c PROVE buf2[d[1]][d[2]] = buf[d[1]][d[2]]
    <3>1. d = <<d[1], d[2]>> /\ d[1] \in Pages /\ d[2] \in 0..(PageSize - 1)
      BY DEF Places
    <3>2. d[1] # c[1] \/ d[2] # c[2]
      BY <1>1, <2>2, <3>1
    <3>3. CASE d[1] # c[1]
      BY <1>1, <3>1, <3>3, BufferPut
    <3>4. CASE d[1] = c[1] /\ d[2] # c[2]
      BY <1>1, <3>1, <3>4, BufferPut
    <3> QED
      BY <3>2, <3>3, <3>4
  <2> QED
    BY <2>1, <2>2
<1>4. \A d \in Places : buf2[d[1]][d[2]] # Hole <=> OnPath(d, u)
  <2>1. v # Hole
    BY ArenaAssumption
  <2> QED
    BY <2>1, <1>2, <1>3
<1>5. \A i \in 1..Len(w) : w[i] \in Places /\ w[i] # c /\ w[i][1] \in Pages /\ w[i][2] \in 0..(PageSize - 1)
  <2>1. \A i \in 1..Len(w) : w[i] \in Places
    BY ElementOfSeq
  <2> QED
    BY <2>1 DEF OnPath, Places
<1>6. s \in Seq(V) /\ Len(s) = Len(w) /\ \A i \in 1..Len(w) : s[i] = buf[w[i][1]][w[i][2]]
  <2>1. s \in [1..Len(w) -> V]
    BY <1>5 DEF Stored
  <2>2. \A i \in 1..Len(w) : s[i] = buf[w[i][1]][w[i][2]]
    BY DEF Stored
  <2> HIDE DEF s
  <2> QED
    BY <2>1, <2>2, <1>2, FunctionIsSeq
<1> HIDE DEF s
<1> DEFINE t == Append(s, v)
           r == Stored(buf2, u)
<1>7. t \in Seq(V) /\ Len(t) = Len(w) + 1 /\ t[Len(w) + 1] = v /\ \A i \in 1..Len(w) : t[i] = s[i]
  <2>1. v \in V
    OBVIOUS
  <2>2. t \in Seq(V) /\ Len(t) = Len(s) + 1 /\ t[Len(s) + 1] = v /\ \A i \in 1..Len(s) : t[i] = s[i]
    BY <2>1, <1>6, AppendProperties
  <2> HIDE DEF t
  <2> QED
    BY <2>2, <1>6
<1>8. ASSUME NEW i \in 1..Len(u) PROVE buf2[u[i][1]][u[i][2]] = t[i]
  <2> HIDE DEF t
  <2>1. CASE i = Len(w) + 1
    BY <2>1, <1>2, <1>3, <1>7
  <2>2. CASE i # Len(w) + 1
    <3>1. i \in 1..Len(w)
      BY <2>2, <1>2
    <3>2. u[i] = w[i] /\ t[i] = buf[w[i][1]][w[i][2]]
      BY <3>1, <1>2, <1>6, <1>7
    <3> QED
      BY <3>1, <3>2, <1>3, <1>5
  <2> QED
    BY <2>1, <2>2
<1>9. r = t
  <2>1. t = [i \in 1..Len(u) |-> t[i]]
    <3> HIDE DEF t
    <3> QED
      BY <1>2, <1>7, LenProperties
  <2> HIDE DEF t
  <2> QED
    BY <2>1, <1>8 DEF Stored
<1> QED
  BY <1>3, <1>4, <1>9 DEF u, s

\* The elements stored when the first of them is destroyed.
LEMMA StoredLess ==
  ASSUME NEW w \in Seq(Places), w # <<>>, Apart(w),
         NEW buf \in [Pages -> [0..(PageSize - 1) -> Values \cup {Hole}]],
         NEW buf2, buf2 = Written(buf, w[1][1], w[1][2], Hole),
         \A d \in Places : buf[d[1]][d[2]] # Hole <=> OnPath(d, w)
  PROVE  /\ Stored(buf2, Tail(w)) = Tail(Stored(buf, w)) /\ Stored(buf, w) # <<>>
         /\ buf2 \in [Pages -> [0..(PageSize - 1) -> Values \cup {Hole}]]
         /\ \A d \in Places : buf2[d[1]][d[2]] # Hole <=> OnPath(d, Tail(w))
<1> DEFINE V == Values \cup {Hole}
           u == Tail(w)
           s == Stored(buf, w)
           c == w[1]
<1>1. /\ u \in Seq(Places) /\ Len(w) \in Nat \ {0} /\ Len(u) = Len(w) - 1
      /\ \A i \in 1..(Len(w) - 1) : u[i] = w[i + 1]
      /\ \A n : OnPath(n, u) <=> OnPath(n, w) /\ n # c
  BY ApartTail
<1> HIDE DEF u
<1>2. c \in Places /\ c[1] \in Pages /\ c[2] \in 0..(PageSize - 1) /\ c = <<c[1], c[2]>>
  <2>1. c \in Places
    BY <1>1, ElementOfSeq
  <2> QED
    BY <2>1 DEF Places
<1>3. \A i \in 1..Len(w) : w[i] \in Places /\ w[i][1] \in Pages /\ w[i][2] \in 0..(PageSize - 1)
                           /\ (i # 1 => w[i] # c)
  <2>1. \A i \in 1..Len(w) : w[i] \in Places
    BY ElementOfSeq
  <2>2. \A i \in 1..Len(w) : i # 1 => w[i] # w[1]
    BY <1>1 DEF Apart
  <2> QED
    BY <2>1, <2>2 DEF Places
<1> HIDE DEF c
<1>4. /\ buf2 \in [Pages -> [0..(PageSize - 1) -> V]]
      /\ buf2[c[1]][c[2]] = Hole
      /\ \A d \in Places : d # c => buf2[d[1]][d[2]] = buf[d[1]][d[2]]
  <2>0. buf2 = Written(buf, c[1], c[2], Hole)
    BY DEF c
  <2>1. buf2 \in [Pages -> [0..(PageSize - 1) -> V]] /\ buf2[c[1]][c[2]] = Hole
    <3>1. Hole \in Values \cup {Hole}
      OBVIOUS
    <3> QED
      BY <3>1, <1>2, <2>0, BufferPut
  <2>2. ASSUME NEW d \in Places, d # c PROVE buf2[d[1]][d[2]] = buf[d[1]][d[2]]
    <3>1. d = <<d[1], d[2]>> /\ d[1] \in Pages /\ d[2] \in 0..(PageSize - 1)
      BY DEF Places
    <3>2. d[1] # c[1] \/ d[2] # c[2]
      BY <1>2, <2>2, <3>1
    <3>3. CASE d[1] # c[1]
      BY <1>2, <2>0, <3>1, <3>3, BufferPut
    <3>4. CASE d[1] = c[1] /\ d[2] # c[2]
      BY <1>2, <2>0, <3>1, <3>4, BufferPut
    <3> QED
      BY <3>2, <3>3, <3>4
  <2> QED
    BY <2>1, <2>2
<1>5. \A d \in Places : buf2[d[1]][d[2]] # Hole <=> OnPath(d, u)
  BY <1>1, <1>4
<1>6. s \in Seq(V) /\ Len(s) = Len(w) /\ \A i \in 1..Len(w) : s[i] = buf[w[i][1]][w[i][2]]
  <2>1. s \in [1..Len(w) -> V]
    BY <1>3 DEF Stored
  <2>2. \A i \in 1..Len(w) : s[i] = buf[w[i][1]][w[i][2]]
    BY DEF Stored
  <2> HIDE DEF s
  <2> QED
    BY <2>1, <2>2, <1>1, FunctionIsSeq
<1> HIDE DEF s
<1>7. s # <<>>
  BY <1>1, <1>6, EmptySeq
<1> DEFINE t == Tail(s)
           r == Stored(buf2, u)
<1>8. t \in Seq(V) /\ Len(t) = Len(w) - 1 /\ \A i \in 1..(Len(w) - 1) : t[i] = s[i + 1]
  <2>1. t \in Seq(V) /\ Len(t) = Len(s) - 1 /\ \A i \in 1..Len(t) : t[i] = s[i + 1]
    BY <1>6, <1>7, HeadTailProperties
  <2> HIDE DEF t
  <2> QED
    BY <2>1, <1>6
<1> HIDE DEF t
<1>9. ASSUME NEW i \in 1..Len(u) PROVE buf2[u[i][1]][u[i][2]] = t[i]
  <2>1. i \in 1..(Len(w) - 1) /\ i + 1 \in 1..Len(w) /\ i + 1 # 1
    BY <1>1
  <2>2. u[i] = w[i + 1] /\ t[i] = buf[w[i + 1][1]][w[i + 1][2]]
    BY <2>1, <1>1, <1>6, <1>8
  <2> QED
    BY <2>1, <2>2, <1>3, <1>4
<1>10. r = t
  <2>1. t = [i \in 1..Len(u) |-> t[i]]
    BY <1>1, <1>8, LenProperties
  <2> QED
    BY <2>1, <1>9 DEF Stored
<1> QED
  BY <1>4, <1>5, <1>7, <1>10 DEF u, s, t

-----------------------------------------------------------------------------
(* The places of the elements.                                              *)
LEMMA ArenaFacts ==
  ASSUME NEW a, NEW f, NEW w, ArenaLaid(a, f, w)
  PROVE  /\ a \in Seq(Pages) /\ Len(a) \in Nat /\ Line(next, head, a) /\ Line(next, free, f)
         /\ tail = NULL <=> Len(a) = 0
         /\ head = NULL <=> Len(a) = 0
         /\ first = Arena!Nowhere <=> Len(a) = 0
         /\ w \in Seq(Places) /\ Len(w) = size /\ size \in Nat /\ Apart(w) /\ Trail(w)
         /\ \A i \in 1..size : w[i] \in Places /\ w[i][1] \in Pages /\ w[i][2] \in 0..(PageSize - 1)
                               /\ w[i] = <<w[i][1], w[i][2]>> /\ OnPath(w[i][1], a)
         /\ size > 0 => Len(a) > 0
         /\ Len(a) > 0 => /\ head = a[1] /\ tail = a[Len(a)]
                          /\ head \in Pages /\ tail \in Pages
                          /\ OnPath(tail, a) /\ OnPath(head, a)
                          /\ first = <<head, first[2]>> /\ first[2] \in 0..(PageSize - 1)
                          /\ last = <<tail, last[2]>> /\ last[2] \in 1..PageSize
                          /\ next[tail] = NULL /\ nextAt = tail
<1>1. PagesLaid(a, f) /\ PlacesLive(a, w) /\ EndsMeetPages(a)
  BY DEF ArenaLaid
<1>2. /\ Line(next, head, a) /\ Line(next, free, f) /\ tail = nextAt
      /\ nextAt = IF Len(a) = 0 THEN NULL ELSE a[Len(a)]
  BY <1>1 DEF PagesLaid, LastOf
<1>3. /\ a \in Seq(Pages) /\ Len(a) \in Nat
      /\ \A i \in 1..Len(a) : a[i] \in Pages /\ a[i] # NULL
      /\ head = NULL <=> Len(a) = 0
      /\ head # NULL => head = a[1] /\ OnPath(head, a) /\ head \in Pages
  BY <1>2, LineEnds
<1>4. /\ Trail(w) /\ w \in Seq(Places) /\ Len(w) = size /\ size \in Nat /\ Apart(w)
      /\ \A i \in 1..size : w[i] \in Places /\ w[i][1] \in Pages /\ w[i][2] \in 0..(PageSize - 1)
                            /\ w[i] = <<w[i][1], w[i][2]>>
  <2>1. Trail(w)
    BY <1>1 DEF PlacesLive
  <2> QED
    BY <2>1, TrailTypes DEF Trail
<1>5. \A i \in 1..size : OnPath(w[i][1], a)
  BY <1>1 DEF PlacesLive
<1>6. ASSUME Len(a) > 0
      PROVE  /\ tail = a[Len(a)] /\ tail \in Pages /\ OnPath(tail, a) /\ next[tail] = NULL
             /\ first = <<head, first[2]>> /\ first[2] \in 0..(PageSize - 1)
             /\ last = <<tail, last[2]>> /\ last[2] \in 1..PageSize
  <2>1. Len(a) \in 1..Len(a) /\ ~(Len(a) < Len(a))
    BY <1>3, <1>6
  <2>2. tail = a[Len(a)]
    BY <1>2, <1>6
  <2>3. next[tail] = NULL
    BY <2>1, <2>2, <1>2 DEF Line, After
  <2>4. PICK b \in 0..(PageSize - 1), e \in 1..PageSize : first = <<head, b>> /\ last = <<tail, e>>
    BY <1>1, <1>6 DEF EndsMeetPages
  <2> QED
    BY <2>1, <2>2, <2>3, <2>4, <1>3 DEF OnPath
<1>7. tail = NULL <=> Len(a) = 0
  BY <1>2, <1>3, <1>6, ArenaAssumption
<1>8. first = Arena!Nowhere <=> Len(a) = 0
  <2>1. Len(a) = 0 => first = Arena!Nowhere
    BY <1>1 DEF EndsMeetPages
  <2>2. Len(a) > 0 => first # Arena!Nowhere
    BY <1>3, <1>6 DEF Arena!Nowhere
  <2> QED
    BY <2>1, <2>2, <1>3
<1>9. size > 0 => Len(a) > 0
  BY <1>1, <1>3 DEF EndsMeetPages
<1> QED
  BY <1>2, <1>3, <1>4, <1>5, <1>6, <1>7, <1>8, <1>9

\* A place is added behind the last.
Adding(a, w, b, c, v) ==
    /\ ~OnPath(c, w)
    /\ (\A n : OnPath(n, a) => OnPath(n, b)) /\ OnPath(c[1], b)
    /\ buffer' = Written(buffer, c[1], c[2], v) /\ size' = size + 1 /\ last' = <<c[1], c[2] + 1>>
    /\ size = 0 => first' = c
    /\ size > 0 => first' = first
    /\ size > 0 => c = Behind(next', w[size])
    /\ \A i \in 1..(size - 1) : Behind(next', w[i]) = Behind(next, w[i])
    /\ \A i \in 1..size : /\ w[i][1] = head' => first'[2] <= w[i][2]
                          /\ w[i][1] = tail' => w[i][2] < c[2] + 1
    /\ c[1] = head' => first'[2] <= c[2]

LEMMA PlaceAdded ==
  ASSUME NEW a, NEW w, PlacesLive(a, w), NEW b, NEW c \in Places, NEW v \in Values,
         Adding(a, w, b, c, v)
  PROVE  /\ PlacesLive(b, Append(w, c))'
         /\ Arena!Elements' = Append(Arena!Elements, v)
<1> DEFINE u == Append(w, c)
<1>1. /\ Trail(w) /\ Apart(w) /\ w \in Seq(Places) /\ Len(w) = size /\ size \in Nat
      /\ buffer \in [Pages -> [0..(PageSize - 1) -> Values \cup {Hole}]]
      /\ \A d \in Places : buffer[d[1]][d[2]] # Hole <=> OnPath(d, w)
      /\ \A i \in 1..size : OnPath(w[i][1], a)
  <2>1. Trail(w)
    BY DEF PlacesLive
  <2> QED
    BY <2>1, TrailTypes DEF PlacesLive, Trail
<1>2. /\ u \in Seq(Places) /\ Len(u) = size + 1 /\ Apart(u) /\ u[size + 1] = c
      /\ \A i \in 1..size : u[i] = w[i]
  BY <1>1, ApartAppend DEF Adding
<1> HIDE DEF u
<1>3. /\ Stored(buffer', u) = Append(Stored(buffer, w), v)
      /\ buffer' \in [Pages -> [0..(PageSize - 1) -> Values \cup {Hole}]]
      /\ \A d \in Places : buffer'[d[1]][d[2]] # Hole <=> OnPath(d, u)
  <2>1. ~OnPath(c, w) /\ buffer' = Written(buffer, c[1], c[2], v)
    BY DEF Adding
  <2> QED
    BY <2>1, <1>1, StoredMore DEF u
<1>4. c[2] \in Nat /\ c[2] < c[2] + 1
  BY ArenaAssumption DEF Places
<1>5. Trail(u)'
  <2>1. size' > 0 /\ size' # 0
    BY <1>1 DEF Adding
  <2>2. first' = u[1]
    <3>1. CASE size = 0
      BY <1>2, <3>1 DEF Adding
    <3>2. CASE size > 0
      <4>1. 1 \in 1..size
        BY <1>1, <3>2
      <4>2. u[1] = w[1]
        BY <4>1, <1>2
      <4>3. first = w[1]
        BY <3>2, <1>1 DEF Trail
      <4> QED
        BY <4>2, <4>3, <3>2 DEF Adding
    <3> QED
      BY <1>1, <3>1, <3>2
  <2>3. last' = <<u[size'][1], u[size'][2] + 1>>
    BY <1>1, <1>2 DEF Adding
  <2>4. ASSUME NEW i \in 1..(size' - 1) PROVE u[i + 1] = Behind(next', u[i])
    <3>1. i \in 1..size /\ u[i] = w[i]
      BY <1>1, <1>2 DEF Adding
    <3>2. CASE i = size
      <4>1. size > 0
        BY <3>1, <3>2
      <4> QED
        BY <4>1, <3>1, <3>2, <1>2 DEF Adding
    <3>3. CASE i # size
      <4>1. i \in 1..(size - 1) /\ i + 1 \in 1..size
        BY <1>1, <3>1, <3>3
      <4>2. u[i + 1] = w[i + 1] /\ w[i + 1] = Behind(next, w[i])
        BY <4>1, <1>1, <1>2 DEF Trail
      <4> QED
        BY <4>1, <4>2, <3>1 DEF Adding
    <3> QED
      BY <3>2, <3>3
  <2>5. u \in Seq(Pages \X (0..(PageSize - 1))) /\ Len(u) = size' /\ Apart(u)
    BY <1>2 DEF Places, Adding
  <2> QED
    BY <2>1, <2>2, <2>3, <2>4, <2>5 DEF Trail
<1>6. ASSUME NEW i \in 1..size'
      PROVE  /\ OnPath(u[i][1], b)
             /\ u[i][1] = head' => first'[2] <= u[i][2]
             /\ u[i][1] = tail' => u[i][2] < last'[2]
  <2>1. last'[2] = c[2] + 1 /\ size' = size + 1
    BY DEF Adding
  <2>2. CASE i = size + 1
    BY <2>1, <2>2, <1>2, <1>4 DEF Adding
  <2>3. CASE i # size + 1
    <3>1. i \in 1..size /\ u[i] = w[i]
      BY <2>1, <2>3, <1>1, <1>2
    <3> QED
      BY <2>1, <3>1, <1>1 DEF Adding
  <2> QED
    BY <2>2, <2>3
<1>7. PlacesLive(b, u)'
  BY <1>3, <1>5, <1>6 DEF PlacesLive
<1>8. Arena!Elements' = Append(Arena!Elements, v)
  BY <1>1, <1>3, <1>5, ElementsAreStored, ElementsAreStoredNext
<1> QED
  BY <1>7, <1>8 DEF u

\* The first place is left.
Leaving(w, b) ==
    /\ buffer' = Written(buffer, w[1][1], w[1][2], Hole) /\ size' = size - 1
    /\ size = 1 => first' = last'
    /\ size > 1 => first' = w[2] /\ last' = last
    /\ \A i \in 2..(size - 1) : Behind(next', w[i]) = Behind(next, w[i])
    /\ \A i \in 2..size : /\ OnPath(w[i][1], b)
                          /\ w[i][1] = head' => first'[2] <= w[i][2]
                          /\ w[i][1] = tail' => w[i][2] < last'[2]

LEMMA PlaceLeft ==
  ASSUME NEW a, NEW w, PlacesLive(a, w), size > 0, NEW b, Leaving(w, b)
  PROVE  /\ PlacesLive(b, Tail(w))'
         /\ Arena!Elements' = Tail(Arena!Elements) /\ Arena!Elements # <<>>
<1> DEFINE u == Tail(w)
<1>1. /\ Trail(w) /\ Apart(w) /\ w \in Seq(Places) /\ Len(w) = size /\ size \in Nat
      /\ buffer \in [Pages -> [0..(PageSize - 1) -> Values \cup {Hole}]]
      /\ \A d \in Places : buffer[d[1]][d[2]] # Hole <=> OnPath(d, w)
  <2>1. Trail(w)
    BY DEF PlacesLive
  <2> QED
    BY <2>1, TrailTypes DEF PlacesLive, Trail
<1>2. w # <<>>
  BY <1>1, EmptySeq
<1>3. /\ u \in Seq(Places) /\ Len(u) = size - 1 /\ Apart(u)
      /\ \A i \in 1..(size - 1) : u[i] = w[i + 1]
  BY <1>1, <1>2, ApartTail
<1> HIDE DEF u
<1>4. /\ Stored(buffer', u) = Tail(Stored(buffer, w)) /\ Stored(buffer, w) # <<>>
      /\ buffer' \in [Pages -> [0..(PageSize - 1) -> Values \cup {Hole}]]
      /\ \A d \in Places : buffer'[d[1]][d[2]] # Hole <=> OnPath(d, u)
  <2>1. buffer' = Written(buffer, w[1][1], w[1][2], Hole)
    BY DEF Leaving
  <2> QED
    BY <2>1, <1>1, <1>2, StoredLess DEF u
<1>5. Trail(u)'
  <2>1. size' = 0 => first' = last'
    BY <1>1 DEF Leaving
  <2>2. ASSUME size' > 0 PROVE first' = u[1] /\ last' = <<u[size'][1], u[size'][2] + 1>>
    <3>1. size > 1 /\ 1 \in 1..(size - 1) /\ size' \in 1..(size - 1) /\ size' + 1 = size /\ 1 + 1 = 2
      BY <1>1, <2>2 DEF Leaving
    <3>2. u[1] = w[2] /\ u[size'] = w[size]
      BY <3>1, <1>3
    <3>3. last = <<w[size][1], w[size][2] + 1>>
      BY <1>1 DEF Trail
    <3> QED
      BY <3>1, <3>2, <3>3 DEF Leaving
  <2>3. ASSUME NEW i \in 1..(size' - 1) PROVE u[i + 1] = Behind(next', u[i])
    <3>1. i \in 1..(size - 1) /\ i + 1 \in 1..(size - 1) /\ i + 1 \in 2..(size - 1)
      BY <1>1 DEF Leaving
    <3>2. u[i] = w[i + 1] /\ u[i + 1] = w[(i + 1) + 1]
      BY <3>1, <1>3
    <3>3. w[(i + 1) + 1] = Behind(next, w[i + 1])
      BY <3>1, <1>1 DEF Trail
    <3> QED
      BY <3>1, <3>2, <3>3 DEF Leaving
  <2>4. u \in Seq(Pages \X (0..(PageSize - 1))) /\ Len(u) = size' /\ Apart(u)
    BY <1>3 DEF Places, Leaving
  <2> QED
    BY <2>1, <2>2, <2>3, <2>4 DEF Trail
<1>6. ASSUME NEW i \in 1..size'
      PROVE  /\ OnPath(u[i][1], b)
             /\ u[i][1] = head' => first'[2] <= u[i][2]
             /\ u[i][1] = tail' => u[i][2] < last'[2]
  <2>1. i \in 1..(size - 1) /\ i + 1 \in 2..size
    BY <1>1 DEF Leaving
  <2>2. u[i] = w[i + 1]
    BY <2>1, <1>3
  <2> QED
    BY <2>1, <2>2 DEF Leaving
<1>7. PlacesLive(b, u)'
  BY <1>4, <1>5, <1>6 DEF PlacesLive
<1>8. Arena!Elements' = Tail(Arena!Elements) /\ Arena!Elements # <<>>
  BY <1>1, <1>4, <1>5, ElementsAreStored, ElementsAreStoredNext
<1> QED
  BY <1>7, <1>8 DEF u

-----------------------------------------------------------------------------
(* The operations.                                                          *)
LEMMA EmplaceOnNewPage ==
  ASSUME NEW a, NEW f, NEW w, ArenaLaid(a, f, w), NEW v \in Values, NEW p \in Pages,
         Arena!NeedsPage, Arena!LinkPage(p), Arena!Store(p, 0, v), first' = Arena!BeginWith(p)
  PROVE  ArenaInv' /\ Arena!Elements' = Append(Arena!Elements, v)
<1>g. PICK g : g = IF free = NULL THEN f ELSE Tail(f)
  OBVIOUS
<1> DEFINE b == Append(a, p)
           c == <<p, 0>>
           u == Append(w, c)
<1>1. PagesLaid(a, f) /\ PlacesLive(a, w) /\ EndsMeetPages(a)
  BY DEF ArenaLaid
<1>2. /\ a \in Seq(Pages) /\ Len(a) \in Nat
      /\ tail = NULL <=> Len(a) = 0
      /\ first = Arena!Nowhere <=> Len(a) = 0
      /\ w \in Seq(Places) /\ Len(w) = size /\ size \in Nat /\ Apart(w) /\ Trail(w)
      /\ \A i \in 1..size : w[i][1] \in Pages /\ w[i][2] \in 0..(PageSize - 1)
                            /\ w[i] = <<w[i][1], w[i][2]>> /\ OnPath(w[i][1], a)
      /\ size > 0 => Len(a) > 0
      /\ Len(a) > 0 => /\ tail \in Pages /\ OnPath(head, a)
                       /\ first = <<head, first[2]>> /\ first[2] \in 0..(PageSize - 1)
  BY ArenaFacts
<1>3. /\ ~OnPath(p, a) /\ PagesLaid(b, g)' /\ Len(b) = Len(a) + 1
      /\ head' = (IF Len(a) = 0 THEN p ELSE head) /\ tail' = p
      /\ \A n : OnPath(n, b) <=> OnPath(n, a) \/ n = p
      /\ \A q \in Pages : q # p /\ q # tail => next'[q] = next[q]
      /\ tail # NULL => next'[tail] = p
  BY <1>1, <1>g, LinkPageLays
<1> HIDE DEF b
<1>4. /\ buffer' = [buffer EXCEPT ![p][0] = v]
      /\ last' = <<p, 0 + 1>> /\ size' = size + 1
  BY DEF Arena!Store
<1>5. c \in Places /\ c[1] = p /\ c[2] = 0
  BY ArenaAssumption DEF Places
<1>6. first' = IF Len(a) = 0 THEN c ELSE first
  BY <1>2 DEF Arena!BeginWith
<1>7. ASSUME Len(a) > 0 PROVE size > 0 /\ last = <<tail, PageSize>>
  <2>1. last = <<tail, PageSize>>
    BY <1>2, <1>7 DEF Arena!NeedsPage
  <2>2. size # 0
    <3> SUFFICES ASSUME size = 0 PROVE FALSE
      OBVIOUS
    <3>1. first = last
      BY <1>2 DEF Trail
    <3>2. first[2] = PageSize
      BY <2>1, <3>1
    <3> QED
      BY <3>2, <1>2, <1>7, ArenaAssumption
  <2> QED
    BY <2>1, <2>2, <1>2
<1>8. ~OnPath(c, w)
  <2> SUFFICES ASSUME NEW i \in 1..size, w[i] = c PROVE FALSE
    BY <1>2 DEF OnPath
  <2> QED
    BY <1>2, <1>3, <1>5
<1>9. size > 0 => c = Behind(next', w[size])
  <2> SUFFICES ASSUME size > 0 PROVE c = Behind(next', w[size])
    OBVIOUS
  <2>1. size \in 1..size /\ Len(a) > 0
    BY <1>2
  <2>2. last = <<w[size][1], w[size][2] + 1>> /\ last = <<tail, PageSize>>
    BY <2>1, <1>2, <1>7 DEF Trail
  <2>3. w[size][1] = tail /\ w[size][2] + 1 = PageSize
    BY <2>2
  <2> QED
    BY <2>1, <2>3, <1>2, <1>3 DEF Behind
<1>10. ASSUME NEW i \in 1..(size - 1) PROVE Behind(next', w[i]) = Behind(next, w[i])
  <2>1. size > 0 /\ size \in 1..size /\ i \in 1..size /\ i # size /\ Len(a) > 0
    BY <1>2
  <2>2. w[i][1] \in Pages /\ w[i][1] # p
    BY <2>1, <1>2, <1>3
  <2>3. CASE w[i][1] # tail
    BY <2>2, <2>3, <1>3 DEF Behind
  <2>4. CASE w[i][1] = tail
    <3>1. last = <<w[size][1], w[size][2] + 1>> /\ last = <<tail, PageSize>>
      BY <2>1, <1>2, <1>7 DEF Trail
    <3>2. w[i] # w[size]
      BY <2>1, <1>2 DEF Apart
    <3>3. w[size][1] = tail /\ w[size][2] + 1 = PageSize
      BY <3>1
    <3>4. w[i][2] # w[size][2]
      BY <3>2, <3>3, <2>1, <2>4, <1>2
    <3>5. w[i][2] + 1 # PageSize
      BY <3>3, <3>4, <2>1, <1>2, ArenaAssumption
    <3> QED
      BY <3>5 DEF Behind
  <2> QED
    BY <2>3, <2>4
<1>11. \A i \in 1..size : /\ w[i][1] = head' => first'[2] <= w[i][2]
                          /\ w[i][1] = tail' => w[i][2] < c[2] + 1
  <2> SUFFICES ASSUME NEW i \in 1..size
               PROVE  /\ w[i][1] = head' => first'[2] <= w[i][2]
                      /\ w[i][1] = tail' => w[i][2] < c[2] + 1
    OBVIOUS
  <2>1. size > 0 /\ Len(a) > 0 /\ Len(a) # 0
    BY <1>2
  <2>2. head' = head /\ first' = first /\ w[i][1] # tail'
    BY <2>1, <1>2, <1>3, <1>6
  <2>3. w[i][1] = head => first[2] <= w[i][2]
    BY <1>1 DEF PlacesLive
  <2> QED
    BY <2>2, <2>3
<1>12. c[1] = head' => first'[2] <= c[2]
  <2>1. CASE Len(a) = 0
    BY <2>1, <1>5, <1>6
  <2>2. CASE Len(a) # 0
    <3>1. OnPath(head, a) /\ head' = head
      BY <2>2, <1>2, <1>3
    <3> QED
      BY <3>1, <1>3, <1>5
  <2> QED
    BY <2>1, <2>2
<1>13. /\ size = 0 => first' = c
       /\ size > 0 => first' = first
  <2>1. Len(a) = 0 \/ Len(a) > 0
    BY <1>2
  <2> QED
    BY <2>1, <1>2, <1>6, <1>7
<1>14. buffer' = Written(buffer, c[1], c[2], v) /\ last' = <<c[1], c[2] + 1>>
  BY <1>4, <1>5 DEF Written
<1>15. (\A n : OnPath(n, a) => OnPath(n, b)) /\ OnPath(c[1], b)
  BY <1>3, <1>5
<1>16. PlacesLive(b, u)' /\ Arena!Elements' = Append(Arena!Elements, v)
  <2> HIDE DEF c
  <2>1. Adding(a, w, b, c, v)
    BY <1>4, <1>8, <1>9, <1>10, <1>11, <1>12, <1>13, <1>14, <1>15 DEF Adding
  <2> QED
    BY <2>1, <1>1, <1>5, PlaceAdded
<1>17. EndsMeetPages(b)'
  <2>1. Len(b) > 0 /\ Len(b) # 0
    BY <1>2, <1>3
  <2>2. last' = <<tail', 1>> /\ 1 \in 1..PageSize
    BY <1>3, <1>4, ArenaAssumption
  <2>3. \E o \in 0..(PageSize - 1) : first' = <<head', o>>
    <3>1. CASE Len(a) = 0
      BY <3>1, <1>3, <1>6, ArenaAssumption
    <3>2. CASE Len(a) # 0
      BY <3>2, <1>2, <1>3, <1>6
    <3> QED
      BY <3>1, <3>2
  <2> QED
    BY <2>1, <2>2, <2>3 DEF EndsMeetPages
<1> HIDE DEF u
<1>18. ArenaLaid(b, g, u)'
  BY <1>3, <1>16, <1>17 DEF ArenaLaid, u
<1> QED
  BY <1>16, <1>18 DEF ArenaInv

LEMMA EmplaceOnLastPage ==
  ASSUME NEW a, NEW f, NEW w, ArenaLaid(a, f, w), NEW v \in Values,
         ~Arena!NeedsPage, Arena!Store(last[1], last[2], v),
         UNCHANGED <<pages, next, head, tail, free, nextAt, first>>
  PROVE  ArenaInv' /\ Arena!Elements' = Append(Arena!Elements, v)
<1>1. PagesLaid(a, f) /\ PlacesLive(a, w) /\ EndsMeetPages(a)
  BY DEF ArenaLaid
<1>2. Len(a) > 0
  BY ArenaFacts DEF Arena!NeedsPage
<1>3. /\ a \in Seq(Pages) /\ Len(a) \in Nat
      /\ w \in Seq(Places) /\ Len(w) = size /\ size \in Nat /\ Apart(w) /\ Trail(w)
      /\ \A i \in 1..size : w[i][1] \in Pages /\ w[i][2] \in 0..(PageSize - 1)
      /\ tail \in Pages /\ OnPath(tail, a)
      /\ first = <<head, first[2]>> /\ first[2] \in 0..(PageSize - 1)
      /\ last = <<tail, last[2]>> /\ last[2] \in 1..PageSize
  BY <1>2, ArenaFacts
<1>4. last[1] = tail /\ last[2] \in 1..(PageSize - 1)
  <2>1. last # <<tail, PageSize>> /\ last[1] = tail
    BY <1>3 DEF Arena!NeedsPage
  <2>2. last[2] # PageSize
    BY <2>1, <1>3
  <2> QED
    BY <2>1, <2>2, <1>3, ArenaAssumption
<1>5. last \in Places
  <2>1. last[2] \in 0..(PageSize - 1)
    BY <1>4, ArenaAssumption
  <2> QED
    BY <2>1, <1>3 DEF Places
<1>c. PICK c \in Places : c = last
  BY <1>5
<1> DEFINE u == Append(w, c)
<1>6. \A i \in 1..size : /\ w[i][1] = head => first[2] <= w[i][2]
                         /\ w[i][1] = tail => w[i][2] < last[2]
  BY <1>1 DEF PlacesLive
<1>7. ~OnPath(last, w)
  <2> SUFFICES ASSUME NEW i \in 1..size, w[i] = last PROVE FALSE
    BY <1>3 DEF OnPath
  <2>1. w[i][1] = tail /\ w[i][2] = last[2]
    BY <1>4
  <2> QED
    BY <2>1, <1>3, <1>4, <1>6, ArenaAssumption
<1>8. /\ buffer' = Written(buffer, last[1], last[2], v)
      /\ last' = <<last[1], last[2] + 1>> /\ size' = size + 1
  BY DEF Arena!Store, Written
<1>9. size > 0 => /\ size \in 1..size /\ last = <<w[size][1], w[size][2] + 1>>
                  /\ w[size][1] = tail /\ last[2] = w[size][2] + 1
  <2>1. size > 0 => last = <<w[size][1], w[size][2] + 1>>
    BY <1>3 DEF Trail
  <2> QED
    BY <2>1, <1>3
<1>10. size > 0 => last = Behind(next', w[size])
  <2> SUFFICES ASSUME size > 0 PROVE last = Behind(next', w[size])
    OBVIOUS
  <2>1. w[size][2] + 1 # PageSize
    BY <1>4, <1>9, ArenaAssumption
  <2> QED
    BY <2>1, <1>9 DEF Behind
<1>11. last[1] = head' => first'[2] <= last[2]
  <2> SUFFICES ASSUME tail = head PROVE first[2] <= last[2]
    BY <1>4
  <2>1. CASE size = 0
    <3>1. first = last
      BY <2>1, <1>3 DEF Trail
    <3> QED
      BY <3>1, <1>3, ArenaAssumption
  <2>2. CASE size > 0
    <3>1. first[2] <= w[size][2]
      BY <2>2, <1>6, <1>9
    <3> QED
      BY <2>2, <3>1, <1>3, <1>9, ArenaAssumption
  <2> QED
    BY <2>1, <2>2, <1>3
<1>12. \A i \in 1..size : /\ w[i][1] = head' => first'[2] <= w[i][2]
                          /\ w[i][1] = tail' => w[i][2] < last[2] + 1
  <2> SUFFICES ASSUME NEW i \in 1..size, w[i][1] = tail PROVE w[i][2] < last[2] + 1
    BY <1>6
  <2>1. w[i][2] < last[2] /\ w[i][2] \in 0..(PageSize - 1)
    BY <1>3, <1>6
  <2> QED
    BY <2>1, <1>3, ArenaAssumption
<1>13. size = 0 => first' = last
  BY <1>3 DEF Trail
<1>14. \A i \in 1..(size - 1) : Behind(next', w[i]) = Behind(next, w[i])
  BY DEF Behind
<1>15. OnPath(last[1], a) /\ \A n : OnPath(n, a) => OnPath(n, a)
  BY <1>3, <1>4
<1>16. PlacesLive(a, u)' /\ Arena!Elements' = Append(Arena!Elements, v)
  <2>1. Adding(a, w, a, c, v)
    BY <1>c, <1>7, <1>8, <1>10, <1>11, <1>12, <1>13, <1>14, <1>15 DEF Adding
  <2> QED
    BY <2>1, <1>1, PlaceAdded
<1>17. EndsMeetPages(a)'
  <2>1. last' = <<tail', last[2] + 1>> /\ last[2] + 1 \in 1..PageSize
    BY <1>4, <1>8, ArenaAssumption
  <2>2. first' = <<head', first[2]>> /\ first[2] \in 0..(PageSize - 1)
    BY <1>3
  <2>3. Len(a) # 0
    BY <1>2
  <2> QED
    BY <2>1, <2>2, <2>3 DEF EndsMeetPages
<1>18. PagesLaid(a, f)'
  BY <1>1 DEF PagesLaid
<1> HIDE DEF u
<1>19. ArenaLaid(a, f, u)'
  BY <1>16, <1>17, <1>18 DEF ArenaLaid, u
<1> QED
  BY <1>16, <1>19 DEF ArenaInv

\* The first page goes to the front of the free ones.
LEMMA PageDoneLays ==
  ASSUME NEW a, NEW f, PagesLaid(a, f), head # NULL, Arena!PageDone, UNCHANGED pages,
         NEW p, p = head
  PROVE  /\ PagesLaid(Tail(a), <<p>> \o f)' /\ p \in Pages
         /\ Len(a) \in Nat \ {0} /\ Len(Tail(a)) = Len(a) - 1 /\ (Len(a) = 1 <=> p = tail)
         /\ head' = next[p]
         /\ \A q \in Pages : q # p => next'[q] = next[q]
         /\ \A n : OnPath(n, Tail(a)) <=> OnPath(n, a) /\ n # p
<1> DEFINE b == Tail(a)
           g == <<p>> \o f
<1>1. /\ pages \subseteq Pages /\ next \in [Pages -> Pages \cup {NULL}]
      /\ Line(next, head, a) /\ Line(next, free, f)
      /\ \A q \in Pages : ~(OnPath(q, a) /\ OnPath(q, f))
      /\ \A q \in Pages : q \in pages <=> OnPath(q, a) \/ OnPath(q, f)
      /\ tail = nextAt /\ nextAt = IF Len(a) = 0 THEN NULL ELSE a[Len(a)]
  BY DEF PagesLaid, LastOf
<1>2. /\ free' = p /\ head' = next[p] /\ next' = [next EXCEPT ![p] = free]
      /\ p = tail => nextAt' = NULL /\ tail' = NULL
      /\ p # tail => nextAt' = nextAt /\ tail' = tail
  BY DEF Arena!PageDone
<1>3. p \in Pages /\ OnPath(p, a) /\ ~OnPath(p, f)
  BY <1>1, LineEnds
<1>4. (\A q \in Pages : q # p => next'[q] = next[q]) /\ next'[p] = free
  BY <1>1, <1>2, <1>3
<1>5. /\ Len(a) \in Nat \ {0} /\ p = a[1]
      /\ Line(next', next[p], b)
      /\ Len(b) = Len(a) - 1
      /\ Len(a) = 1 => next[p] = NULL /\ b = <<>>
      /\ Len(a) > 1 => next[p] = a[2] /\ b[Len(a) - 1] = a[Len(a)]
      /\ \A n : OnPath(n, b) <=> OnPath(n, a) /\ n # p
  BY <1>1, <1>4, LineTail
<1>6. Line(next', p, g) /\ \A n : OnPath(n, g) <=> OnPath(n, f) \/ n = p
  <2>1. Line(next, free, f)
    BY <1>1
  <2> QED
    BY <2>1, <1>3, <1>4, LineCons
<1> HIDE DEF b, g
<1>7. Len(a) = 1 <=> p = tail
  <2>1. 1 \in 1..Len(a) /\ Len(a) \in 1..Len(a) /\ tail = a[Len(a)]
    BY <1>1, <1>5
  <2> QED
    BY <2>1, <1>1, <1>5 DEF Line, Apart
<1>8. tail' = nextAt' /\ nextAt' = IF Len(b) = 0 THEN NULL ELSE b[Len(b)]
  <2>1. CASE Len(a) = 1
    BY <2>1, <1>2, <1>5, <1>7
  <2>2. CASE Len(a) # 1
    <3>1. Len(a) > 1 /\ Len(b) # 0 /\ Len(b) = Len(a) - 1 /\ Len(a) # 0
      BY <2>2, <1>5
    <3> QED
      BY <3>1, <2>2, <1>1, <1>2, <1>5, <1>7
  <2> QED
    BY <2>1, <2>2
<1>9. \A q \in Pages : ~(OnPath(q, b) /\ OnPath(q, g))
  BY <1>1, <1>5, <1>6
<1>10. \A q \in Pages : q \in pages' <=> OnPath(q, b) \/ OnPath(q, g)
  BY <1>1, <1>3, <1>5, <1>6
<1>11. next' \in [Pages -> Pages \cup {NULL}]
  <2>1. free = NULL \/ free \in Pages
    BY <1>1, LineEnds
  <2> QED
    BY <2>1, <1>1, <1>2
<1>12. PagesLaid(b, g)'
  BY <1>1, <1>2, <1>5, <1>6, <1>8, <1>9, <1>10, <1>11 DEF PagesLaid, LastOf
<1> QED
  BY <1>2, <1>3, <1>4, <1>5, <1>7, <1>12 DEF b, g

LEMMA DestroyFirstLays ==
  ASSUME NEW a, NEW f, NEW w, ArenaLaid(a, f, w), Arena!DestroyFirst
  PROVE  ArenaInv' /\ Arena!Elements' = Tail(Arena!Elements) /\ Arena!Elements # <<>>
<1>1. PagesLaid(a, f) /\ PlacesLive(a, w) /\ EndsMeetPages(a)
  BY DEF ArenaLaid
<1>2. size > 0 /\ Len(a) > 0
  BY ArenaFacts DEF Arena!DestroyFirst
<1>3. /\ a \in Seq(Pages) /\ Len(a) \in Nat
      /\ w \in Seq(Places) /\ Len(w) = size /\ size \in Nat /\ Apart(w) /\ Trail(w)
      /\ \A i \in 1..size : w[i][1] \in Pages /\ w[i][2] \in 0..(PageSize - 1)
                            /\ w[i] = <<w[i][1], w[i][2]>> /\ OnPath(w[i][1], a)
      /\ head \in Pages /\ head # NULL /\ tail \in Pages
      /\ first = <<head, first[2]>> /\ first[2] \in 0..(PageSize - 1)
      /\ last = <<tail, last[2]>> /\ last[2] \in 1..PageSize
      /\ next[tail] = NULL
  BY <1>2, ArenaFacts
<1>4. /\ first = w[1] /\ w[1][1] = head /\ w[1][2] = first[2]
      /\ last = <<w[size][1], w[size][2] + 1>>
      /\ 1 \in 1..size
  <2>1. first = w[1] /\ last = <<w[size][1], w[size][2] + 1>> /\ 1 \in 1..size
    BY <1>2, <1>3 DEF Trail
  <2> QED
    BY <2>1, <1>3
<1>5. /\ buffer' = Written(buffer, w[1][1], w[1][2], Hole) /\ size' = size - 1
      /\ UNCHANGED pages
  BY <1>4 DEF Arena!DestroyFirst, Written
<1>6. ASSUME NEW i \in 2..size
      PROVE  /\ i \in 1..size /\ w[i] # w[1]
             /\ w[i][1] = head => first[2] < w[i][2]
             /\ w[i][1] = tail => w[i][2] < last[2]
  <2>1. i \in 1..size /\ i # 1
    BY <1>3
  <2>2. w[i] # w[1]
    BY <2>1, <1>3, <1>4 DEF Apart
  <2>3. w[i][1] = head => first[2] <= w[i][2]
    BY <2>1, <1>1 DEF PlacesLive
  <2>4. w[i][1] = tail => w[i][2] < last[2]
    BY <2>1, <1>1 DEF PlacesLive
  <2>5. w[i][1] = head => w[i][2] # first[2]
    BY <2>1, <2>2, <1>3, <1>4
  <2>6. w[i][2] \in 0..(PageSize - 1) /\ first[2] \in 0..(PageSize - 1)
    BY <2>1, <1>3
  <2>7. w[i][2] # first[2] /\ first[2] <= w[i][2] => first[2] < w[i][2]
    BY <2>6, ArenaAssumption
  <2> QED
    BY <2>1, <2>2, <2>3, <2>4, <2>5, <2>7
<1>7. size > 1 => 2 \in 2..size /\ w[2] = Behind(next, w[1])
  <2> SUFFICES ASSUME size > 1 PROVE 2 \in 2..size /\ w[2] = Behind(next, w[1])
    OBVIOUS
  <2>1. 1 \in 1..(size - 1) /\ 1 + 1 = 2 /\ 2 \in 2..size
    BY <1>3
  <2>2. w[1 + 1] = Behind(next, w[1])
    BY <2>1, <1>3 DEF Trail
  <2> QED
    BY <2>1, <2>2
<1>8. CASE first[2] + 1 # PageSize
  <2>1. /\ first' = <<head, first[2] + 1>>
        /\ UNCHANGED <<next, head, tail, free, nextAt, last>>
    BY <1>4, <1>8 DEF Arena!DestroyFirst
  <2>2. size = 1 => first' = last'
    <3> SUFFICES ASSUME size = 1 PROVE first' = last'
      OBVIOUS
    <3>1. last = <<w[1][1], w[1][2] + 1>>
      BY <1>4
    <3> QED
      BY <3>1, <2>1, <1>4
  <2>3. size > 1 => first' = w[2] /\ last' = last
    BY <2>1, <1>4, <1>7, <1>8 DEF Behind
  <2>4. ASSUME NEW i \in 2..size
        PROVE  /\ OnPath(w[i][1], a)
               /\ w[i][1] = head' => first'[2] <= w[i][2]
               /\ w[i][1] = tail' => w[i][2] < last'[2]
    <3>1. first'[2] = first[2] + 1
      BY <2>1
    <3>2. first[2] < w[i][2] => first[2] + 1 <= w[i][2]
      BY <1>3, <1>6, ArenaAssumption
    <3> QED
      BY <3>1, <3>2, <2>1, <1>3, <1>6
  <2>5. \A i \in 2..(size - 1) : Behind(next', w[i]) = Behind(next, w[i])
    BY <2>1
  <2>6. Leaving(w, a)
    BY <2>2, <2>3, <2>4, <2>5, <1>5 DEF Leaving
  <2>7. PlacesLive(a, Tail(w))' /\ Arena!Elements' = Tail(Arena!Elements) /\ Arena!Elements # <<>>
    BY <2>6, <1>1, <1>2, PlaceLeft
  <2>8. EndsMeetPages(a)'
    <3>1. first[2] + 1 \in 0..(PageSize - 1)
      BY <1>3, <1>8, ArenaAssumption
    <3>2. first' = <<head', first[2] + 1>> /\ last' = <<tail', last[2]>> /\ last[2] \in 1..PageSize
      BY <2>1, <1>3
    <3>3. Len(a) # 0
      BY <1>2
    <3> QED
      BY <3>1, <3>2, <3>3 DEF EndsMeetPages
  <2>9. PagesLaid(a, f)'
    BY <2>1, <1>1, <1>5 DEF PagesLaid
  <2>10. ArenaLaid(a, f, Tail(w))'
    BY <2>7, <2>8, <2>9 DEF ArenaLaid
  <2> QED
    BY <2>7, <2>10 DEF ArenaInv
<1>9. CASE first[2] + 1 = PageSize
  <2>0. PICK p : p = head
    OBVIOUS
  <2> DEFINE b == Tail(a)
             g == <<p>> \o f
  <2>1. Arena!PageDone
    BY <1>9 DEF Arena!DestroyFirst
  <2>2. /\ PagesLaid(b, g)' /\ p \in Pages
        /\ Len(b) = Len(a) - 1 /\ (Len(a) = 1 <=> p = tail)
        /\ head' = next[p]
        /\ \A q \in Pages : q # p => next'[q] = next[q]
        /\ \A n : OnPath(n, b) <=> OnPath(n, a) /\ n # p
    BY <2>0, <2>1, <1>1, <1>3, <1>5, PageDoneLays
  <2> HIDE DEF b, g
  <2>3. /\ p = tail => tail' = NULL /\ last' = Arena!Nowhere /\ first' = Arena!Nowhere
        /\ p # tail => first' = <<next[p], 0>> /\ tail' = tail /\ last' = last
    BY <2>0, <2>1 DEF Arena!PageDone
  <2>4. ASSUME NEW i \in 2..size
        PROVE  w[i][1] # p /\ OnPath(w[i][1], b) /\ w[i][1] \in Pages
    <3>1. w[i][1] # p
      <4> SUFFICES ASSUME w[i][1] = head PROVE FALSE
        BY <2>0
      <4>1. first[2] < w[i][2] /\ w[i][2] \in 0..(PageSize - 1)
        BY <1>3, <1>6
      <4> QED
        BY <4>1, <1>3, <1>9, ArenaAssumption
    <3> QED
      BY <3>1, <2>2, <1>3, <1>6
  <2>5. size > 1 => w[2] = <<next[p], 0>>
    BY <2>0, <1>4, <1>7, <1>9 DEF Behind
  <2>6. p = tail => size = 1
    <3> SUFFICES ASSUME p = tail, size # 1 PROVE FALSE
      OBVIOUS
    <3>1. size > 1
      BY <1>2, <1>3
    <3>2. w[2][1] = NULL
      BY <3>1, <2>5, <1>3
    <3>3. w[2][1] \in Pages
      BY <3>1, <2>4, <1>7
    <3> QED
      BY <3>2, <3>3, ArenaAssumption
  <2>7. p # tail => size > 1
    <3> SUFFICES ASSUME p # tail, ~(size > 1) PROVE FALSE
      OBVIOUS
    <3>1. size = 1
      BY <1>2, <1>3
    <3>2. last[1] = w[1][1] /\ last[1] = tail
      BY <3>1, <1>3, <1>4
    <3> QED
      BY <3>2, <2>0, <1>4
  <2>8. /\ size = 1 => first' = last'
        /\ size > 1 => first' = w[2] /\ last' = last
    BY <2>3, <2>5, <2>6, <2>7
  <2>9. ASSUME NEW i \in 2..(size - 1) PROVE Behind(next', w[i]) = Behind(next, w[i])
    <3>1. i \in 2..size
      BY <1>3
    <3> QED
      BY <3>1, <2>2, <2>4 DEF Behind
  <2>10. ASSUME NEW i \in 2..size
         PROVE  /\ OnPath(w[i][1], b)
                /\ w[i][1] = head' => first'[2] <= w[i][2]
                /\ w[i][1] = tail' => w[i][2] < last'[2]
    <3>1. size > 1
      BY <1>3
    <3>2. p # tail
      BY <3>1, <2>6
    <3>3. first'[2] = 0 /\ tail' = tail /\ last' = last
      BY <3>2, <2>3
    <3>4. w[i][2] \in 0..(PageSize - 1)
      BY <1>3, <1>6
    <3>5. 0 <= w[i][2]
      BY <3>4, ArenaAssumption
    <3> QED
      BY <3>3, <3>5, <2>4, <1>6
  <2>11. Leaving(w, b)
    BY <2>8, <2>9, <2>10, <1>5 DEF Leaving
  <2>12. PlacesLive(b, Tail(w))' /\ Arena!Elements' = Tail(Arena!Elements) /\ Arena!Elements # <<>>
    BY <2>11, <1>1, <1>2, PlaceLeft
  <2>13. EndsMeetPages(b)'
    <3>1. CASE p = tail
      <4>1. Len(b) = 0 /\ size' = 0 /\ ~(Len(b) > 0)
        <5>1. Len(a) = 1 /\ size = 1
          BY <3>1, <2>2, <2>6
        <5>2. Len(b) = Len(a) - 1 /\ size' = size - 1
          BY <2>2, <1>5
        <5>3. Len(b) = 0 /\ size' = 0
          BY <5>1, <5>2
        <5> QED
          BY <5>3
      <4> QED
        BY <3>1, <4>1, <2>3 DEF EndsMeetPages, Arena!Nowhere
    <3>2. CASE p # tail
      <4>1. Len(b) > 0 /\ Len(b) # 0
        BY <3>2, <2>2, <1>2, <1>3
      <4>2. first' = <<head', 0>> /\ last' = <<tail', last[2]>>
        BY <3>2, <2>2, <2>3, <1>3
      <4>3. 0 \in 0..(PageSize - 1) /\ last[2] \in 1..PageSize
        BY <1>3, ArenaAssumption
      <4> QED
        BY <4>1, <4>2, <4>3 DEF EndsMeetPages
    <3> QED
      BY <3>1, <3>2
  <2>14. ArenaLaid(b, g, Tail(w))'
    BY <2>2, <2>12, <2>13 DEF ArenaLaid
  <2> QED
    BY <2>12, <2>14 DEF ArenaInv
<1> QED
  BY <1>8, <1>9

\* An arena without pages: a new one, or one whose destructor has run.
NoPages ==
    /\ pages = {} /\ next = [p \in Pages |-> NULL]
    /\ head = NULL /\ tail = NULL /\ free = NULL /\ nextAt = NULL
    /\ first = Arena!Nowhere /\ last = Arena!Nowhere /\ size = 0
    /\ buffer \in [Pages -> [0..(PageSize - 1) -> Values \cup {Hole}]]
    /\ \A c \in Places : buffer[c[1]][c[2]] = Hole

LEMMA NoPagesLaid == NoPages => ArenaInv
<1> SUFFICES ASSUME NoPages PROVE ArenaLaid(<<>>, <<>>, <<>>)
  BY DEF ArenaInv
<1>1. \A S : <<>> \in Seq(S) /\ Len(<<>>) = 0
  BY EmptySeq
<1>2. \A n : ~OnPath(n, <<>>)
  BY <1>1 DEF OnPath
<1>3. Apart(<<>>) /\ After(<<>>, 0) = NULL /\ LastOf(<<>>) = NULL
  BY <1>1 DEF Apart, After, LastOf
<1>4. Line(next, NULL, <<>>)
  BY <1>1, <1>3 DEF Line
<1>5. PagesLaid(<<>>, <<>>)
  BY <1>2, <1>3, <1>4 DEF PagesLaid, NoPages
<1>6. Trail(<<>>)
  BY <1>1, <1>3 DEF Trail, NoPages
<1>7. PlacesLive(<<>>, <<>>)
  BY <1>2, <1>6 DEF PlacesLive, NoPages
<1>8. EndsMeetPages(<<>>)
  BY <1>1 DEF EndsMeetPages, NoPages
<1> QED
  BY <1>5, <1>7, <1>8 DEF ArenaLaid

LEMMA NoPagesLaidNext == NoPages' => ArenaInv'
<1>1. (NoPages => ArenaInv)'
  BY NoPagesLaid, PTL
<1> QED
  BY <1>1

LEMMA NothingStored ==
  ASSUME size = 0, ArenaInv
  PROVE  Arena!Elements = <<>>
<1>1. PICK a, f, w : ArenaLaid(a, f, w)
  BY DEF ArenaInv
<1>2. Trail(w) /\ Len(w) = 0 /\ w \in Seq(Places)
  BY <1>1, ArenaFacts
<1>3. Arena!Elements = Stored(buffer, w)
  BY <1>2, ElementsAreStored
<1> DEFINE s == Stored(buffer, w)
<1>4. s \in [1..0 -> {}]
  BY <1>2 DEF Stored
<1> HIDE DEF s
<1>5. s \in Seq({}) /\ Len(s) = 0
  BY <1>4, FunctionIsSeq
<1>6. s = <<>>
  BY <1>5, EmptySeq
<1> QED
  BY <1>3, <1>6 DEF s

LEMMA NothingStoredNext == size' = 0 /\ ArenaInv' => Arena!Elements' = <<>>
<1>1. (size = 0 /\ ArenaInv => Arena!Elements = <<>>)'
  BY NothingStored, PTL
<1> QED
  BY <1>1

LEMMA DestroyEmpties ==
  ASSUME ArenaInv, Arena!Destroy
  PROVE  ArenaInv' /\ UNCHANGED Arena!Elements
<1>1. PICK a, f, w : ArenaLaid(a, f, w)
  BY DEF ArenaInv
<1>2. /\ size = 0 /\ UNCHANGED <<buffer, size>>
      /\ pages' = pages \ (Arena!Range(Arena!Chain(head)) \cup Arena!Range(Arena!Chain(free)))
      /\ next' = [p \in Pages |-> NULL]
      /\ head' = NULL /\ tail' = NULL /\ free' = NULL /\ nextAt' = NULL
      /\ first' = Arena!Nowhere /\ last' = Arena!Nowhere
  BY DEF Arena!Destroy
<1>3. pages' = {}
  <2>1. Arena!PagesAccounted
    BY <1>1, PagesAccountedFor
  <2>2. pages = Arena!Range(Arena!Chain(head)) \cup Arena!Range(Arena!Chain(free))
    BY <2>1 DEF Arena!PagesAccounted
  <2> QED
    BY <2>2, <1>2
<1>4. /\ buffer \in [Pages -> [0..(PageSize - 1) -> Values \cup {Hole}]]
      /\ \A c \in Places : buffer[c[1]][c[2]] = Hole
  <2>1. Len(w) = 0
    BY <1>1, <1>2, ArenaFacts
  <2>2. \A c : ~OnPath(c, w)
    BY <2>1 DEF OnPath
  <2> QED
    BY <2>2, <1>1 DEF ArenaLaid, PlacesLive
<1>5. ArenaInv'
  <2>1. NoPages'
    BY <1>2, <1>3, <1>4 DEF NoPages
  <2> QED
    BY <2>1, NoPagesLaidNext
<1> QED
  BY <1>2, <1>5, NothingStored, NothingStoredNext

LEMMA ArenaInvInit ==
  ASSUME Arena!Init PROVE ArenaInv /\ Arena!Queue!Init
<1>1. NoPages
  <2>1. \A c \in Places : c[1] \in Pages /\ c[2] \in 0..(PageSize - 1)
    BY DEF Places
  <2> QED
    BY <2>1 DEF Arena!Init, Arena!Fresh, NoPages, Arena!Nowhere
<1>2. ArenaInv
  BY <1>1, NoPagesLaid
<1>3. Arena!Elements = <<>>
  BY <1>1, <1>2, NothingStored DEF NoPages
<1> QED
  BY <1>2, <1>3 DEF Arena!Queue!Init

\* Every step of an arena is one of a queue, or leaves its elements.
LEMMA ArenaInvNext ==
  ASSUME ArenaInv, Arena!Next \/ UNCHANGED arenas
  PROVE  /\ ArenaInv'
         /\ Arena!Queue!Next \/ UNCHANGED Arena!Elements
<1>1. PICK a, f, w : ArenaLaid(a, f, w)
  BY DEF ArenaInv
<1>2. CASE UNCHANGED <<pages, next, buffer, head, tail, free, nextAt, first, last, size>>
  <2>1. ArenaLaid(a, f, w)'
    BY <1>1, <1>2 DEF ArenaLaid, PagesLaid, PlacesLive, EndsMeetPages, Trail
  <2>2. Arena!Elements = Stored(buffer, w) /\ Arena!Elements' = Stored(buffer', w)
    BY <1>1, <2>1, ElementsAreStored, ElementsAreStoredNext DEF ArenaLaid, PlacesLive
  <2> QED
    BY <1>2, <2>1, <2>2 DEF ArenaInv
<1>3. CASE Arena!EmplaceBack
  <2>1. PICK v \in Values :
           IF Arena!NeedsPage
           THEN \E p \in Pages : Arena!LinkPage(p) /\ Arena!Store(p, 0, v) /\ first' = Arena!BeginWith(p)
           ELSE Arena!Store(last[1], last[2], v) /\ UNCHANGED <<pages, next, head, tail, free, nextAt, first>>
    BY <1>3 DEF Arena!EmplaceBack
  <2>2. ArenaInv' /\ Arena!Elements' = Append(Arena!Elements, v)
    <3>1. CASE Arena!NeedsPage
      BY <3>1, <2>1, <1>1, EmplaceOnNewPage
    <3>2. CASE ~Arena!NeedsPage
      BY <3>2, <2>1, <1>1, EmplaceOnLastPage
    <3> QED
      BY <3>1, <3>2
  <2> QED
    BY <2>2 DEF Arena!Queue!Next, Arena!Queue!Put
<1>4. CASE Arena!DestroyFirst
  BY <1>1, <1>4, DestroyFirstLays DEF Arena!Queue!Next, Arena!Queue!DestroyFirst
<1>5. CASE Arena!Destroy
  BY <1>5, DestroyEmpties
<1>6. CASE Arena!Clear
  BY <1>2, <1>6 DEF Arena!Clear, Arena!pageVars
<1>7. CASE Arena!ClearDone
  BY <1>2, <1>7 DEF Arena!ClearDone, Arena!pageVars
<1>8. CASE UNCHANGED arenas
  BY <1>2, <1>8 DEF arenas
<1> QED
  BY <1>3, <1>4, <1>5, <1>6, <1>7, <1>8 DEF Arena!Next
-----------------------------------------------------------------------------
(***************************************************************************)
(* The theorems, each about the component a behaviour is about.            *)
(***************************************************************************)
ListsInv == subject = "list" => Lays(heap)
ArenasInv == subject = "arena" => ArenaInv
LibrariesInv == subject = "library" => LibraryInv
ContainersInv ==
    /\ subject = "array" => ArraysInv
    /\ ListsInv
    /\ ArenasInv
    /\ LibrariesInv
    /\ TablesInv

LEMMA ContainersInvInit == Init => ContainersInv
<1> SUFFICES ASSUME Init PROVE ContainersInv
  OBVIOUS
<1>1. subject = "array" => ArraysInv
  BY ArraysInvInit DEF Init
<1>2. ListsInv
  BY ListsInvInit DEF Init, ListsInv
<1>3. LibrariesInv
  BY LibraryInvInit DEF Init, LibrariesInv
<1>4. ArenasInv
  BY ArenaInvInit DEF Init, ArenasInv
<1> QED
  BY <1>1, <1>2, <1>3, <1>4, TablesInvInit DEF ContainersInv

LEMMA ContainersInvNext == ContainersInv /\ [Next]_vars => ContainersInv'
<1> SUFFICES ASSUME ContainersInv, [Next]_vars PROVE ContainersInv'
  OBVIOUS
<1>0. subject' = subject
  BY DEF Next, vars
<1>1. ASSUME subject = "array" PROVE ArraysInv'
  <2>1. [ArraysNext]_arrayVars
    BY <1>1 DEF Next, vars, ArraysStep, ListsStep, ArenasStep, LibrariesStep, TablesStep
  <2> QED
    BY <1>1, <2>1, ArraysInvNext DEF ContainersInv
<1>2. ASSUME subject = "list" PROVE Lays(heap')
  <2>1. Lays(heap)
    BY <1>2 DEF ContainersInv, ListsInv
  <2>2. List!Next \/ UNCHANGED lists
    BY <1>2 DEF Next, vars, ArraysStep, ListsStep, ArenasStep, LibrariesStep, TablesStep
  <2>3. CASE heap' = heap
    BY <2>1, <2>3
  <2> QED
    BY <2>1, <2>2, <2>3, ListsInvNext DEF lists
<1>3. ASSUME subject = "library" PROVE LibraryInv'
  <2>1. Library!Next \/ UNCHANGED libraries
    BY <1>3 DEF Next, vars, ArraysStep, ListsStep, ArenasStep, LibrariesStep, TablesStep
  <2> QED
    BY <1>3, <2>1, LibraryInvNext DEF ContainersInv, LibrariesInv
<1>4. TablesInv'
  BY TablesInvNext DEF ContainersInv
<1>5. ASSUME subject = "arena" PROVE ArenaInv'
  <2>1. Arena!Next \/ UNCHANGED arenas
    BY <1>5 DEF Next, vars, ArraysStep, ListsStep, ArenasStep, LibrariesStep, TablesStep
  <2> QED
    BY <1>5, <2>1, ArenaInvNext DEF ContainersInv, ArenasInv
<1> QED
  BY <1>0, <1>1, <1>2, <1>3, <1>4, <1>5 DEF ContainersInv, ListsInv, ArenasInv, LibrariesInv

\* In every state that any calls can lead to: arrays are of plain elements and
\* have room for those they hold; the nodes of the lists are laid out as paths
\* that do not meet, the pages of an arena as two lines, in one of which the places
\* of the elements are; VR's library is sorted once loaded; the tables are good.
THEOREM ContainersHold == Spec => []ContainersInv
<1> QED
  BY ContainersInvInit, ContainersInvNext, PTL DEF Spec

\* insert, emplace, erase, resize, assign, copy, move and swap act on the elements
\* as on a sequence, in every array that any calls can lead to, but for the
\* exceptions CallsAsSequences names; the elements fit where they are, and only a
\* small array can hold elements with a capacity of 0, whose destructors ~BSTArray
\* does not run.
THEOREM ArraysStayInOrder == Spec => []ArraysInOrder
<1>1. ContainersInv => ArraysInOrder
  BY ArraysAreSequences DEF ContainersInv, ArraysInOrder
<1> QED
  BY <1>1, ContainersHold, PTL

\* insert_after, erase_after, resize, assign, move and swap of any lists act on
\* their elements as on sequences, but for the exceptions that are named; and a
\* lookup in a library of any size has the answer of the library's table.
THEOREM CallsKeepTheirNames == Spec => []CallsDoAsNamed
<1>1. ContainersInv => CallsDoAsNamed
  BY ListsAreSequences, LibraryAnswers DEF ContainersInv, ListsInv, LibrariesInv, CallsDoAsNamed
<1> QED
  BY <1>1, ContainersHold, PTL

\* Every node of a list is in one place of one list, and every page of an arena in
\* one of its two, with the elements where operator++ goes and nowhere else; the
\* chains of a growing table are where their keys hash to.
THEOREM StorageStaysInOrder == Spec => []StorageHolds
<1>1. ContainersInv => StorageHolds
  <2> SUFFICES ASSUME ContainersInv PROVE StorageHolds
    OBVIOUS
  <2>1. subject = "list" => List!NodesOwned
    BY ListsOwnNodes DEF ContainersInv, ListsInv
  <2>2. subject = "arena" => Arena!PagesAccounted
    BY PagesAccountedFor DEF ContainersInv, ArenasInv, ArenaInv
  <2>3. subject = "table" => Table!ChainsHome /\ Table!FreeExact /\ Table!SweepNeverRevisits
    BY TablesKept DEF ContainersInv
  <2> QED
    BY <2>1, <2>2, <2>3 DEF StorageHolds
<1> QED
  BY <1>1, ContainersHold, PTL

\* An arena is a queue: emplace_back puts an element at its end, on whatever page,
\* clear() destroys the elements from the front, and no other step changes them.
THEOREM ArenasAreQueues == Spec => ArenaImplementsQueue
<1>1. Init => (subject = "arena" => Arena!Queue!Init)
  BY ArenaInvInit DEF Init
<1>2. ContainersInv /\ [Next]_vars
      => [subject = "arena" => Arena!Queue!Next \/ UNCHANGED Arena!Elements]_vars
  <2> SUFFICES ASSUME ContainersInv, Next, subject = "arena"
               PROVE  Arena!Queue!Next \/ UNCHANGED Arena!Elements
    OBVIOUS
  <2>1. Arena!Next
    BY DEF Next, ArraysStep, ListsStep, ArenasStep, LibrariesStep, TablesStep
  <2> QED
    BY <2>1, ArenaInvNext DEF ContainersInv, ArenasInv
<1> QED
  BY <1>1, <1>2, ContainersHold, PTL DEF Spec, ArenaImplementsQueue
\* A growing table is a set of keys, over rehashes and a caller's sweep too.
THEOREM TablesStaySets == Spec => TableImplementsSets
<1>1. Init => (subject = "table" => Table!Sets!SetInit)
  BY TablesInitSets
<1>2. TablesInv /\ [Next]_vars =>
          [subject = "table" => Table!Sets!SetNext
              \/ UNCHANGED [t \in Tables |-> Table!Found(table[t])]]_vars
  BY TablesStepSets DEF TableContents
<1> QED
  BY <1>1, <1>2, TablesInvInit, TablesInvNext, PTL DEF Spec, TableImplementsSets
=============================================================================
