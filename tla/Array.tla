-------------------------------- MODULE Array --------------------------------
(***************************************************************************)
(* BSTArray with its heap allocators and with the one that keeps a few     *)
(* elements inside the array (BSTSmallArray).  Elements are plain words:   *)
(* moving one copies it.  What a call reads from a block that has been     *)
(* freed, and an element nothing was ever stored in, is Junk.              *)
(*                                                                         *)
(* Each call is an operator from arrays to arrays, of which the actions    *)
(* and the properties are made; positions count from 0, as in the code.    *)
(***************************************************************************)
EXTENDS Naturals, Sequences

CONSTANTS
    Arrays,
    Values,
    Junk,
    Rooms,      \* how many elements an array's own storage may hold, 0: none
    MaxSize,    \* bound: the elements an array grows to
    MaxReserved, \* bound: what is reserved
    MaxRange    \* bound: the elements of a range that is inserted

ASSUME ArrayAssumption ==
    /\ Rooms \subseteq Nat
    /\ MaxSize \in Nat /\ MaxReserved \in Nat /\ MaxRange \in Nat

VARIABLES
    room,       \* the elements these arrays' own storage holds, 0: heap allocator
    array       \* each array: its elements, its capacity and where they are

arrayVars == <<room, array>>

Empty == [items |-> <<>>, capacity |-> 0, place |-> "none"]

ArraysInit == room \in Rooms /\ array = [x \in Arrays |-> Empty]

Size(r) == Len(r.items)
-----------------------------------------------------------------------------
(***************************************************************************)
(* The calls.                                                              *)
(***************************************************************************)

Inside(c) == room > 0 /\ c <= room

\* reserve_exact: nothing is changed, the capacity neither, when the new block
\* is the old one, the array's own, even if its elements are more than that; its
\* assertion, that c is no less than the size, is left out.
ReserveExact(r, c) ==
    IF c = r.capacity \/ (Inside(c) /\ r.place = "local") THEN r
    ELSE [r EXCEPT !.capacity = c, !.place = IF Inside(c) THEN "local" ELSE "heap"]

Larger(c, d) == IF c < d THEN d ELSE c

ReserveAuto(r, c) ==
    IF c > r.capacity THEN ReserveExact(r, Larger(c, 2 * r.capacity)) ELSE r

\* The elements move to another block.
Moves(r, c) == ReserveAuto(r, c) # r

Reserve(r, c) == IF c > r.capacity THEN ReserveExact(r, c) ELSE r

ShrinkToFit(r) == ReserveExact(r, Size(r))

\* An argument is passed by reference: it is a value of the caller's, or an
\* element of the array itself.
Value(v) == [own |-> FALSE, at |-> 0, val |-> v]
Own(i) == [own |-> TRUE, at |-> i, val |-> Junk]
Passed(r, arg) == IF arg.own THEN r.items[arg.at + 1] ELSE arg.val

\* What a call finds there once the elements may have moved.
Argument(items, arg, moved) ==
    CASE ~arg.own -> arg.val
      [] arg.own /\ moved -> Junk
      [] OTHER -> items[arg.at + 1]

EmplaceBack(r, arg) ==
    LET moved == Moves(r, Size(r) + 1)
    IN  [ReserveAuto(r, Size(r) + 1) EXCEPT !.items = Append(@, Argument(@, arg, moved))]

\* emplace: the last element is moved to a place of its own, the rest shifted,
\* then the argument is read.
Emplace(r, pos, arg) ==
    IF pos = Size(r) THEN EmplaceBack(r, arg)
    ELSE LET grown == EmplaceBack(r, Own(Size(r) - 1))
             shifted == [i \in 1..Size(grown) |->
                            IF i \in (pos + 2)..Size(r) THEN r.items[i - 1] ELSE grown.items[i]]
         IN  [grown EXCEPT !.items =
                 [shifted EXCEPT ![pos + 1] = Argument(shifted, arg, Moves(r, Size(r) + 1))]]

Erase(r, first, last) ==
    [r EXCEPT !.items = SubSeq(@, 1, first) \o SubSeq(@, last + 1, Len(@))]

\* The iterator erase returns.
EraseReturns(r, first, last) == IF first = last THEN last ELSE Size(Erase(r, first, last))

Clear(r) == Erase(r, 0, Size(r))

\* resize_impl; without a value the new elements are left as they are.
Resize(r, n, arg) ==
    CASE n < Size(r) -> Erase(r, n, Size(r))
      [] n = Size(r) -> r
      [] OTHER ->
         LET new == Argument(r.items, arg, Moves(r, n))
         IN  [ReserveAuto(r, n) EXCEPT !.items = @ \o [i \in 1..(n - Size(r)) |-> new]]

\* insert(pos, first, last): d elements at pos are moved to the end, however
\* many there are behind pos.
InsertRange(r, pos, s) ==
    LET d == Len(s)
        n == Size(r)
        grown == Resize(r, n + d, Value(Junk))
        old == grown.items
    IN  [grown EXCEPT !.items = [i \in 1..(n + d) |->
            CASE i \in (pos + 1)..(pos + d) -> s[i - pos]
              [] i > n /\ i \notin (pos + 1)..(pos + d) -> old[i - n + pos]
              [] OTHER -> old[i]]]

\* assign: elements there are are overwritten, the rest erased or inserted.
Assign(r, s) ==
    LET k == IF Size(r) < Len(s) THEN Size(r) ELSE Len(s)
        over == [r EXCEPT !.items = [i \in 1..Len(@) |-> IF i <= k THEN s[i] ELSE @[i]]]
    IN  InsertRange(Erase(over, k, Size(over)), k, SubSeq(s, k + 1, Len(s)))

CopyAssign(r, s) == Assign(Clear(r), s.items)

\* The loop that moves elements in, one emplace_back after the other.
Filled(r, s) ==
    LET filled[n \in 0..Len(s)] == IF n = 0 THEN r ELSE EmplaceBack(filled[n - 1], Value(s[n]))
    IN  filled[Len(s)]

\* Mutant: the elements there are stay.
MoveAssignAppends(r, s) ==
    IF room = 0 THEN <<s, Empty>>
    ELSE <<Filled(ReserveExact(r, Size(s)), s.items), Clear(s)>>

\* operator=(BSTArray&&), the move constructor when r is empty: the heap
\* allocators hand their block over, the small one's elements are moved.
MoveAssign(r, s) ==
    IF room = 0 THEN <<s, Empty>>
    ELSE <<Filled(ReserveExact(Clear(r), Size(s)), s.items), Clear(s)>>

Swap(r, s) ==
    LET t == MoveAssign(Empty, r)
        u == MoveAssign(t[2], s)
        w == MoveAssign(u[2], t[1])
    IN  <<u[1], w[1]>>
-----------------------------------------------------------------------------
Becomes(x, r) == array' = [array EXCEPT ![x] = r] /\ UNCHANGED room
Become(x, y, pair) == array' = [array EXCEPT ![x] = pair[1], ![y] = pair[2]] /\ UNCHANGED room

\* The arguments a caller can pass by reference, and the ranges.
Arguments(r) == {Value(v) : v \in Values} \cup {Own(i) : i \in 0..(Size(r) - 1)}
Ranges == UNION {[1..n -> Values] : n \in 0..MaxRange}

\* insert, emplace, push_back.
DoEmplace(x) ==
    \E pos \in 0..Size(array[x]), arg \in Arguments(array[x]) :
        /\ Size(array[x]) < MaxSize
        /\ Becomes(x, Emplace(array[x], pos, arg))
DoInsertRange(x) ==
    \E pos \in 0..Size(array[x]), s \in Ranges :
        /\ Size(array[x]) + Len(s) <= MaxSize
        /\ Becomes(x, InsertRange(array[x], pos, s))
\* erase, clear, pop_back.
DoErase(x) ==
    \E first, last \in 0..Size(array[x]) :
        first <= last /\ Becomes(x, Erase(array[x], first, last))
DoResize(x) ==
    \E n \in 0..MaxSize, arg \in Arguments(array[x]) \cup {Value(Junk)} :
        Becomes(x, Resize(array[x], n, arg))
DoReserve(x) == \E c \in 0..MaxReserved : Becomes(x, Reserve(array[x], c))
DoShrinkToFit(x) == Becomes(x, ShrinkToFit(array[x]))
DoAssign(x) == \E s \in Ranges : Becomes(x, Assign(array[x], s))
DoCopyAssign(x, y) == x # y /\ Becomes(x, CopyAssign(array[x], array[y]))
DoMoveAssign(x, y) == x # y /\ Become(x, y, MoveAssign(array[x], array[y]))
DoSwap(x, y) == x # y /\ Become(x, y, Swap(array[x], array[y]))

\* The destructor, and the construction of another array.
Renew(x) == Becomes(x, Empty)

ArraysNext ==
    \E x \in Arrays :
        \/ DoEmplace(x) \/ DoInsertRange(x) \/ DoErase(x) \/ DoResize(x)
        \/ DoReserve(x) \/ DoShrinkToFit(x) \/ DoAssign(x) \/ Renew(x)
        \/ \E y \in Arrays : DoCopyAssign(x, y) \/ DoMoveAssign(x, y) \/ DoSwap(x, y)

ArraysSpec == ArraysInit /\ [][ArraysNext]_arrayVars
-----------------------------------------------------------------------------
\* The elements fit where they are; the destructor, which does nothing when the
\* capacity is 0, destroys the elements there are, unless they are inside a small
\* array that was shrunk, or given an empty one's elements, while it was empty.
ElementsFit ==
    \A x \in Arrays :
        LET r == array[x]
        IN  /\ CASE r.place = "none" -> r = Empty
                 [] r.place = "local" -> Size(r) <= room
                 [] r.place = "heap" -> Size(r) <= r.capacity
            /\ r.capacity = 0 /\ Size(r) > 0 => r.place = "local"

\* Every call does to the elements what its name says, but: emplace before the
\* end of a full array loses the last element, and so does an argument that is an
\* element which moves; insert of a range keeps the order of what is behind it
\* only at the end or when there are as many; erase returns the end.
CallsAsSequences ==
    \A x \in Arrays :
        LET r == array[x]
            full == Moves(r, Size(r) + 1)
        IN  /\ \A pos \in 0..Size(r), arg \in Arguments(r) :
                 \/ Emplace(r, pos, arg).items =
                        SubSeq(r.items, 1, pos) \o <<Passed(r, arg)>> \o SubSeq(r.items, pos + 1, Size(r))
                 \/ full /\ (arg.own \/ pos < Size(r))
                 \/ arg.own /\ pos < arg.at
            /\ \A pos \in 0..Size(r), s \in Ranges :
                 \/ InsertRange(r, pos, s).items =
                        SubSeq(r.items, 1, pos) \o s \o SubSeq(r.items, pos + 1, Size(r))
                 \/ Size(r) - pos \notin {0, Len(s)}
            /\ \A first \in 0..Size(r) : \A last \in first..Size(r) :
                 /\ \A i \in 0..(Size(r) - 1) \ first..(last - 1) :
                        Erase(r, first, last).items[IF i < first THEN i + 1 ELSE i + 1 - (last - first)]
                            = r.items[i + 1]
                 /\ Size(Erase(r, first, last)) = Size(r) - (last - first)
                 /\ EraseReturns(r, first, last) = first \/ last < Size(r)
            /\ \A n \in 0..MaxSize, arg \in Arguments(r) :
                 \/ arg.own /\ Moves(r, n)
                 \/ /\ Size(Resize(r, n, arg)) = n
                    /\ \A i \in 1..n :
                         Resize(r, n, arg).items[i] = IF i <= Size(r) THEN r.items[i] ELSE Passed(r, arg)
            /\ \A s \in Ranges : Assign(r, s).items = s
            /\ \A y \in Arrays \ {x} :
                 /\ CopyAssign(r, array[y]).items = array[y].items
                 /\ MoveAssign(r, array[y])[1].items = array[y].items
                 /\ MoveAssign(r, array[y])[2].items = <<>>
                 /\ Swap(r, array[y])[1].items = array[y].items
                 /\ Swap(r, array[y])[2].items = r.items
=============================================================================
