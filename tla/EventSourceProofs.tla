------------------------- MODULE EventSourceProofs -------------------------
(***************************************************************************)
(* For any number of threads, sources and sinks, any nesting of callbacks  *)
(* and any mixture of registrations and unregistrations: the loops of      *)
(* Notify never run over a list that changed under them, no list holds a   *)
(* sink twice, no sink is called after it has deleted itself, callbacks    *)
(* that respect an order of the sources cannot deadlock, and the source    *)
(* implements a registry whose calls take effect at once.                  *)
(***************************************************************************)
EXTENDS EventSource, SequenceTheorems, FiniteSetTheorems, WellFoundedInduction, TLAPS

-----------------------------------------------------------------------------
(***************************************************************************)
(* What the helpers EventSource is built from do: the two changes of a     *)
(* list of sinks, and the three ways in which a step changes the stack of  *)
(* Notify calls of its thread.                                             *)
(***************************************************************************)
\* push_back of an element that is missing keeps a list free of duplicates.
LEMMA AppendMissingProperties ==
  ASSUME NEW S, NEW list \in Seq(S), NEW s \in S, IsInjective(list)
  PROVE  /\ AppendMissing(list, s) \in Seq(S)
         /\ IsInjective(AppendMissing(list, s))
         /\ ToSet(AppendMissing(list, s)) = ToSet(list) \cup {s}
<1>1. list \in [1..Len(list) -> S] /\ Len(list) \in Nat
  BY LenProperties
<1>2. CASE Contains(list, s)
  BY <1>1, <1>2 DEF AppendMissing, Contains, ToSet
<1>3. CASE ~Contains(list, s)
  <2> DEFINE more == Append(list, s)
  <2>1. /\ more \in Seq(S) /\ Len(more) = Len(list) + 1
        /\ \A i \in 1..Len(list) : more[i] = list[i]
        /\ more[Len(list) + 1] = s
    BY AppendProperties
  <2>2. DOMAIN more = 1..(Len(list) + 1)
    BY <2>1, LenProperties
  <2>3. \A i \in 1..Len(list) : list[i] # s
    BY <1>3 DEF Contains
  <2>4. IsInjective(more)
    BY <1>1, <2>1, <2>2, <2>3 DEF IsInjective
  <2>5. ToSet(more) = ToSet(list) \cup {s}
    BY <1>1, <2>1, <2>2 DEF ToSet
  <2> QED
    BY <1>3, <2>1, <2>4, <2>5 DEF AppendMissing
<1> QED
  BY <1>2, <1>3

\* Erasing the element std::find returns removes it, and moves the rest.
LEMMA RemoveFirstProperties ==
  ASSUME NEW S, NEW list \in Seq(S), NEW s, IsInjective(list)
  PROVE  /\ RemoveFirst(list, s) \in Seq(S)
         /\ IsInjective(RemoveFirst(list, s))
         /\ ToSet(RemoveFirst(list, s)) = ToSet(list) \ {s}
<1>1. list \in [1..Len(list) -> S] /\ Len(list) \in Nat
  BY LenProperties
<1>2. CASE ~\E i \in 1..Len(list) : list[i] = s
  BY <1>1, <1>2 DEF RemoveFirst, ToSet
<1>3. ASSUME NEW p \in 1..Len(list), list[p] = s
      PROVE  /\ RemoveFirst(list, s) \in Seq(S)
             /\ IsInjective(RemoveFirst(list, s))
             /\ ToSet(RemoveFirst(list, s)) = ToSet(list) \ {s}
  <2> DEFINE here == {i \in 1..Len(list) : list[i] = s}
             left == SubSeq(list, 1, p - 1)
             right == SubSeq(list, p + 1, Len(list))
             fewer == left \o right
  <2>1. here = {p}
    BY <1>1, <1>3 DEF IsInjective
  <2>2. SelectInSeq(list, LAMBDA v : v = s) = p
    BY <2>1 DEF SelectInSeq, Min
  <2>3. RemoveFirst(list, s) = fewer
    BY <1>3, <2>2 DEF RemoveFirst, RemoveAt
  <2>4. left \in Seq(S) /\ Len(left) = p - 1
        /\ \A i \in 1..(p - 1) : left[i] = list[i]
    BY <1>1, <1>3, SubSeqProperties
  <2>5. right \in Seq(S) /\ Len(right) = Len(list) - p
        /\ \A i \in 1..(Len(list) - p) : right[i] = list[p + i]
    <3>1. /\ p + 1 \in Int /\ Len(list) \in Int
          /\ \A i \in (p + 1)..Len(list) : list[i] \in S
      BY <1>1, <1>3
    <3>2. /\ right \in Seq(S)
          /\ Len(right) = IF p + 1 <= Len(list) THEN Len(list) - (p + 1) + 1 ELSE 0
          /\ \A i \in 1..(Len(list) - (p + 1) + 1) : right[i] = list[(p + 1) + i - 1]
      BY <3>1, SubSeqProperties
    <3> HIDE DEF right
    <3>4. Len(list) - (p + 1) + 1 = Len(list) - p
      BY <1>1, <1>3
    <3>3. Len(right) = Len(list) - p
      <4>1. CASE p + 1 <= Len(list)
        BY <3>2, <3>4, <4>1
      <4>2. CASE ~(p + 1 <= Len(list))
        <5>1. Len(list) - p = 0
          <6>1. Len(list) \in Nat
            BY <1>1
          <6>2. p \in Int /\ p <= Len(list)
            BY <6>1
          <6> QED
            BY <4>2, <6>1, <6>2
        <5>2. Len(right) = 0
          BY <3>2, <4>2
        <5> QED
          BY <5>1, <5>2
      <4> QED
        BY <4>1, <4>2
    <3>5. ASSUME NEW i \in 1..(Len(list) - p) PROVE right[i] = list[p + i]
      <4>1. (p + 1) + i - 1 = p + i
        BY <1>3, <3>5
      <4> QED
        BY <3>2, <3>4, <4>1
    <3> QED
      BY <3>2, <3>3, <3>5
  <2>6. fewer \in Seq(S) /\ Len(fewer) = Len(list) - 1
        /\ \A i \in 1..(Len(list) - 1) :
               fewer[i] = IF i < p THEN list[i] ELSE list[i + 1]
    <3> HIDE DEF left, right
    <3>1. /\ fewer \in Seq(S) /\ Len(fewer) = Len(left) + Len(right)
          /\ \A i \in 1..(Len(left) + Len(right)) :
                 fewer[i] = IF i <= Len(left) THEN left[i] ELSE right[i - Len(left)]
      BY <2>4, <2>5, ConcatProperties
    <3> HIDE DEF fewer
    <3> QED
      BY <1>1, <1>3, <2>4, <2>5, <3>1
  <2>7. DOMAIN fewer = 1..(Len(list) - 1)
    BY <2>6, LenProperties
  <2> HIDE DEF fewer
  <2>8. IsInjective(fewer)
    BY <1>1, <1>3, <2>6, <2>7 DEF IsInjective
  <2>9. ToSet(fewer) = ToSet(list) \ {s}
    <3>1. \A i \in DOMAIN fewer : fewer[i] \in ToSet(list) \ {s}
      BY <1>1, <1>3, <2>6, <2>7 DEF IsInjective, ToSet
    <3>2. ASSUME NEW j \in DOMAIN list, j # p
          PROVE  \E i \in DOMAIN fewer : fewer[i] = list[j]
      <4>1. CASE j < p
        <5>1. j \in DOMAIN fewer /\ fewer[j] = list[j]
          BY <1>1, <1>3, <2>6, <2>7, <4>1
        <5> QED
          BY <5>1
      <4>2. CASE ~(j < p)
        <5>1. j - 1 \in DOMAIN fewer /\ fewer[j - 1] = list[j]
          BY <1>1, <1>3, <2>6, <2>7, <3>2, <4>2
        <5> QED
          BY <5>1
      <4> QED
        BY <4>1, <4>2
    <3>3. ToSet(list) \ {s} \subseteq ToSet(fewer)
      BY <1>1, <1>3, <3>2 DEF ToSet
    <3> QED
      BY <3>1, <3>3 DEF ToSet
  <2> QED
    BY <2>3, <2>6, <2>8, <2>9
<1> QED
  BY <1>2, <1>3
-----------------------------------------------------------------------------
\* What the three ways to change a stack do to it, and to the sets of its
\* frames.
LEMMA TopFacts ==
  ASSUME stack \in [Threads -> Seq(Frame)],
         NEW t \in Threads, stack[t] # <<>>
  PROVE  /\ Len(stack[t]) \in Nat \ {0}
         /\ DOMAIN stack[t] = 1..Len(stack[t])
         /\ Len(stack[t]) \in FramesOf(t, Top(t).source)
         /\ Top(t) = stack[t][Len(stack[t])]
         /\ Top(t) \in Frame
<1>1. stack[t] \in Seq(Frame)
  OBVIOUS
<1>2. Len(stack[t]) \in Nat \ {0} /\ DOMAIN stack[t] = 1..Len(stack[t])
  BY <1>1, EmptySeq, LenProperties
<1> QED
  BY <1>1, <1>2, ElementOfSeq DEF Top, Last, FramesOf

LEMMA PushFrame ==
  ASSUME stack \in [Threads -> Seq(Frame)],
         NEW t \in Threads, NEW f \in Frame,
         stack' = [stack EXCEPT ![t] = Append(@, f)]
  PROVE  /\ stack' \in [Threads -> Seq(Frame)]
         /\ \A u \in Threads \ {t} : stack'[u] = stack[u]
         /\ stack'[t] # <<>> /\ Top(t)' = f
         /\ Len(stack[t]) \in Nat /\ Len(stack'[t]) = Len(stack[t]) + 1
         /\ DOMAIN stack[t] = 1..Len(stack[t])
         /\ DOMAIN stack'[t] = 1..(Len(stack[t]) + 1)
         /\ \A i \in DOMAIN stack[t] : stack'[t][i] = stack[t][i]
         /\ stack'[t][Len(stack[t]) + 1] = f
<1>1. stack[t] \in Seq(Frame) /\ stack'[t] = Append(stack[t], f)
  OBVIOUS
<1>2. /\ stack'[t] \in Seq(Frame) /\ stack'[t] # <<>>
      /\ Len(stack'[t]) = Len(stack[t]) + 1
      /\ \A i \in 1..Len(stack[t]) : stack'[t][i] = stack[t][i]
      /\ stack'[t][Len(stack[t]) + 1] = f
  BY <1>1, AppendProperties
<1>3. /\ Len(stack[t]) \in Nat /\ DOMAIN stack[t] = 1..Len(stack[t])
      /\ DOMAIN stack'[t] = 1..(Len(stack[t]) + 1)
  BY <1>1, <1>2, LenProperties
<1> QED
  BY <1>2, <1>3 DEF Top, Last

LEMMA PopFrame ==
  ASSUME stack \in [Threads -> Seq(Frame)],
         NEW t \in Threads, stack[t] # <<>>, Pop(t)
  PROVE  /\ stack' \in [Threads -> Seq(Frame)]
         /\ \A u \in Threads \ {t} : stack'[u] = stack[u]
         /\ Len(stack'[t]) = Len(stack[t]) - 1
         /\ DOMAIN stack'[t] = 1..(Len(stack[t]) - 1)
         /\ \A i \in DOMAIN stack'[t] : stack'[t][i] = stack[t][i]
         /\ stack'[t] # <<>> =>
                Len(stack[t]) > 1 /\ Top(t)' = stack[t][Len(stack[t]) - 1]
<1>1. /\ stack[t] \in Seq(Frame)
      /\ stack'[t] = SubSeq(stack[t], 1, Len(stack[t]) - 1)
  BY DEF Pop, Front
<1>2. Len(stack[t]) \in Nat \ {0} /\ DOMAIN stack[t] = 1..Len(stack[t])
  BY TopFacts
<1>3. /\ 1 \in Int /\ Len(stack[t]) - 1 \in Int
      /\ \A i \in 1..(Len(stack[t]) - 1) : stack[t][i] \in Frame
  BY <1>1, <1>2, ElementOfSeq
<1>4. /\ stack'[t] \in Seq(Frame)
      /\ Len(stack'[t]) = Len(stack[t]) - 1
      /\ \A i \in 1..(Len(stack[t]) - 1) : stack'[t][i] = stack[t][i]
  <2>1. /\ stack'[t] \in Seq(Frame)
        /\ Len(stack'[t]) = IF 1 <= Len(stack[t]) - 1
                            THEN (Len(stack[t]) - 1) - 1 + 1 ELSE 0
        /\ \A i \in 1..((Len(stack[t]) - 1) - 1 + 1) :
               stack'[t][i] = stack[t][1 + i - 1]
    BY <1>1, <1>3, SubSeqProperties
  <2>2. (Len(stack[t]) - 1) - 1 + 1 = Len(stack[t]) - 1
    BY <1>2
  <2>3. Len(stack'[t]) = Len(stack[t]) - 1
    BY <1>2, <2>1
  <2>4. \A i \in 1..(Len(stack[t]) - 1) : 1 + i - 1 = i
    BY <1>2
  <2> QED
    BY <2>1, <2>2, <2>3, <2>4
<1>5. DOMAIN stack'[t] = 1..(Len(stack[t]) - 1)
  BY <1>4, LenProperties
<1>6. stack'[t] # <<>> => Len(stack[t]) > 1
  <2>1. stack'[t] # <<>> => Len(stack'[t]) # 0
    BY <1>4, EmptySeq
  <2>2. \A n \in Nat \ {0} : n - 1 # 0 => n > 1
    OBVIOUS
  <2> QED
    BY <1>2, <1>4, <2>1, <2>2
<1>7. stack' \in [Threads -> Seq(Frame)]
      /\ \A u \in Threads \ {t} : stack'[u] = stack[u]
  BY <1>4 DEF Pop
<1> QED
  BY <1>2, <1>4, <1>5, <1>6, <1>7 DEF Top, Last

LEMMA ReplaceTop ==
  ASSUME stack \in [Threads -> Seq(Frame)],
         NEW t \in Threads, stack[t] # <<>>, NEW f \in Frame, SetTop(t, f)
  PROVE  /\ stack' \in [Threads -> Seq(Frame)]
         /\ \A u \in Threads \ {t} : stack'[u] = stack[u]
         /\ stack'[t] # <<>> /\ Top(t)' = f
         /\ Len(stack'[t]) = Len(stack[t])
         /\ DOMAIN stack'[t] = DOMAIN stack[t]
         /\ \A i \in DOMAIN stack[t] :
                stack'[t][i] = IF i = Len(stack[t]) THEN f ELSE stack[t][i]
<1> DEFINE n == Len(stack[t])
<1>1. /\ stack[t] \in Seq(Frame) /\ n \in 1..n
      /\ DOMAIN stack[t] = 1..n
      /\ stack'[t] = [stack[t] EXCEPT ![n] = f]
  BY TopFacts DEF SetTop
<1>2. /\ stack'[t] \in Seq(Frame) /\ Len(stack'[t]) = n
      /\ \A i \in 1..n : stack'[t][i] = IF i = n THEN f ELSE stack[t][i]
  BY <1>1, ExceptSeq
<1>3. DOMAIN stack'[t] = 1..n
  BY <1>2, LenProperties
<1>4. stack'[t] # <<>>
  BY <1>1, <1>2, EmptySeq
<1>5. stack' \in [Threads -> Seq(Frame)]
      /\ \A u \in Threads \ {t} : stack'[u] = stack[u]
  BY <1>2 DEF SetTop
<1> QED
  BY <1>1, <1>2, <1>3, <1>4, <1>5 DEF Top, Last

\* The same for the sets of frames, of which there are finitely many.
LEMMA FramesFinite ==
  ASSUME stack \in [Threads -> Seq(Frame)], NEW t \in Threads, NEW src
  PROVE  /\ IsFiniteSet(FramesOf(t, src)) /\ Cardinality(FramesOf(t, src)) \in Nat
         /\ IsFiniteSet(LoopsOf(t, src)) /\ Cardinality(LoopsOf(t, src)) \in Nat
         /\ Cardinality(LoopsOf(t, src)) <= Cardinality(FramesOf(t, src))
         /\ Cardinality(LoopsOf(t, src)) = 0 <=> LoopsOf(t, src) = {}
<1>1. stack[t] \in Seq(Frame)
  OBVIOUS
<1>2. Len(stack[t]) \in Nat /\ DOMAIN stack[t] = 1..Len(stack[t])
  BY <1>1, LenProperties
<1>3. IsFiniteSet(1..Len(stack[t]))
  BY <1>2, FS_Interval
<1>4. IsFiniteSet(FramesOf(t, src))
  BY <1>2, <1>3, FS_Subset DEF FramesOf
<1>5. LoopsOf(t, src) \subseteq FramesOf(t, src)
  BY DEF LoopsOf
<1>6. /\ IsFiniteSet(LoopsOf(t, src))
      /\ Cardinality(LoopsOf(t, src)) <= Cardinality(FramesOf(t, src))
  BY <1>4, <1>5, FS_Subset
<1> QED
  BY <1>4, <1>6, FS_CardinalityType, FS_EmptySet

LEMMA PushFrames ==
  ASSUME stack \in [Threads -> Seq(Frame)],
         NEW t \in Threads, NEW f \in Frame, f.stage # "looping",
         stack' = [stack EXCEPT ![t] = Append(@, f)],
         NEW u \in Threads, NEW src \in Sources
  PROVE  /\ FramesOf(u, src)' = IF u = t /\ src = f.source
                                THEN FramesOf(u, src) \cup {Len(stack[t]) + 1}
                                ELSE FramesOf(u, src)
         /\ LoopsOf(u, src)' = LoopsOf(u, src)
         /\ Len(stack[t]) + 1 \notin FramesOf(t, src)
<1>1. CASE u # t
  BY <1>1, PushFrame DEF FramesOf, LoopsOf
<1>2. CASE u = t
  BY <1>2, PushFrame DEF FramesOf, LoopsOf
<1>3. Len(stack[t]) + 1 \notin DOMAIN stack[t]
  BY PushFrame
<1> QED
  BY <1>1, <1>2, <1>3 DEF FramesOf

LEMMA PopFrames ==
  ASSUME stack \in [Threads -> Seq(Frame)],
         NEW t \in Threads, stack[t] # <<>>, Pop(t),
         NEW u \in Threads, NEW src \in Sources
  PROVE  /\ FramesOf(u, src)' = IF u = t THEN FramesOf(u, src) \ {Len(stack[t])}
                                         ELSE FramesOf(u, src)
         /\ LoopsOf(u, src)' = IF u = t THEN LoopsOf(u, src) \ {Len(stack[t])}
                                        ELSE LoopsOf(u, src)
<1>1. CASE u # t
  BY <1>1, PopFrame DEF FramesOf, LoopsOf
<1>2. CASE u = t
  <2>1. DOMAIN stack'[t] = DOMAIN stack[t] \ {Len(stack[t])}
    BY PopFrame, TopFacts
  <2> QED
    BY <1>2, <2>1, PopFrame DEF FramesOf, LoopsOf
<1> QED
  BY <1>1, <1>2

LEMMA ReplaceTopFrames ==
  ASSUME stack \in [Threads -> Seq(Frame)],
         NEW t \in Threads, stack[t] # <<>>, NEW f \in Frame, SetTop(t, f),
         f.source = Top(t).source,
         NEW u \in Threads, NEW src \in Sources
  PROVE  /\ FramesOf(u, src)' = FramesOf(u, src)
         /\ LoopsOf(u, src)' =
                IF u # t \/ src # f.source THEN LoopsOf(u, src)
                ELSE IF f.stage = "looping" THEN LoopsOf(u, src) \cup {Len(stack[t])}
                ELSE LoopsOf(u, src) \ {Len(stack[t])}
<1>1. CASE u # t
  BY <1>1, ReplaceTop DEF FramesOf, LoopsOf
<1>2. CASE u = t
  <2>1. /\ DOMAIN stack'[t] = DOMAIN stack[t]
        /\ \A i \in DOMAIN stack[t] :
               stack'[t][i] = IF i = Len(stack[t]) THEN f ELSE stack[t][i]
    BY ReplaceTop
  <2>2. /\ Len(stack[t]) \in DOMAIN stack[t]
        /\ stack[t][Len(stack[t])].source = f.source
    BY TopFacts
  <2>3. FramesOf(t, src)' = FramesOf(t, src)
    BY <2>1, <2>2 DEF FramesOf
  <2>4. LoopsOf(t, src)' =
            {i \in FramesOf(t, src) :
                IF i = Len(stack[t]) THEN f.stage = "looping"
                                     ELSE stack[t][i].stage = "looping"}
    BY <2>1, <2>3 DEF LoopsOf, FramesOf
  <2>5. Len(stack[t]) \in FramesOf(t, src) <=> src = f.source
    BY <2>2 DEF FramesOf
  <2> QED
    BY <1>2, <2>3, <2>4, <2>5 DEF LoopsOf
<1> QED
  BY <1>1, <1>2

-----------------------------------------------------------------------------
\* Sets of numbers have a least member.
Below == {ss \in Nat \X Nat : ss[1] < ss[2]}

LEMMA LeastNumber ==
  ASSUME NEW S \in SUBSET Nat, S # {}
  PROVE  \E x \in S : \A y \in S : x <= y
<1>1. Below = OpToRel(<, Nat)
  BY DEF OpToRel, Below
<1>2. PICK x \in S : \A y \in S : <<y, x>> \notin Below
  BY <1>1, WFMin, NatLessThanWellFounded
<1>3. ASSUME NEW y \in S PROVE x <= y
  <2>1. x \in Nat /\ y \in Nat
    OBVIOUS
  <2>2. ~(y < x)
    BY <1>2, <2>1 DEF Below
  <2> QED
    BY <2>1, <2>2
<1> QED
  BY <1>3

-----------------------------------------------------------------------------
(***************************************************************************)
(* The inductive invariant.                                                *)
(***************************************************************************)
\* Only the innermost frame of a thread may be outside a callback, and only a
\* sink that stays alive calls anybody.
FrameShape(t, i) ==
    /\ stack[t][i].sink # NoSink => stack[t][i].stage = "looping"
    /\ i < Len(stack[t]) => stack[t][i].sink \in Sinks \ Mortal
    /\ stack[t][i].next >= 1
    /\ stack[t][i].stage = "looping" => stack[t][i].next <= stack[t][i].end + 1

StackShape == \A t \in Threads : \A i \in DOMAIN stack[t] : FrameShape(t, i)

\* A call is requested from a callback or from outside every Notify, and is
\* one its caller may make.
CallShape(t) ==
    request[t] # NoCall =>
        /\ stack[t] # <<>> => Top(t).sink \in Sinks \ Mortal
        /\ request[t].op = "Notify" =>
               Cardinality(FramesOf(t, request[t].source)) < MaxNesting
        /\ request[t].op = "Construct" => request[t].sink \in Mortal
        /\ request[t].op \in {"RegisterSink", "UnregisterSink"} =>
               request[t].sink \in (Sinks \ Mortal) \cup {NoSink}

RequestShape == \A t \in Threads : CallShape(t)

\* The lock: one thread at a time is inside a source, and not too deeply.
OneInside ==
    \A src \in Sources : \A t \in Threads :
        /\ Cardinality(FramesOf(t, src)) <= MaxNesting
        /\ \A u \in Threads :
               FramesOf(t, src) # {} /\ FramesOf(u, src) # {} => t = u

\* How far the two short loops of Notify have come.
Progress(t) ==
    LET src  == Top(t).source
        done == 1..(Top(t).next - 1)
    IN  /\ In(t, "adding") /\ notifying[src] = 0 =>
               \A i \in done \cap DOMAIN pendingRegisters[src] :
                   pendingRegisters[src][i] \in ToSet(sinks[src])
        /\ In(t, "removing") =>
               /\ notifying[src] = 0
               /\ \A i \in done \cap DOMAIN pendingUnregisters[src] :
                      pendingUnregisters[src][i] \notin ToSet(sinks[src])

StageShape == \A t \in Threads : Progress(t)

\* A sink that deletes itself when called is registered with one source at
\* most, only while it exists, and not before its constructor says so.
Constructing(t, s) ==
    request[t] # NoCall /\ request[t].op = "Construct" /\ request[t].sink = s

Calls(t, s) == InCallback(t) /\ Top(t).sink = s

MortalShape ==
    \A s \in Mortal :
        /\ \A src \in Sources : s \in Registered[src] => s \in alive
        /\ \A src1, src2 \in Sources :
               s \in Registered[src1] /\ s \in Registered[src2] => src1 = src2
        /\ \A t \in Threads : Constructing(t, s) =>
               /\ s \in alive
               /\ \A src \in Sources : s \notin Registered[src]
               /\ \A u \in Threads : Constructing(u, s) => u = t
        /\ \A t \in Threads : Calls(t, s) => s \in Registered[Top(t).source]

\* The inductive invariant.
IInv ==
    /\ TypeOK /\ ListsConsistent /\ LoopsAgree
    /\ StackShape /\ RequestShape /\ OneInside /\ StageShape /\ MortalShape

-----------------------------------------------------------------------------
\* The source of a thread's innermost call: nobody else is inside it, and
\* _notifying counts this thread's loops over it.
LEMMA InnermostCall ==
  ASSUME IInv, NEW t \in Threads, stack[t] # <<>>, NEW src, src = Top(t).source
  PROVE  /\ Top(t) \in Frame /\ src \in Sources
         /\ Len(stack[t]) \in FramesOf(t, src)
         /\ \A u \in Threads \ {t} : FramesOf(u, src) = {} /\ LoopsOf(u, src) = {}
         /\ notifying[src] = Cardinality(LoopsOf(t, src))
         /\ notifying[src] = 0 <=> LoopsOf(t, src) = {}
         /\ Top(t).stage = "looping" => notifying[src] # 0
         /\ Top(t).sink # NoSink => Top(t).stage = "looping"
         /\ FrameShape(t, Len(stack[t]))
<1>1. stack \in [Threads -> Seq(Frame)]
  BY DEF IInv, TypeOK
<1>2. /\ Top(t) \in Frame /\ Top(t) = stack[t][Len(stack[t])]
      /\ Len(stack[t]) \in FramesOf(t, src)
      /\ Len(stack[t]) \in DOMAIN stack[t]
  BY <1>1, TopFacts DEF FramesOf
<1>3. src \in Sources
  BY <1>2 DEF Frame
<1>4. \A u \in Threads \ {t} : FramesOf(u, src) = {}
  BY <1>2, <1>3 DEF IInv, OneInside
<1>5. \A u \in Threads \ {t} : LoopsOf(u, src) = {}
  BY <1>4 DEF LoopsOf
<1>6. notifying[src] = Cardinality(LoopsOf(t, src))
  BY <1>2, <1>3 DEF IInv, LoopsAgree
<1>7. notifying[src] = 0 <=> LoopsOf(t, src) = {}
  BY <1>1, <1>6, FramesFinite
<1>8. FrameShape(t, Len(stack[t]))
  BY <1>2 DEF IInv, StackShape
<1>9. Top(t).stage = "looping" => LoopsOf(t, src) # {}
  BY <1>2 DEF LoopsOf
<1> QED
  BY <1>2, <1>3, <1>4, <1>5, <1>6, <1>7, <1>8, <1>9 DEF FrameShape

\* Who gets the lock of a source while _notifying is 0 is alone with it: no
\* Notify call of any thread is in its short loops either.
LEMMA Quiet ==
  ASSUME IInv, NEW t \in Threads, NEW src \in Sources, LockFree(t, src),
         stack[t] # <<>> => Top(t).sink \in Sinks,
         notifying[src] = 0
  PROVE  \A u \in Threads : FramesOf(u, src) = {} /\ LoopsOf(u, src) = {}
<1>1. stack \in [Threads -> Seq(Frame)]
  BY DEF IInv, TypeOK
<1>2. ASSUME NEW i \in FramesOf(t, src)
      PROVE  stack[t][i].stage = "looping"
  <2>1. stack[t] \in Seq(Frame) /\ i \in DOMAIN stack[t]
    BY <1>1 DEF FramesOf
  <2>2. stack[t] # <<>>
    BY <2>1, EmptySeq, LenProperties
  <2>3. i \in 1..Len(stack[t]) /\ Len(stack[t]) \in Nat
    BY <2>1, LenProperties
  <2>4. FrameShape(t, i)
    BY <2>1 DEF IInv, StackShape
  <2>5. CASE i = Len(stack[t])
    <3>1. stack[t][i] = Top(t)
      BY <1>1, <2>2, <2>5, TopFacts
    <3> QED
      BY <2>2, <2>4, <3>1, EventSourceAssumption DEF FrameShape
  <2>6. CASE i # Len(stack[t])
    <3>1. i < Len(stack[t])
      BY <2>3, <2>6
    <3> QED
      BY <2>4, <3>1, EventSourceAssumption DEF FrameShape
  <2> QED
    BY <2>5, <2>6
<1>3. LoopsOf(t, src) = FramesOf(t, src)
  BY <1>2 DEF LoopsOf
<1>4. FramesOf(t, src) = {}
  <2>1. SUFFICES ASSUME FramesOf(t, src) # {} PROVE FALSE
    OBVIOUS
  <2>2. notifying[src] = Cardinality(LoopsOf(t, src))
    BY <2>1 DEF IInv, LoopsAgree
  <2> QED
    BY <1>1, <1>3, <2>1, <2>2, FramesFinite
<1>5. \A u \in Threads : FramesOf(u, src) = {}
  BY <1>4 DEF LockFree
<1> QED
  BY <1>5 DEF LoopsOf

-----------------------------------------------------------------------------
\* What keeps each part of the invariant.  First, a step that leaves every
\* frame its source, stage and end, and changes a list no loop runs over.
LEMMA SameLoops ==
  ASSUME IInv, stack' \in [Threads -> Seq(Frame)], notifying' = notifying,
         \A u \in Threads : \A src \in Sources :
             /\ FramesOf(u, src)' = FramesOf(u, src)
             /\ LoopsOf(u, src)' = LoopsOf(u, src)
             /\ \A i \in LoopsOf(u, src) : stack'[u][i].end = stack[u][i].end,
         \A src \in Sources :
             \/ sinks'[src] = sinks[src]
             \/ \A u \in Threads : LoopsOf(u, src) = {},
         \A src \in Sources :
             (\A u \in Threads : FramesOf(u, src) = {})
                 => pendingUnregisters'[src] = <<>>
  PROVE  LoopsAgree' /\ OneInside'
<1>1. OneInside'
  BY DEF IInv, OneInside
<1>2. ASSUME NEW src \in Sources
      PROVE  /\ \A u \in Threads : \A i \in LoopsOf(u, src)' :
                    stack'[u][i].end = Len(sinks'[src])
             /\ \A u \in Threads : FramesOf(u, src)' # {} =>
                    notifying'[src] = Cardinality(LoopsOf(u, src)')
             /\ (\A u \in Threads : FramesOf(u, src)' = {}) =>
                    notifying'[src] = 0 /\ pendingUnregisters'[src] = <<>>
  BY <1>2 DEF IInv, LoopsAgree
<1>3. LoopsAgree'
  BY <1>2 DEF LoopsAgree
<1> QED
  BY <1>1, <1>3

\* A step of t, which has no call to make, leaves it without one.
LEMMA SameRequests ==
  ASSUME IInv, NEW t \in Threads, request' = request, request[t] = NoCall,
         \A u \in Threads \ {t} : stack'[u] = stack[u]
  PROVE  RequestShape'
<1>1. ASSUME NEW u \in Threads \ {t}
      PROVE  CallShape(u)'
  BY <1>1 DEF IInv, RequestShape, CallShape, Top, FramesOf
<1>2. CallShape(t)'
  BY DEF CallShape
<1> QED
  BY <1>1, <1>2 DEF RequestShape

\* A step of t inside src changes nothing about the calls of the others.
LEMMA SameProgress ==
  ASSUME IInv, NEW t \in Threads, stack[t] # <<>>,
         \A u \in Threads \ {t} : stack'[u] = stack[u],
         \A src \in Sources \ {Top(t).source} :
             /\ sinks'[src] = sinks[src]
             /\ pendingRegisters'[src] = pendingRegisters[src]
             /\ pendingUnregisters'[src] = pendingUnregisters[src]
             /\ notifying'[src] = notifying[src],
         Progress(t)'
  PROVE  StageShape'
<1>1. ASSUME NEW u \in Threads \ {t}
      PROVE  Progress(u)'
  <2>1. CASE stack[u] = <<>>
    BY <1>1, <2>1 DEF Progress, In
  <2>2. CASE stack[u] # <<>>
    <3>1. Top(u).source \in Sources /\ FramesOf(u, Top(u).source) # {}
      BY <2>2, InnermostCall
    <3>2. FramesOf(u, Top(t).source) = {}
      BY InnermostCall
    <3>3. Top(u).source \in Sources \ {Top(t).source}
      BY <3>1, <3>2
    <3>4. Progress(u)
      BY DEF IInv, StageShape
    <3>5. Top(u)' = Top(u) /\ In(u, "adding")' = In(u, "adding")
          /\ In(u, "removing")' = In(u, "removing")
      BY <1>1 DEF Top, In
    <3> QED
      BY <3>3, <3>4, <3>5 DEF Progress
  <2> QED
    BY <2>1, <2>2
<1> QED
  BY <1>1 DEF StageShape

\* A step that neither registers nor unregisters a mortal sink.
LEMMA SameMortals ==
  ASSUME IInv, NEW t \in Threads, alive' = alive,
         \A s \in Mortal : \A src \in Sources :
             s \in Registered'[src] <=> s \in Registered[src],
         \A s \in Mortal : \A u \in Threads :
             Constructing(u, s)' => Constructing(u, s),
         \A u \in Threads \ {t} : stack'[u] = stack[u],
         \A s \in Mortal : Calls(t, s)' => s \in Registered[Top(t)'.source],
         stack' \in [Threads -> Seq(Frame)]
  PROVE  MortalShape'
<1>1. ASSUME NEW s \in Mortal
      PROVE  /\ \A src \in Sources : s \in Registered'[src] => s \in alive'
             /\ \A src1, src2 \in Sources :
                    s \in Registered'[src1] /\ s \in Registered'[src2] => src1 = src2
             /\ \A u \in Threads : Constructing(u, s)' =>
                    /\ s \in alive'
                    /\ \A src \in Sources : s \notin Registered'[src]
                    /\ \A v \in Threads : Constructing(v, s)' => v = u
  BY <1>1 DEF IInv, MortalShape
<1>2. ASSUME NEW s \in Mortal, NEW u \in Threads, Calls(u, s)'
      PROVE  s \in Registered'[Top(u)'.source]
  <2>1. Top(u)'.source \in Sources
    <3>1. stack'[u] # <<>> /\ stack'[u] \in Seq(Frame)
      BY <1>2 DEF Calls, InCallback
    <3>2. Len(stack'[u]) \in 1..Len(stack'[u])
      BY <3>1, EmptySeq, LenProperties
    <3>3. stack'[u][Len(stack'[u])] \in Frame
      BY <3>1, <3>2, ElementOfSeq
    <3>4. Top(u)' = stack'[u][Len(stack'[u])]
      BY DEF Top, Last
    <3> QED
      BY <3>3, <3>4 DEF Frame
  <2>2. CASE u = t
    BY <1>2, <2>1, <2>2
  <2>3. CASE u # t
    <3>1. Top(u)' = Top(u) /\ Calls(u, s)
      BY <1>2, <2>3 DEF Calls, InCallback, Top
    <3>2. s \in Registered[Top(u).source]
      BY <3>1 DEF IInv, MortalShape
    <3> QED
      BY <2>1, <3>1, <3>2
  <2> QED
    BY <2>2, <2>3
<1> QED
  BY <1>1, <1>2 DEF MortalShape

\* The innermost frame of t is replaced by one of the same shape, or goes.
LEMMA SameShapes ==
  ASSUME IInv, NEW t \in Threads, stack[t] # <<>>,
         \/ Pop(t)
         \/ \E f \in Frame :
                /\ SetTop(t, f)
                /\ f.sink # NoSink => f.stage = "looping"
                /\ f.next >= 1
                /\ f.stage = "looping" => f.next <= f.end + 1
  PROVE  StackShape'
<1> SUFFICES ASSUME NEW u \in Threads, NEW i \in DOMAIN stack'[u]
             PROVE  FrameShape(u, i)'
  BY DEF StackShape
<1>1. stack \in [Threads -> Seq(Frame)]
  BY DEF IInv, TypeOK
<1>2. CASE u # t
  <2>1. stack'[u] = stack[u]
    BY <1>1, <1>2, PopFrame, ReplaceTop
  <2> QED
    BY <2>1 DEF IInv, StackShape, FrameShape
<1>3. CASE u = t /\ Pop(t)
  <2>1. /\ stack'[t][i] = stack[t][i] /\ i \in DOMAIN stack[t]
        /\ i < Len(stack[t])
    BY <1>1, <1>3, PopFrame, TopFacts
  <2>2. FrameShape(t, i)
    BY <2>1 DEF IInv, StackShape
  <2> QED
    BY <1>3, <2>1, <2>2 DEF FrameShape
<1>4. ASSUME u = t, NEW f \in Frame, SetTop(t, f),
             f.sink # NoSink => f.stage = "looping",
             f.next >= 1,
             f.stage = "looping" => f.next <= f.end + 1
      PROVE  FrameShape(u, i)'
  <2>1. /\ i \in DOMAIN stack[t] /\ Len(stack'[t]) = Len(stack[t])
        /\ stack'[t][i] = IF i = Len(stack[t]) THEN f ELSE stack[t][i]
        /\ Len(stack[t]) \in Nat
    BY <1>1, <1>4, ReplaceTop, TopFacts
  <2>2. FrameShape(t, i)
    BY <2>1 DEF IInv, StackShape
  <2> QED
    BY <1>4, <2>1, <2>2 DEF FrameShape
<1> QED
  BY <1>2, <1>3, <1>4

-----------------------------------------------------------------------------
\* What a step may do to the lists of sinks: those of src alone change, to
\* well-formed ones, and _sinks only while no loop runs over it.
ListTypes ==
    /\ sinks \in [Sources -> Seq(Sinks)]
    /\ pendingRegisters \in [Sources -> Seq(Sinks)]
    /\ pendingUnregisters \in [Sources -> Seq(Sinks)]

OnlyOf(src) ==
    \A other \in Sources \ {src} :
        /\ sinks'[other] = sinks[other]
        /\ pendingRegisters'[other] = pendingRegisters[other]
        /\ pendingUnregisters'[other] = pendingUnregisters[other]

Careful(src) ==
    /\ ListTypes' /\ ListsConsistent' /\ OnlyOf(src)
    /\ \A any \in Sources :
           \/ sinks'[any] = sinks[any]
           \/ \A u \in Threads : LoopsOf(u, any) = {}
    /\ \A any \in Sources :
           (\A u \in Threads : FramesOf(u, any) = {})
               => pendingUnregisters'[any] = <<>>

\* A list without duplicates that holds nothing is empty.
LEMMA EmptyList ==
  ASSUME NEW S, NEW list \in Seq(S), ToSet(list) = {}
  PROVE  list = <<>>
<1>1. Len(list) \in Nat /\ DOMAIN list = 1..Len(list)
  BY LenProperties
<1>2. Len(list) = 0
  <2>1. 1 \notin DOMAIN list
    BY DEF ToSet
  <2> QED
    BY <1>1, <2>1
<1> QED
  BY <1>2, EmptySeq

\* RegisterSink's body: the sink becomes registered, at once or later.
LEMMA AddEffect ==
  ASSUME IInv, NEW t \in Threads, NEW src \in Sources, NEW s \in Sinks,
         LockFree(t, src), stack[t] # <<>> => Top(t).sink \in Sinks,
         Add(src, s)
  PROVE  /\ Careful(src)
         /\ \A any \in Sources :
                Registered'[any] = IF any = src THEN Registered[any] \cup {s}
                                                ELSE Registered[any]
<1>1. ListTypes /\ ListsConsistent
  BY DEF IInv, TypeOK, ListTypes
<1> DEFINE now    == sinks[src]
           coming == pendingRegisters[src]
           going  == pendingUnregisters[src]
<1>2. /\ now \in Seq(Sinks) /\ coming \in Seq(Sinks) /\ going \in Seq(Sinks)
      /\ IsInjective(now) /\ IsInjective(coming) /\ IsInjective(going)
      /\ ToSet(coming) \cap ToSet(going) = {}
  BY <1>1 DEF ListTypes, ListsConsistent
<1>3. /\ RemoveFirst(going, s) \in Seq(Sinks)
      /\ IsInjective(RemoveFirst(going, s))
      /\ ToSet(RemoveFirst(going, s)) = ToSet(going) \ {s}
  BY <1>2, RemoveFirstProperties
<1>4. /\ AppendMissing(now, s) \in Seq(Sinks)
      /\ IsInjective(AppendMissing(now, s))
      /\ ToSet(AppendMissing(now, s)) = ToSet(now) \cup {s}
  BY <1>2, AppendMissingProperties
<1>5. /\ AppendMissing(coming, s) \in Seq(Sinks)
      /\ IsInjective(AppendMissing(coming, s))
      /\ ToSet(AppendMissing(coming, s)) = ToSet(coming) \cup {s}
  BY <1>2, AppendMissingProperties
<1>6. pendingUnregisters' = [pendingUnregisters EXCEPT ![src] = RemoveFirst(going, s)]
  BY DEF Add
<1>7. CASE notifying[src] # 0
  <2>1. /\ pendingRegisters' = [pendingRegisters EXCEPT ![src] = AppendMissing(coming, s)]
        /\ sinks' = sinks
    BY <1>7 DEF Add
  <2>2. ListTypes' /\ OnlyOf(src)
    BY <1>1, <1>3, <1>5, <1>6, <2>1 DEF ListTypes, OnlyOf
  <2>3. /\ sinks'[src] = now /\ pendingRegisters'[src] = AppendMissing(coming, s)
        /\ pendingUnregisters'[src] = RemoveFirst(going, s)
    BY <1>1, <1>6, <2>1 DEF ListTypes
  <2>4. ListsConsistent'
    BY <1>1, <1>2, <1>3, <1>5, <2>2, <2>3 DEF ListsConsistent, OnlyOf
  <2>5. \E u \in Threads : FramesOf(u, src) # {}
    BY <1>7 DEF IInv, LoopsAgree
  <2>6. Careful(src)
    BY <2>1, <2>2, <2>4, <2>5 DEF Careful, OnlyOf, IInv, LoopsAgree
  <2>7. ASSUME NEW any \in Sources
        PROVE  Registered'[any] = IF any = src THEN Registered[any] \cup {s}
                                               ELSE Registered[any]
    BY <1>2, <1>3, <1>5, <2>2, <2>3 DEF Registered, OnlyOf
  <2> QED
    BY <2>6, <2>7
<1>8. CASE notifying[src] = 0
  <2>1. /\ sinks' = [sinks EXCEPT ![src] = AppendMissing(now, s)]
        /\ pendingRegisters' = pendingRegisters
    BY <1>8 DEF Add
  <2>2. ListTypes' /\ OnlyOf(src)
    BY <1>1, <1>3, <1>4, <1>6, <2>1 DEF ListTypes, OnlyOf
  <2>3. /\ sinks'[src] = AppendMissing(now, s) /\ pendingRegisters'[src] = coming
        /\ pendingUnregisters'[src] = RemoveFirst(going, s)
    BY <1>1, <1>6, <2>1 DEF ListTypes
  <2>4. ListsConsistent'
    BY <1>1, <1>2, <1>3, <1>4, <2>2, <2>3 DEF ListsConsistent, OnlyOf
  <2>5. \A u \in Threads : FramesOf(u, src) = {} /\ LoopsOf(u, src) = {}
    BY <1>8, Quiet
  <2>6. pendingUnregisters'[src] = <<>>
    <3>1. going = <<>>
      BY <2>5 DEF IInv, LoopsAgree
    <3>2. ToSet(going) = {}
      BY <3>1 DEF ToSet
    <3> QED
      BY <1>3, <2>3, <3>2, EmptyList
  <2>7. Careful(src)
    BY <2>2, <2>4, <2>5, <2>6 DEF Careful, OnlyOf, IInv, LoopsAgree
  <2>8. ASSUME NEW any \in Sources
        PROVE  Registered'[any] = IF any = src THEN Registered[any] \cup {s}
                                               ELSE Registered[any]
    BY <1>2, <1>3, <1>4, <2>2, <2>3 DEF Registered, OnlyOf
  <2> QED
    BY <2>7, <2>8
<1> QED
  BY <1>7, <1>8

\* UnregisterSink's body: the sink is registered no more.
LEMMA DropEffect ==
  ASSUME IInv, NEW t \in Threads, NEW src \in Sources, NEW s \in Sinks,
         LockFree(t, src), stack[t] # <<>> => Top(t).sink \in Sinks,
         Drop(src, s)
  PROVE  /\ Careful(src)
         /\ \A any \in Sources :
                Registered'[any] = IF any = src THEN Registered[any] \ {s}
                                                ELSE Registered[any]
<1>1. ListTypes /\ ListsConsistent
  BY DEF IInv, TypeOK, ListTypes
<1> DEFINE now    == sinks[src]
           coming == pendingRegisters[src]
           going  == pendingUnregisters[src]
<1>2. /\ now \in Seq(Sinks) /\ coming \in Seq(Sinks) /\ going \in Seq(Sinks)
      /\ IsInjective(now) /\ IsInjective(coming) /\ IsInjective(going)
      /\ ToSet(coming) \cap ToSet(going) = {}
  BY <1>1 DEF ListTypes, ListsConsistent
<1>3. /\ RemoveFirst(coming, s) \in Seq(Sinks)
      /\ IsInjective(RemoveFirst(coming, s))
      /\ ToSet(RemoveFirst(coming, s)) = ToSet(coming) \ {s}
  BY <1>2, RemoveFirstProperties
<1>4. /\ RemoveFirst(now, s) \in Seq(Sinks)
      /\ IsInjective(RemoveFirst(now, s))
      /\ ToSet(RemoveFirst(now, s)) = ToSet(now) \ {s}
  BY <1>2, RemoveFirstProperties
<1>5. /\ AppendMissing(going, s) \in Seq(Sinks)
      /\ IsInjective(AppendMissing(going, s))
      /\ ToSet(AppendMissing(going, s)) = ToSet(going) \cup {s}
  BY <1>2, AppendMissingProperties
<1>6. pendingRegisters' = [pendingRegisters EXCEPT ![src] = RemoveFirst(coming, s)]
  BY DEF Drop
<1>7. CASE notifying[src] # 0
  <2>1. /\ pendingUnregisters' = [pendingUnregisters EXCEPT ![src] = AppendMissing(going, s)]
        /\ sinks' = sinks
    BY <1>7 DEF Drop
  <2>2. ListTypes' /\ OnlyOf(src)
    BY <1>1, <1>3, <1>5, <1>6, <2>1 DEF ListTypes, OnlyOf
  <2>3. /\ sinks'[src] = now /\ pendingUnregisters'[src] = AppendMissing(going, s)
        /\ pendingRegisters'[src] = RemoveFirst(coming, s)
    BY <1>1, <1>6, <2>1 DEF ListTypes
  <2>4. ListsConsistent'
    BY <1>1, <1>2, <1>3, <1>5, <2>2, <2>3 DEF ListsConsistent, OnlyOf
  <2>5. \E u \in Threads : FramesOf(u, src) # {}
    BY <1>7 DEF IInv, LoopsAgree
  <2>6. Careful(src)
    BY <2>1, <2>2, <2>4, <2>5 DEF Careful, OnlyOf, IInv, LoopsAgree
  <2>7. ASSUME NEW any \in Sources
        PROVE  Registered'[any] = IF any = src THEN Registered[any] \ {s}
                                               ELSE Registered[any]
    BY <1>2, <1>3, <1>5, <2>2, <2>3 DEF Registered, OnlyOf
  <2> QED
    BY <2>6, <2>7
<1>8. CASE notifying[src] = 0
  <2>1. /\ sinks' = [sinks EXCEPT ![src] = RemoveFirst(now, s)]
        /\ pendingUnregisters' = pendingUnregisters
    BY <1>8 DEF Drop
  <2>2. ListTypes' /\ OnlyOf(src)
    BY <1>1, <1>3, <1>4, <1>6, <2>1 DEF ListTypes, OnlyOf
  <2>3. /\ sinks'[src] = RemoveFirst(now, s) /\ pendingUnregisters'[src] = going
        /\ pendingRegisters'[src] = RemoveFirst(coming, s)
    BY <1>1, <1>6, <2>1 DEF ListTypes
  <2>4. ListsConsistent'
    BY <1>1, <1>2, <1>3, <1>4, <2>2, <2>3 DEF ListsConsistent, OnlyOf
  <2>5. \A u \in Threads : LoopsOf(u, src) = {}
    BY <1>8, Quiet
  <2>6. Careful(src)
    BY <2>1, <2>2, <2>4, <2>5 DEF Careful, OnlyOf, IInv, LoopsAgree
  <2>7. ASSUME NEW any \in Sources
        PROVE  Registered'[any] = IF any = src THEN Registered[any] \ {s}
                                               ELSE Registered[any]
    BY <1>2, <1>3, <1>4, <2>2, <2>3 DEF Registered, OnlyOf
  <2> QED
    BY <2>6, <2>7
<1> QED
  BY <1>7, <1>8

-----------------------------------------------------------------------------
\* The steps that leave the stacks alone: deciding on a call, and the methods
\* that call nobody.
LEMMA SameListsAndStack ==
  ASSUME IInv, UNCHANGED <<lists, stack>>
  PROVE  /\ ListsConsistent' /\ LoopsAgree' /\ StackShape' /\ OneInside' /\ StageShape'
         /\ Registered' = Registered
         /\ \A u \in Threads : \A src \in Sources : FramesOf(u, src)' = FramesOf(u, src)
         /\ \A u \in Threads : Top(u)' = Top(u)
<1> USE DEF lists
<1>1. ListsConsistent'
  BY DEF IInv, ListsConsistent
<1>2. /\ \A u \in Threads : \A src \in Sources :
             FramesOf(u, src)' = FramesOf(u, src) /\ LoopsOf(u, src)' = LoopsOf(u, src)
      /\ \A u \in Threads : Top(u)' = Top(u)
  BY DEF FramesOf, LoopsOf, Top
<1>3. LoopsAgree'
  BY <1>2 DEF IInv, LoopsAgree
<1>4. StackShape'
  BY DEF IInv, StackShape, FrameShape
<1>5. OneInside'
  BY <1>2 DEF IInv, OneInside
<1>6. StageShape'
  BY <1>2 DEF IInv, StageShape, Progress, In
<1>7. Registered' = Registered
  BY DEF Registered
<1> QED
  BY <1>1, <1>2, <1>3, <1>4, <1>5, <1>6, <1>7

LEMMA RequestStep ==
  ASSUME IInv, NEW t \in Threads, NEW call \in Call, Request(t, call)
  PROVE  IInv'
<1>1. /\ UNCHANGED <<lists, stack>>
      /\ request[t] = NoCall
      /\ stack[t] # <<>> => Top(t).sink # NoSink /\ Top(t).sink \notin Mortal
      /\ request' = [request EXCEPT ![t] = call]
      /\ alive' = IF call.op = "Construct" THEN alive \cup {call.sink} ELSE alive
  BY DEF Request, InCallback
<1>2. /\ call.op = "Notify" => Cardinality(FramesOf(t, call.source)) < MaxNesting
      /\ call.op = "Construct" => call.sink \in Mortal \ alive
      /\ call.op \in {"RegisterSink", "UnregisterSink"} =>
             call.sink \in (Sinks \ Mortal) \cup {NoSink}
  BY DEF Request
<1>3. TypeOK
  BY DEF IInv
<1>4. TypeOK'
  BY <1>1, <1>2, <1>3 DEF TypeOK, lists
<1>5. /\ ListsConsistent' /\ LoopsAgree' /\ StackShape' /\ OneInside' /\ StageShape'
      /\ Registered' = Registered
      /\ \A u \in Threads : \A src \in Sources : FramesOf(u, src)' = FramesOf(u, src)
      /\ \A u \in Threads : Top(u)' = Top(u)
  BY <1>1, SameListsAndStack
<1>6. request'[t] = call /\ \A u \in Threads \ {t} : request'[u] = request[u]
  BY <1>1, <1>3 DEF TypeOK
<1>7. RequestShape'
  <2>1. ASSUME NEW u \in Threads \ {t}
        PROVE  CallShape(u)'
    <3>1. CallShape(u)
      BY DEF IInv, RequestShape
    <3>2. request[u] # NoCall => request[u].source \in Sources
      BY <1>3 DEF TypeOK, Call
    <3> QED
      BY <1>1, <1>5, <1>6, <2>1, <3>1, <3>2 DEF CallShape
  <2>2. CallShape(t)'
    <3>1. stack[t] # <<>> => Top(t).sink \in Sinks \ Mortal
      BY <1>1, InnermostCall DEF Frame
    <3>2. call.source \in Sources
      BY DEF Call
    <3> QED
      BY <1>1, <1>2, <1>5, <1>6, <3>1, <3>2 DEF CallShape
  <2> QED
    BY <2>1, <2>2 DEF RequestShape
<1>8. MortalShape'
  <2>1. \A u \in Threads : \A s \in Mortal : Calls(u, s)' => Calls(u, s)
    BY <1>1, <1>5 DEF Calls, InCallback
  <2>2. CASE call.op # "Construct"
    <3>1. \A u \in Threads : \A s \in Mortal : Constructing(u, s)' => Constructing(u, s)
      BY <1>6, <2>2 DEF Constructing
    <3> QED
      BY <1>1, <1>5, <2>1, <2>2, <3>1 DEF IInv, MortalShape
  <2>3. CASE call.op = "Construct"
    <3>1. /\ \A u \in Threads : \A s \in Mortal :
                 Constructing(u, s)' => Constructing(u, s) \/ (u = t /\ s = call.sink)
          /\ alive' = alive \cup {call.sink}
          /\ call.sink \in Mortal \ alive
      BY <1>1, <1>2, <1>6, <2>3 DEF Constructing
    <3>2. \A src \in Sources : call.sink \notin Registered[src]
      BY <3>1 DEF IInv, MortalShape
    <3>3. \A u \in Threads : ~Constructing(u, call.sink)
      BY <3>1 DEF IInv, MortalShape
    <3> QED
      BY <1>5, <2>1, <3>1, <3>2, <3>3 DEF IInv, MortalShape
  <2> QED
    BY <2>2, <2>3
<1> QED
  BY <1>4, <1>5, <1>7, <1>8 DEF IInv

LEMMA IgnoreNullStep ==
  ASSUME IInv, NEW t \in Threads, IgnoreNull(t)
  PROVE  IInv'
<1>1. /\ UNCHANGED <<lists, stack, alive>>
      /\ request' = [request EXCEPT ![t] = NoCall]
  BY DEF IgnoreNull
<1>2. TypeOK
  BY DEF IInv
<1>3. TypeOK'
  BY <1>1, <1>2 DEF TypeOK, lists
<1>4. /\ ListsConsistent' /\ LoopsAgree' /\ StackShape' /\ OneInside' /\ StageShape'
      /\ Registered' = Registered
      /\ \A u \in Threads : \A src \in Sources : FramesOf(u, src)' = FramesOf(u, src)
      /\ \A u \in Threads : Top(u)' = Top(u)
  BY <1>1, SameListsAndStack
<1>5. request'[t] = NoCall /\ \A u \in Threads \ {t} : request'[u] = request[u]
  BY <1>1, <1>2 DEF TypeOK
<1>6. RequestShape'
  <2>1. ASSUME NEW u \in Threads
        PROVE  CallShape(u)'
    <3>1. CallShape(u)
      BY DEF IInv, RequestShape
    <3>2. request[u] # NoCall => request[u].source \in Sources
      BY <1>2 DEF TypeOK, Call
    <3> QED
      BY <1>1, <1>4, <1>5, <3>1, <3>2 DEF CallShape
  <2> QED
    BY <2>1 DEF RequestShape
<1>7. MortalShape'
  <2>1. \A u \in Threads : \A s \in Mortal :
            /\ Calls(u, s)' => Calls(u, s)
            /\ Constructing(u, s)' => Constructing(u, s)
    BY <1>1, <1>4, <1>5 DEF Calls, InCallback, Constructing
  <2> QED
    BY <1>1, <1>4, <2>1 DEF IInv, MortalShape
<1> QED
  BY <1>3, <1>4, <1>6, <1>7 DEF IInv

\* What RegisterSink, UnregisterSink and the constructor have in common.
LEMMA ShortMethod ==
  ASSUME IInv, NEW t \in Threads, NEW src \in Sources,
         LockFree(t, src), stack[t] # <<>> => Top(t).sink \in Sinks,
         Careful(src), notifying' = notifying, stack' = stack, alive' = alive,
         request' = [request EXCEPT ![t] = NoCall]
  PROVE  /\ TypeOK' /\ ListsConsistent' /\ LoopsAgree' /\ StackShape'
         /\ RequestShape' /\ OneInside' /\ StageShape'
         /\ \A u \in Threads : \A s \in Mortal :
                /\ Constructing(u, s)' => u # t /\ Constructing(u, s)
                /\ Calls(u, s)' => Calls(u, s) /\ Top(u)' = Top(u)
<1>1. TypeOK
  BY DEF IInv
<1>2. TypeOK'
  BY <1>1 DEF TypeOK, Careful, ListTypes
<1>3. /\ \A u \in Threads : \A any \in Sources :
             FramesOf(u, any)' = FramesOf(u, any) /\ LoopsOf(u, any)' = LoopsOf(u, any)
      /\ \A u \in Threads : Top(u)' = Top(u)
  BY DEF FramesOf, LoopsOf, Top
<1>4. LoopsAgree' /\ OneInside'
  <2>1. stack' \in [Threads -> Seq(Frame)]
    BY <1>1 DEF TypeOK
  <2>2. \A u \in Threads : \A any \in Sources :
            \A i \in LoopsOf(u, any) : stack'[u][i].end = stack[u][i].end
    OBVIOUS
  <2> QED
    BY <1>3, <2>1, <2>2, SameLoops DEF Careful
<1>5. StackShape'
  BY DEF IInv, StackShape, FrameShape
<1>6. RequestShape'
  <2>1. ASSUME NEW u \in Threads
        PROVE  CallShape(u)'
    <3>1. CallShape(u)
      BY DEF IInv, RequestShape
    <3>2. request[u] # NoCall => request[u].source \in Sources
      BY <1>1 DEF TypeOK, Call
    <3>3. request'[u] = IF u = t THEN NoCall ELSE request[u]
      BY <1>1 DEF TypeOK
    <3> QED
      BY <1>3, <3>1, <3>2, <3>3 DEF CallShape
  <2> QED
    BY <2>1 DEF RequestShape
<1>7. StageShape'
  <2>1. ASSUME NEW u \in Threads, stack[u] # <<>>, Top(u).stage # "looping"
        PROVE  Top(u).source \in Sources \ {src}
    <3>1. /\ Top(u).source \in Sources /\ FramesOf(u, Top(u).source) # {}
          /\ Top(u).sink # NoSink => Top(u).stage = "looping"
      BY <2>1, InnermostCall
    <3>2. CASE u = t
      BY <2>1, <3>1, <3>2, EventSourceAssumption
    <3>3. CASE u # t
      BY <3>1, <3>3 DEF LockFree
    <3> QED
      BY <3>2, <3>3
  <2>2. ASSUME NEW u \in Threads
        PROVE  Progress(u)'
    <3>1. Progress(u)
      BY DEF IInv, StageShape
    <3>2. CASE stack[u] # <<>> /\ Top(u).stage # "looping"
      <4>1. Top(u).source \in Sources \ {src}
        BY <2>1, <3>2
      <4> QED
        BY <1>3, <3>1, <4>1 DEF Progress, In, Careful, OnlyOf
    <3>3. CASE ~(stack[u] # <<>> /\ Top(u).stage # "looping")
      BY <1>3, <3>3 DEF Progress, In
    <3> QED
      BY <3>2, <3>3
  <2> QED
    BY <2>2 DEF StageShape
<1>8. \A u \in Threads : \A s \in Mortal :
          /\ Constructing(u, s)' => u # t /\ Constructing(u, s)
          /\ Calls(u, s)' => Calls(u, s) /\ Top(u)' = Top(u)
  BY <1>1, <1>3 DEF TypeOK, Constructing, Calls, InCallback
<1> QED
  BY <1>2, <1>4, <1>5, <1>6, <1>7, <1>8 DEF Careful

LEMMA RegisterStep ==
  ASSUME IInv, NEW t \in Threads, RegisterSink(t)
  PROVE  IInv'
<1>0. SUFFICES ASSUME NEW src, NEW s,
                      src = request[t].source, s = request[t].sink
               PROVE  IInv'
  OBVIOUS
<1>1. TypeOK /\ CallShape(t)
  BY DEF IInv, RequestShape
<1>2. /\ request[t] # NoCall /\ request[t].op = "RegisterSink"
      /\ s # NoSink /\ LockFree(t, src) /\ Add(src, s)
      /\ request' = [request EXCEPT ![t] = NoCall]
      /\ UNCHANGED <<notifying, stack, alive>>
  BY <1>0 DEF RegisterSink, NullSink, Enter, Add
<1>3. /\ src \in Sources /\ s \in Sinks \ Mortal
      /\ stack[t] # <<>> => Top(t).sink \in Sinks
  BY <1>0, <1>1, <1>2 DEF TypeOK, Call, CallShape
<1>4. /\ Careful(src)
      /\ \A any \in Sources :
             Registered'[any] = IF any = src THEN Registered[any] \cup {s}
                                             ELSE Registered[any]
  <2>1. LockFree(t, src) /\ Add(src, s)
    BY <1>2
  <2>2. src \in Sources /\ s \in Sinks /\ (stack[t] # <<>> => Top(t).sink \in Sinks)
    BY <1>3
  <2> QED
    BY <2>1, <2>2, AddEffect
<1>5. /\ TypeOK' /\ ListsConsistent' /\ LoopsAgree' /\ StackShape'
      /\ RequestShape' /\ OneInside' /\ StageShape'
      /\ \A u \in Threads : \A m \in Mortal :
             /\ Constructing(u, m)' => u # t /\ Constructing(u, m)
             /\ Calls(u, m)' => Calls(u, m) /\ Top(u)' = Top(u)
  BY <1>2, <1>3, <1>4, ShortMethod
<1>6. MortalShape'
  <2>1. \A m \in Mortal : \A any \in Sources :
            m \in Registered'[any] <=> m \in Registered[any]
    BY <1>3, <1>4
  <2>2. \A u \in Threads : stack[u] # <<>> => Top(u).source \in Sources
    BY InnermostCall
  <2>3. \A u \in Threads : \A m \in Mortal :
            Calls(u, m)' => m \in Registered'[Top(u)'.source]
    BY <1>5, <2>1, <2>2 DEF IInv, MortalShape, Calls, InCallback
  <2> QED
    BY <1>2, <1>5, <2>1, <2>3 DEF IInv, MortalShape
<1> QED
  BY <1>5, <1>6 DEF IInv

LEMMA UnregisterStep ==
  ASSUME IInv, NEW t \in Threads, UnregisterSink(t)
  PROVE  IInv'
<1>0. SUFFICES ASSUME NEW src, NEW s,
                      src = request[t].source, s = request[t].sink
               PROVE  IInv'
  OBVIOUS
<1>1. TypeOK /\ CallShape(t)
  BY DEF IInv, RequestShape
<1>2. /\ request[t] # NoCall /\ request[t].op = "UnregisterSink"
      /\ s # NoSink /\ LockFree(t, src) /\ Drop(src, s)
      /\ request' = [request EXCEPT ![t] = NoCall]
      /\ UNCHANGED <<notifying, stack, alive>>
  BY <1>0 DEF UnregisterSink, NullSink, Enter, Drop
<1>3. /\ src \in Sources /\ s \in Sinks \ Mortal
      /\ stack[t] # <<>> => Top(t).sink \in Sinks
  BY <1>0, <1>1, <1>2 DEF TypeOK, Call, CallShape
<1>4. /\ Careful(src)
      /\ \A any \in Sources :
             Registered'[any] = IF any = src THEN Registered[any] \ {s}
                                             ELSE Registered[any]
  <2>1. LockFree(t, src) /\ Drop(src, s)
    BY <1>2
  <2>2. src \in Sources /\ s \in Sinks /\ (stack[t] # <<>> => Top(t).sink \in Sinks)
    BY <1>3
  <2> QED
    BY <2>1, <2>2, DropEffect
<1>5. /\ TypeOK' /\ ListsConsistent' /\ LoopsAgree' /\ StackShape'
      /\ RequestShape' /\ OneInside' /\ StageShape'
      /\ \A u \in Threads : \A m \in Mortal :
             /\ Constructing(u, m)' => u # t /\ Constructing(u, m)
             /\ Calls(u, m)' => Calls(u, m) /\ Top(u)' = Top(u)
  BY <1>2, <1>3, <1>4, ShortMethod
<1>6. MortalShape'
  <2>1. \A m \in Mortal : \A any \in Sources :
            m \in Registered'[any] <=> m \in Registered[any]
    BY <1>3, <1>4
  <2>2. \A u \in Threads : stack[u] # <<>> => Top(u).source \in Sources
    BY InnermostCall
  <2>3. \A u \in Threads : \A m \in Mortal :
            Calls(u, m)' => m \in Registered'[Top(u)'.source]
    BY <1>5, <2>1, <2>2 DEF IInv, MortalShape, Calls, InCallback
  <2> QED
    BY <1>2, <1>5, <2>1, <2>3 DEF IInv, MortalShape
<1> QED
  BY <1>5, <1>6 DEF IInv

LEMMA ConstructStep ==
  ASSUME IInv, NEW t \in Threads, Construct(t)
  PROVE  IInv'
<1>0. SUFFICES ASSUME NEW src, NEW s,
                      src = request[t].source, s = request[t].sink
               PROVE  IInv'
  OBVIOUS
<1>1. TypeOK /\ CallShape(t)
  BY DEF IInv, RequestShape
<1>2. /\ request[t] # NoCall /\ request[t].op = "Construct"
      /\ LockFree(t, src) /\ Add(src, s)
      /\ request' = [request EXCEPT ![t] = NoCall]
      /\ UNCHANGED <<notifying, stack, alive>>
  BY <1>0 DEF Construct, Enter, Add
<1>3. /\ src \in Sources /\ s \in Mortal /\ s \in Sinks
      /\ stack[t] # <<>> => Top(t).sink \in Sinks
  BY <1>0, <1>1, <1>2, EventSourceAssumption DEF TypeOK, Call, CallShape
<1>4. /\ Careful(src)
      /\ \A any \in Sources :
             Registered'[any] = IF any = src THEN Registered[any] \cup {s}
                                             ELSE Registered[any]
  <2>1. LockFree(t, src) /\ Add(src, s)
    BY <1>2
  <2>2. src \in Sources /\ s \in Sinks /\ (stack[t] # <<>> => Top(t).sink \in Sinks)
    BY <1>3
  <2> QED
    BY <2>1, <2>2, AddEffect
<1>5. /\ TypeOK' /\ ListsConsistent' /\ LoopsAgree' /\ StackShape'
      /\ RequestShape' /\ OneInside' /\ StageShape'
      /\ \A u \in Threads : \A m \in Mortal :
             /\ Constructing(u, m)' => u # t /\ Constructing(u, m)
             /\ Calls(u, m)' => Calls(u, m) /\ Top(u)' = Top(u)
  BY <1>2, <1>3, <1>4, ShortMethod
<1>6. MortalShape'
  <2>1. /\ s \in alive
        /\ \A any \in Sources : s \notin Registered[any]
        /\ \A u \in Threads : Constructing(u, s) => u = t
    BY <1>0, <1>2, <1>3 DEF IInv, MortalShape, Constructing
  <2>2. \A u \in Threads : stack[u] # <<>> => Top(u).source \in Sources
    BY InnermostCall
  <2>3. ASSUME NEW u \in Threads, NEW m \in Mortal, Calls(u, m)'
        PROVE  m \in Registered'[Top(u)'.source]
    <3>1. Calls(u, m) /\ Top(u)' = Top(u) /\ Top(u).source \in Sources
      BY <1>5, <2>2, <2>3 DEF Calls, InCallback
    <3>2. m \in Registered[Top(u).source]
      BY <3>1 DEF IInv, MortalShape
    <3> QED
      BY <1>4, <3>1, <3>2
  <2>4. \A m \in Mortal : \A any \in Sources :
            m # s => (m \in Registered'[any] <=> m \in Registered[any])
    BY <1>4
  <2>5. \A any \in Sources : s \in Registered'[any] => any = src
    BY <1>4, <2>1
  <2>6. \A u \in Threads : ~Constructing(u, s)'
    BY <1>3, <1>5, <2>1
  <2> QED
    BY <1>2, <1>5, <2>1, <2>3, <2>4, <2>5, <2>6 DEF IInv, MortalShape
<1> QED
  BY <1>5, <1>6 DEF IInv

-----------------------------------------------------------------------------
\* The steps of the three loops that stay inside their loop.
LEMMA Untouched ==
  ASSUME IInv, NEW src, UNCHANGED <<sinks, pendingRegisters, pendingUnregisters>>
  PROVE  Careful(src)
<1>1. ListTypes'
  BY DEF IInv, TypeOK, ListTypes
<1>2. ListsConsistent'
  BY DEF IInv, ListsConsistent
<1> QED
  BY <1>1, <1>2 DEF Careful, OnlyOf, IInv, LoopsAgree

LEMMA SameStage ==
  ASSUME IInv, NEW t \in Threads, stack[t] # <<>>, NEW f \in Frame, SetTop(t, f),
         f.source = Top(t).source, f.stage = Top(t).stage, f.end = Top(t).end,
         f.next >= 1, f.sink # NoSink => f.stage = "looping",
         f.stage = "looping" => f.next <= f.end + 1,
         Careful(f.source), notifying' = notifying,
         request' = request, request[t] = NoCall, alive' \subseteq alive
  PROVE  /\ TypeOK' /\ ListsConsistent' /\ LoopsAgree' /\ StackShape'
         /\ RequestShape' /\ OneInside'
         /\ stack' \in [Threads -> Seq(Frame)]
         /\ \A u \in Threads \ {t} : stack'[u] = stack[u]
         /\ stack'[t] # <<>> /\ Top(t)' = f
         /\ \A u, s : Constructing(u, s)' => Constructing(u, s)
<1>1. TypeOK
  BY DEF IInv
<1>2. stack \in [Threads -> Seq(Frame)]
  BY <1>1 DEF TypeOK
<1>3. /\ stack' \in [Threads -> Seq(Frame)]
      /\ \A u \in Threads \ {t} : stack'[u] = stack[u]
      /\ stack'[t] # <<>> /\ Top(t)' = f
      /\ \A i \in DOMAIN stack[t] :
             stack'[t][i] = IF i = Len(stack[t]) THEN f ELSE stack[t][i]
  BY <1>2, ReplaceTop
<1>4. TypeOK'
  BY <1>1, <1>3 DEF TypeOK, Careful, ListTypes
<1>5. ASSUME NEW u \in Threads, NEW src \in Sources
      PROVE  /\ FramesOf(u, src)' = FramesOf(u, src)
             /\ LoopsOf(u, src)' = LoopsOf(u, src)
             /\ \A i \in LoopsOf(u, src) : stack'[u][i].end = stack[u][i].end
  <2>1. /\ FramesOf(u, src)' = FramesOf(u, src)
        /\ LoopsOf(u, src)' =
               IF u # t \/ src # f.source THEN LoopsOf(u, src)
               ELSE IF f.stage = "looping" THEN LoopsOf(u, src) \cup {Len(stack[t])}
               ELSE LoopsOf(u, src) \ {Len(stack[t])}
    BY <1>2, ReplaceTopFrames
  <2>2. /\ Top(t) = stack[t][Len(stack[t])]
        /\ Len(stack[t]) \in FramesOf(t, f.source)
    BY <1>2, TopFacts
  <2>3. Len(stack[t]) \in LoopsOf(t, f.source) <=> f.stage = "looping"
    BY <2>2 DEF LoopsOf
  <2>4. \A i \in LoopsOf(u, src) : stack'[u][i].end = stack[u][i].end
    BY <1>3, <2>2 DEF LoopsOf, FramesOf
  <2> QED
    BY <2>1, <2>3, <2>4
<1>6. LoopsAgree' /\ OneInside'
  BY <1>3, <1>5, SameLoops DEF Careful
<1>7. StackShape'
  BY SameShapes
<1>8. RequestShape'
  BY <1>3, SameRequests
<1>9. \A u, s : Constructing(u, s)' => Constructing(u, s)
  BY DEF Constructing
<1> QED
  BY <1>3, <1>4, <1>6, <1>7, <1>8, <1>9 DEF Careful

\* A thread that is not in a callback has no call to make.
LEMMA NoRequest ==
  ASSUME IInv, NEW t \in Threads, stack[t] # <<>>, Top(t).sink \notin Sinks \ Mortal
  PROVE  request[t] = NoCall
BY DEF IInv, RequestShape, CallShape

LEMMA VisitStep ==
  ASSUME IInv, NEW t \in Threads, Visit(t)
  PROVE  IInv'
<1>0. SUFFICES ASSUME NEW src, NEW frame, NEW s, NEW v, NEW f,
                      frame = Top(t), src = frame.source,
                      s = sinks[src][frame.next],
                      v = IF Contains(pendingUnregisters[src], s) THEN NoSink ELSE s,
                      f = [frame EXCEPT !.next = @ + 1, !.sink = v]
               PROVE  IInv'
  OBVIOUS
<1>1. /\ stack[t] # <<>> /\ frame.stage = "looping" /\ frame.sink = NoSink
      /\ frame.next <= frame.end /\ SetTop(t, f)
      /\ UNCHANGED <<lists, request, alive>>
  BY <1>0 DEF Visit, Looping, In
<1>2. /\ frame \in Frame /\ src \in Sources
      /\ Len(stack[t]) \in LoopsOf(t, src) /\ frame = stack[t][Len(stack[t])]
      /\ FrameShape(t, Len(stack[t]))
  BY <1>0, <1>1, InnermostCall, TopFacts DEF LoopsOf, IInv, TypeOK
<1>3. frame.end = Len(sinks[src])
  BY <1>2 DEF IInv, LoopsAgree
<1>4. frame.next \in Nat /\ frame.end \in Nat /\ frame.next >= 1
  BY <1>2 DEF Frame, FrameShape
<1>5. sinks[src] \in Seq(Sinks) /\ pendingUnregisters[src] \in Seq(Sinks)
  BY <1>2 DEF IInv, TypeOK
<1>6. s \in Sinks /\ s \in ToSet(sinks[src])
  <2>1. frame.next \in 1..Len(sinks[src])
    BY <1>1, <1>3, <1>4
  <2>2. DOMAIN sinks[src] = 1..Len(sinks[src])
    BY <1>5, LenProperties
  <2> QED
    BY <1>0, <1>5, <2>1, <2>2, ElementOfSeq DEF ToSet
<1>7. /\ f \in Frame /\ f.source = src /\ f.stage = "looping" /\ f.end = frame.end
      /\ f.next = frame.next + 1
      /\ f.sink = v
  <2>1. v \in Sinks \cup {NoSink} /\ frame.next + 1 \in Nat
    BY <1>0, <1>4, <1>6
  <2>2. f = [frame EXCEPT !.next = @ + 1, !.sink = v] /\ src = frame.source
    BY <1>0
  <2> QED
    BY <1>1, <1>2, <2>1, <2>2 DEF Frame
<1>8. request[t] = NoCall
  BY <1>0, <1>1, NoRequest, EventSourceAssumption
<1>9. Careful(src)
  BY <1>1, Untouched DEF lists
<1>10. /\ TypeOK' /\ ListsConsistent' /\ LoopsAgree' /\ StackShape'
       /\ RequestShape' /\ OneInside'
       /\ stack' \in [Threads -> Seq(Frame)]
       /\ \A u \in Threads \ {t} : stack'[u] = stack[u]
       /\ stack'[t] # <<>> /\ Top(t)' = f
       /\ \A u, m : Constructing(u, m)' => Constructing(u, m)
  <2>1. f.next >= 1 /\ f.next <= f.end + 1
    BY <1>1, <1>4, <1>7
  <2> QED
    BY <1>0, <1>1, <1>7, <1>8, <1>9, <2>1, SameStage DEF lists
<1>11. StageShape'
  <2>1. Progress(t)'
    BY <1>7, <1>10 DEF Progress, In
  <2> QED
    BY <1>1, <1>10, <2>1, SameProgress DEF lists
<1>12. MortalShape'
  <2>1. Registered' = Registered
    BY <1>1 DEF Registered, lists
  <2>2. ASSUME NEW m \in Mortal, Calls(t, m)'
        PROVE  m \in Registered[Top(t)'.source]
    <3>1. m = f.sink /\ f.sink # NoSink
      BY <1>10, <2>2 DEF Calls, InCallback
    <3>2. m = s /\ ~Contains(pendingUnregisters[src], s)
      BY <1>0, <1>7, <3>1
    <3>3. s \notin ToSet(pendingUnregisters[src])
      BY <1>5, <3>2, LenProperties DEF Contains, ToSet
    <3> QED
      BY <1>2, <1>6, <1>7, <1>10, <3>2, <3>3 DEF Registered
  <2> QED
    BY <1>1, <1>10, <2>1, <2>2, SameMortals
<1> QED
  BY <1>10, <1>11, <1>12 DEF IInv

LEMMA ContinueStep ==
  ASSUME IInv, NEW t \in Threads, Continue(t)
  PROVE  IInv'
<1>0. SUFFICES ASSUME NEW f, f = [Top(t) EXCEPT !.sink = NoSink]
               PROVE  IInv'
  OBVIOUS
<1>1. /\ stack[t] # <<>> /\ Top(t).sink # NoSink /\ SetTop(t, f)
      /\ request[t] = NoCall
      /\ UNCHANGED <<lists, request, alive>>
  BY <1>0 DEF Continue, InCallback
<1>2. /\ Top(t) \in Frame /\ Top(t).stage = "looping"
      /\ FrameShape(t, Len(stack[t])) /\ Top(t) = stack[t][Len(stack[t])]
  BY <1>1, InnermostCall, TopFacts DEF IInv, TypeOK
<1>3. /\ f \in Frame /\ f.source = Top(t).source /\ f.stage = Top(t).stage
      /\ f.end = Top(t).end /\ f.next = Top(t).next /\ f.sink = NoSink
  BY <1>0, <1>2 DEF Frame
<1>4. f.next >= 1 /\ f.next <= f.end + 1
  BY <1>2, <1>3 DEF FrameShape
<1>5. Careful(f.source)
  BY <1>1, Untouched DEF lists
<1>6. /\ TypeOK' /\ ListsConsistent' /\ LoopsAgree' /\ StackShape'
      /\ RequestShape' /\ OneInside'
      /\ stack' \in [Threads -> Seq(Frame)]
      /\ \A u \in Threads \ {t} : stack'[u] = stack[u]
      /\ stack'[t] # <<>> /\ Top(t)' = f
      /\ \A u, m : Constructing(u, m)' => Constructing(u, m)
  BY <1>1, <1>3, <1>4, <1>5, SameStage DEF lists
<1>7. StageShape'
  <2>1. Progress(t)'
    BY <1>2, <1>3, <1>6 DEF Progress, In
  <2> QED
    BY <1>1, <1>6, <2>1, SameProgress DEF lists
<1>8. MortalShape'
  <2>1. Registered' = Registered
    BY <1>1 DEF Registered, lists
  <2>2. \A m \in Mortal : ~Calls(t, m)'
    BY <1>3, <1>6 DEF Calls, InCallback
  <2> QED
    BY <1>1, <1>6, <2>1, <2>2, SameMortals
<1> QED
  BY <1>6, <1>7, <1>8 DEF IInv

LEMMA AddPendingStep ==
  ASSUME IInv, NEW t \in Threads, AddPending(t)
  PROVE  IInv' /\ Registered' = Registered
<1>0. SUFFICES ASSUME NEW src, NEW s, NEW f,
                      src = Top(t).source,
                      s = pendingRegisters[src][Top(t).next],
                      f = [Top(t) EXCEPT !.next = @ + 1]
               PROVE  IInv' /\ Registered' = Registered
  OBVIOUS
<1>1. /\ stack[t] # <<>> /\ Top(t).stage = "adding" /\ SetTop(t, f)
      /\ Top(t).next <= Len(pendingRegisters[src])
      /\ sinks' = [sinks EXCEPT ![src] = AppendMissing(@, s)]
      /\ UNCHANGED <<pendingRegisters, pendingUnregisters, notifying, request, alive>>
  BY <1>0 DEF AddPending, In, ToAdd, ToRemove
<1>2. /\ Top(t) \in Frame /\ src \in Sources /\ Top(t).sink = NoSink
      /\ Top(t).next \in Nat /\ Top(t).next >= 1
      /\ notifying[src] = 0
      /\ \A u \in Threads : LoopsOf(u, src) = {}
      /\ FramesOf(t, src) # {}
  <2>1. /\ Top(t) \in Frame /\ src \in Sources /\ Top(t).sink = NoSink
        /\ FramesOf(t, src) # {}
        /\ FrameShape(t, Len(stack[t])) /\ Top(t) = stack[t][Len(stack[t])]
        /\ notifying[src] = 0 <=> LoopsOf(t, src) = {}
        /\ \A u \in Threads \ {t} : LoopsOf(u, src) = {}
    BY <1>0, <1>1, InnermostCall, TopFacts DEF IInv, TypeOK
  <2>2. notifying[src] = 0
    BY <1>0 DEF AddPending, ToAdd
  <2>3. Top(t).next \in Nat /\ Top(t).next >= 1
    BY <2>1 DEF Frame, FrameShape
  <2> QED
    BY <2>1, <2>2, <2>3
<1>3. /\ f \in Frame /\ f.source = src /\ f.stage = "adding"
      /\ f.end = Top(t).end /\ f.next = Top(t).next + 1 /\ f.sink = NoSink
  BY <1>0, <1>1, <1>2 DEF Frame
<1>4. request[t] = NoCall
  BY <1>1, <1>2, NoRequest, EventSourceAssumption
<1>5. /\ sinks[src] \in Seq(Sinks) /\ IsInjective(sinks[src])
      /\ pendingRegisters[src] \in Seq(Sinks) /\ pendingUnregisters[src] \in Seq(Sinks)
      /\ ToSet(pendingRegisters[src]) \cap ToSet(pendingUnregisters[src]) = {}
      /\ DOMAIN pendingRegisters[src] = 1..Len(pendingRegisters[src])
      /\ s \in Sinks /\ s \in ToSet(pendingRegisters[src])
  <2>1. /\ sinks[src] \in Seq(Sinks) /\ IsInjective(sinks[src])
        /\ pendingRegisters[src] \in Seq(Sinks) /\ pendingUnregisters[src] \in Seq(Sinks)
        /\ ToSet(pendingRegisters[src]) \cap ToSet(pendingUnregisters[src]) = {}
    BY <1>2 DEF IInv, TypeOK, ListsConsistent
  <2>2. DOMAIN pendingRegisters[src] = 1..Len(pendingRegisters[src])
        /\ Len(pendingRegisters[src]) \in Nat
    BY <2>1, LenProperties
  <2>3. Top(t).next \in 1..Len(pendingRegisters[src])
    BY <1>1, <1>2, <2>2
  <2> QED
    BY <1>0, <2>1, <2>2, <2>3, ElementOfSeq DEF ToSet
<1>6. /\ AppendMissing(sinks[src], s) \in Seq(Sinks)
      /\ IsInjective(AppendMissing(sinks[src], s))
      /\ ToSet(AppendMissing(sinks[src], s)) = ToSet(sinks[src]) \cup {s}
  BY <1>5, AppendMissingProperties
<1>7. Careful(src)
  <2>1. ListTypes'
    BY <1>1, <1>2, <1>6 DEF IInv, TypeOK, ListTypes
  <2>2. \A any \in Sources :
            sinks'[any] = IF any = src THEN AppendMissing(sinks[src], s) ELSE sinks[any]
    BY <1>1 DEF IInv, TypeOK
  <2>3. ListsConsistent'
    BY <1>1, <1>6, <2>2 DEF IInv, ListsConsistent
  <2>4. \A any \in Sources :
            (\A u \in Threads : FramesOf(u, any) = {}) => pendingUnregisters'[any] = <<>>
    BY <1>1 DEF IInv, LoopsAgree
  <2> QED
    BY <1>1, <1>2, <2>1, <2>2, <2>3, <2>4 DEF Careful, OnlyOf
<1>8. /\ TypeOK' /\ ListsConsistent' /\ LoopsAgree' /\ StackShape'
      /\ RequestShape' /\ OneInside'
      /\ stack' \in [Threads -> Seq(Frame)]
      /\ \A u \in Threads \ {t} : stack'[u] = stack[u]
      /\ stack'[t] # <<>> /\ Top(t)' = f
      /\ \A u, m : Constructing(u, m)' => Constructing(u, m)
  <2>1. f.next >= 1
    BY <1>2, <1>3
  <2> QED
    BY <1>0, <1>1, <1>2, <1>3, <1>4, <1>7, <2>1, SameStage
<1>9. sinks'[src] = AppendMissing(sinks[src], s)
  BY <1>1, <1>2 DEF IInv, TypeOK
<1>10. StageShape'
  <2>1. Progress(t)
    BY DEF IInv, StageShape
  <2>2. ASSUME NEW i \in 1..(f.next - 1) \cap DOMAIN pendingRegisters[src]
        PROVE  pendingRegisters[src][i] \in ToSet(sinks'[src])
    <3>1. i \in 1..(Top(t).next - 1) \/ i = Top(t).next
      BY <1>2, <1>3
    <3>2. i \in 1..(Top(t).next - 1) =>
              pendingRegisters[src][i] \in ToSet(sinks[src])
      BY <1>0, <1>1, <1>2, <2>1, <2>2 DEF Progress, In
    <3> QED
      BY <1>0, <1>6, <1>9, <3>1, <3>2
  <2>3. Progress(t)'
    BY <1>0, <1>1, <1>2, <1>3, <1>8, <2>2 DEF Progress, In
  <2> QED
    BY <1>0, <1>1, <1>7, <1>8, <2>3, SameProgress DEF Careful, OnlyOf
<1>11. MortalShape' /\ Registered' = Registered
  <2>1. \A any \in Sources : Registered'[any] = Registered[any]
    BY <1>1, <1>5, <1>6, <1>7, <1>9 DEF Registered, Careful, OnlyOf
  <2>2. \A m \in Mortal : ~Calls(t, m)'
    BY <1>3, <1>8 DEF Calls, InCallback
  <2>3. Registered' = Registered
    BY <2>1 DEF Registered
  <2> QED
    BY <1>1, <1>8, <2>1, <2>2, <2>3, SameMortals
<1> QED
  BY <1>8, <1>10, <1>11 DEF IInv

LEMMA RemovePendingStep ==
  ASSUME IInv, NEW t \in Threads, RemovePending(t)
  PROVE  IInv' /\ Registered' = Registered
<1>0. SUFFICES ASSUME NEW src, NEW s, NEW f,
                      src = Top(t).source,
                      s = pendingUnregisters[src][Top(t).next],
                      f = [Top(t) EXCEPT !.next = @ + 1]
               PROVE  IInv' /\ Registered' = Registered
  OBVIOUS
<1>1. /\ stack[t] # <<>> /\ Top(t).stage = "removing" /\ SetTop(t, f)
      /\ Top(t).next <= Len(pendingUnregisters[src])
      /\ sinks' = [sinks EXCEPT ![src] = RemoveFirst(@, s)]
      /\ UNCHANGED <<pendingRegisters, pendingUnregisters, notifying, request, alive>>
  BY <1>0 DEF RemovePending, In, ToAdd, ToRemove
<1>2. /\ Top(t) \in Frame /\ src \in Sources /\ Top(t).sink = NoSink
      /\ Top(t).next \in Nat /\ Top(t).next >= 1
      /\ notifying[src] = 0
      /\ \A u \in Threads : LoopsOf(u, src) = {}
      /\ FramesOf(t, src) # {}
  <2>1. /\ Top(t) \in Frame /\ src \in Sources /\ Top(t).sink = NoSink
        /\ FramesOf(t, src) # {}
        /\ FrameShape(t, Len(stack[t])) /\ Top(t) = stack[t][Len(stack[t])]
        /\ notifying[src] = 0 <=> LoopsOf(t, src) = {}
        /\ \A u \in Threads \ {t} : LoopsOf(u, src) = {}
    BY <1>0, <1>1, InnermostCall, TopFacts DEF IInv, TypeOK
  <2>2. notifying[src] = 0
    BY <1>0, <1>1 DEF IInv, StageShape, Progress, In
  <2>3. Top(t).next \in Nat /\ Top(t).next >= 1
    BY <2>1 DEF Frame, FrameShape
  <2> QED
    BY <2>1, <2>2, <2>3
<1>3. /\ f \in Frame /\ f.source = src /\ f.stage = "removing"
      /\ f.end = Top(t).end /\ f.next = Top(t).next + 1 /\ f.sink = NoSink
  BY <1>0, <1>1, <1>2 DEF Frame
<1>4. request[t] = NoCall
  BY <1>1, <1>2, NoRequest, EventSourceAssumption
<1>5. /\ sinks[src] \in Seq(Sinks) /\ IsInjective(sinks[src])
      /\ pendingRegisters[src] \in Seq(Sinks) /\ pendingUnregisters[src] \in Seq(Sinks)
      /\ ToSet(pendingRegisters[src]) \cap ToSet(pendingUnregisters[src]) = {}
      /\ DOMAIN pendingUnregisters[src] = 1..Len(pendingUnregisters[src])
      /\ s \in Sinks /\ s \in ToSet(pendingUnregisters[src])
  <2>1. /\ sinks[src] \in Seq(Sinks) /\ IsInjective(sinks[src])
        /\ pendingRegisters[src] \in Seq(Sinks) /\ pendingUnregisters[src] \in Seq(Sinks)
        /\ ToSet(pendingRegisters[src]) \cap ToSet(pendingUnregisters[src]) = {}
    BY <1>2 DEF IInv, TypeOK, ListsConsistent
  <2>2. DOMAIN pendingUnregisters[src] = 1..Len(pendingUnregisters[src])
        /\ Len(pendingUnregisters[src]) \in Nat
    BY <2>1, LenProperties
  <2>3. Top(t).next \in 1..Len(pendingUnregisters[src])
    BY <1>1, <1>2, <2>2
  <2> QED
    BY <1>0, <2>1, <2>2, <2>3, ElementOfSeq DEF ToSet
<1>6. /\ RemoveFirst(sinks[src], s) \in Seq(Sinks)
      /\ IsInjective(RemoveFirst(sinks[src], s))
      /\ ToSet(RemoveFirst(sinks[src], s)) = ToSet(sinks[src]) \ {s}
  BY <1>5, RemoveFirstProperties
<1>7. Careful(src)
  <2>1. ListTypes'
    BY <1>1, <1>2, <1>6 DEF IInv, TypeOK, ListTypes
  <2>2. \A any \in Sources :
            sinks'[any] = IF any = src THEN RemoveFirst(sinks[src], s) ELSE sinks[any]
    BY <1>1 DEF IInv, TypeOK
  <2>3. ListsConsistent'
    BY <1>1, <1>6, <2>2 DEF IInv, ListsConsistent
  <2>4. \A any \in Sources :
            (\A u \in Threads : FramesOf(u, any) = {}) => pendingUnregisters'[any] = <<>>
    BY <1>1 DEF IInv, LoopsAgree
  <2> QED
    BY <1>1, <1>2, <2>1, <2>2, <2>3, <2>4 DEF Careful, OnlyOf
<1>8. /\ TypeOK' /\ ListsConsistent' /\ LoopsAgree' /\ StackShape'
      /\ RequestShape' /\ OneInside'
      /\ stack' \in [Threads -> Seq(Frame)]
      /\ \A u \in Threads \ {t} : stack'[u] = stack[u]
      /\ stack'[t] # <<>> /\ Top(t)' = f
      /\ \A u, m : Constructing(u, m)' => Constructing(u, m)
  <2>1. f.next >= 1
    BY <1>2, <1>3
  <2> QED
    BY <1>0, <1>1, <1>2, <1>3, <1>4, <1>7, <2>1, SameStage
<1>9. sinks'[src] = RemoveFirst(sinks[src], s)
  BY <1>1, <1>2 DEF IInv, TypeOK
<1>10. StageShape'
  <2>1. Progress(t)
    BY DEF IInv, StageShape
  <2>2. ASSUME NEW i \in 1..(f.next - 1) \cap DOMAIN pendingUnregisters[src]
        PROVE  pendingUnregisters[src][i] \notin ToSet(sinks'[src])
    <3>1. i \in 1..(Top(t).next - 1) \/ i = Top(t).next
      BY <1>2, <1>3
    <3>2. i \in 1..(Top(t).next - 1) =>
              pendingUnregisters[src][i] \notin ToSet(sinks[src])
      BY <1>0, <1>1, <1>2, <2>1, <2>2 DEF Progress, In
    <3> QED
      BY <1>0, <1>6, <1>9, <3>1, <3>2
  <2>3. Progress(t)'
    BY <1>0, <1>1, <1>2, <1>3, <1>8, <2>2 DEF Progress, In
  <2> QED
    BY <1>0, <1>1, <1>7, <1>8, <2>3, SameProgress DEF Careful, OnlyOf
<1>11. MortalShape' /\ Registered' = Registered
  <2>1. \A any \in Sources : Registered'[any] = Registered[any]
    BY <1>1, <1>5, <1>6, <1>7, <1>9 DEF Registered, Careful, OnlyOf
  <2>2. \A m \in Mortal : ~Calls(t, m)'
    BY <1>3, <1>8 DEF Calls, InCallback
  <2>3. Registered' = Registered
    BY <2>1 DEF Registered
  <2> QED
    BY <1>1, <1>8, <2>1, <2>2, <2>3, SameMortals
<1> QED
  BY <1>8, <1>10, <1>11 DEF IInv

LEMMA DieStep ==
  ASSUME IInv, NEW t \in Threads, Die(t)
  PROVE  IInv'
<1>0. SUFFICES ASSUME NEW src, NEW s, NEW f,
                      src = Top(t).source, s = Top(t).sink,
                      f = [Top(t) EXCEPT !.sink = NoSink]
               PROVE  IInv'
  OBVIOUS
<1>1. /\ stack[t] # <<>> /\ s # NoSink /\ s \in Mortal /\ SetTop(t, f)
      /\ Drop(src, s) /\ alive' = alive \ {s}
      /\ UNCHANGED <<notifying, request>>
  BY <1>0 DEF Die, InCallback, Drop
<1>2. /\ Top(t) \in Frame /\ src \in Sources /\ Top(t).stage = "looping"
      /\ FrameShape(t, Len(stack[t])) /\ Top(t) = stack[t][Len(stack[t])]
      /\ FramesOf(t, src) # {} /\ LockFree(t, src)
  BY <1>0, <1>1, InnermostCall, TopFacts DEF IInv, TypeOK, LockFree
<1>3. /\ f \in Frame /\ f.source = src /\ f.stage = "looping"
      /\ f.end = Top(t).end /\ f.next = Top(t).next /\ f.sink = NoSink
  BY <1>0, <1>2 DEF Frame
<1>4. f.next >= 1 /\ f.next <= f.end + 1
  BY <1>2, <1>3 DEF FrameShape
<1>5. request[t] = NoCall
  BY <1>0, <1>1, NoRequest
<1>6. s \in Sinks /\ Top(t).sink \in Sinks
  BY <1>0, <1>1, EventSourceAssumption
<1>7. /\ Careful(src)
      /\ \A any \in Sources :
             Registered'[any] = IF any = src THEN Registered[any] \ {s}
                                             ELSE Registered[any]
  <2>1. Drop(src, s)
    BY <1>1
  <2>2. src \in Sources /\ LockFree(t, src)
    BY <1>2
  <2> QED
    BY <1>6, <2>1, <2>2, DropEffect
<1>8. /\ TypeOK' /\ ListsConsistent' /\ LoopsAgree' /\ StackShape'
      /\ RequestShape' /\ OneInside'
      /\ stack' \in [Threads -> Seq(Frame)]
      /\ \A u \in Threads \ {t} : stack'[u] = stack[u]
      /\ stack'[t] # <<>> /\ Top(t)' = f
      /\ \A u, m : Constructing(u, m)' => Constructing(u, m)
  <2>1. alive' \subseteq alive
    BY <1>1
  <2> QED
    BY <1>0, <1>1, <1>2, <1>3, <1>4, <1>5, <1>7, <2>1, SameStage
<1>9. StageShape'
  <2>1. Progress(t)'
    BY <1>3, <1>8 DEF Progress, In
  <2> QED
    BY <1>0, <1>1, <1>7, <1>8, <2>1, SameProgress DEF Careful, OnlyOf
<1>10. MortalShape'
  <2>1. Calls(t, s) /\ s \in Registered[src]
    BY <1>0, <1>1 DEF IInv, MortalShape, Calls, InCallback
  <2>2. \A any \in Sources : s \notin Registered'[any]
    BY <1>1, <1>2, <1>7, <2>1 DEF IInv, MortalShape
  <2>3. \A u \in Threads : ~Constructing(u, s)
    BY <1>1, <1>2, <2>1 DEF IInv, MortalShape
  <2>4. ASSUME NEW u \in Threads, NEW m \in Mortal, Calls(u, m)'
        PROVE  m \in Registered'[Top(u)'.source]
    <3>1. u # t
      BY <1>3, <1>8, <2>4 DEF Calls, InCallback
    <3>2. Top(u)' = Top(u) /\ Calls(u, m)
      BY <1>8, <2>4, <3>1 DEF Calls, InCallback, Top
    <3>3. /\ m \in Registered[Top(u).source] /\ Top(u).source \in Sources
          /\ FramesOf(u, Top(u).source) # {}
      BY <3>2, InnermostCall DEF IInv, MortalShape, Calls, InCallback
    <3>4. Top(u).source # src
      BY <1>2, <3>1, <3>3 DEF LockFree
    <3> QED
      BY <1>7, <3>2, <3>3, <3>4
  <2>5. \A m \in Mortal : \A any \in Sources :
            m # s => (m \in Registered'[any] <=> m \in Registered[any])
    BY <1>7
  <2>6. \A m \in Mortal : m # s => (m \in alive' <=> m \in alive)
    BY <1>1
  <2> QED
    BY <1>8, <2>2, <2>3, <2>4, <2>5, <2>6 DEF IInv, MortalShape
<1> QED
  BY <1>8, <1>9, <1>10 DEF IInv

-----------------------------------------------------------------------------
\* The steps by which a call enters Notify, goes from loop to loop and leaves.
LEMMA NotifyStep ==
  ASSUME IInv, NEW t \in Threads, Notify(t)
  PROVE  IInv'
<1>0. SUFFICES ASSUME NEW src, NEW f,
                      src = request[t].source,
                      f = [source |-> src, stage |-> "adding",
                           next |-> 1, end |-> 0, sink |-> NoSink]
               PROVE  IInv'
  OBVIOUS
<1>1. /\ request[t] # NoCall /\ request[t].op = "Notify" /\ LockFree(t, src)
      /\ request' = [request EXCEPT ![t] = NoCall]
      /\ stack' = [stack EXCEPT ![t] = Append(@, f)]
      /\ UNCHANGED <<lists, alive>>
  BY <1>0 DEF Notify, Enter
<1>2. TypeOK /\ CallShape(t)
  BY DEF IInv, RequestShape
<1>3. /\ src \in Sources /\ stack \in [Threads -> Seq(Frame)]
      /\ stack[t] # <<>> => Top(t).sink \in Sinks \ Mortal
      /\ Cardinality(FramesOf(t, src)) < MaxNesting
  BY <1>0, <1>1, <1>2 DEF TypeOK, Call, CallShape
<1>4. f \in Frame /\ f.source = src /\ f.stage = "adding" /\ f.next = 1 /\ f.sink = NoSink
  BY <1>0, <1>3 DEF Frame, Stages
<1>5. /\ stack' \in [Threads -> Seq(Frame)]
      /\ \A u \in Threads \ {t} : stack'[u] = stack[u]
      /\ stack'[t] # <<>> /\ Top(t)' = f
      /\ Len(stack[t]) \in Nat /\ Len(stack'[t]) = Len(stack[t]) + 1
      /\ DOMAIN stack[t] = 1..Len(stack[t])
      /\ DOMAIN stack'[t] = 1..(Len(stack[t]) + 1)
      /\ \A i \in DOMAIN stack[t] : stack'[t][i] = stack[t][i]
      /\ stack'[t][Len(stack[t]) + 1] = f
  BY <1>1, <1>3, <1>4, PushFrame
<1>6. \A u \in Threads : \A any \in Sources :
          /\ FramesOf(u, any)' = IF u = t /\ any = src
                                 THEN FramesOf(u, any) \cup {Len(stack[t]) + 1}
                                 ELSE FramesOf(u, any)
          /\ LoopsOf(u, any)' = LoopsOf(u, any)
          /\ Len(stack[t]) + 1 \notin FramesOf(t, any)
  <2>1. stack' = [stack EXCEPT ![t] = Append(@, f)]
    BY <1>1
  <2>2. f \in Frame /\ f.stage # "looping"
    BY <1>4
  <2>3. stack \in [Threads -> Seq(Frame)]
    BY <1>3
  <2>4. ASSUME NEW u \in Threads, NEW any \in Sources
        PROVE  /\ FramesOf(u, any)' = IF u = t /\ any = f.source
                                      THEN FramesOf(u, any) \cup {Len(stack[t]) + 1}
                                      ELSE FramesOf(u, any)
               /\ LoopsOf(u, any)' = LoopsOf(u, any)
               /\ Len(stack[t]) + 1 \notin FramesOf(t, any)
    BY <2>1, <2>2, <2>3, PushFrames
  <2>5. f.source = src
    BY <1>4
  <2> QED
    BY <2>4, <2>5
<1>7. request'[t] = NoCall /\ \A u \in Threads \ {t} : request'[u] = request[u]
  BY <1>1, <1>2 DEF TypeOK
<1>8. TypeOK'
  BY <1>1, <1>2, <1>5 DEF TypeOK, lists
<1>9. ListsConsistent'
  BY <1>1 DEF IInv, ListsConsistent, lists
<1>10. StackShape'
  <2>1. SUFFICES ASSUME NEW u \in Threads, NEW i \in DOMAIN stack'[u]
                 PROVE  FrameShape(u, i)'
    BY DEF StackShape
  <2>2. CASE u # t
    BY <1>5, <2>1, <2>2 DEF IInv, StackShape, FrameShape
  <2>3. CASE u = t /\ i = Len(stack[t]) + 1
    BY <1>4, <1>5, <2>3 DEF FrameShape
  <2>4. CASE u = t /\ i \in DOMAIN stack[t]
    <3>1. FrameShape(t, i) /\ stack'[t][i] = stack[t][i]
      BY <1>5, <2>4 DEF IInv, StackShape
    <3>2. stack[t] # <<>>
      BY <1>5, <2>4
    <3>3. stack[t][i].sink \in Sinks \ Mortal
      <4>1. CASE i = Len(stack[t])
        BY <1>3, <3>2, <4>1, TopFacts
      <4>2. CASE i # Len(stack[t])
        BY <1>5, <2>4, <3>1, <4>2 DEF FrameShape
      <4> QED
        BY <4>1, <4>2
    <3> QED
      BY <2>4, <3>1, <3>3 DEF FrameShape
  <2> QED
    BY <1>5, <2>1, <2>2, <2>3, <2>4
<1>11. RequestShape'
  <2>1. ASSUME NEW u \in Threads \ {t}
        PROVE  CallShape(u)'
    <3>1. CallShape(u)
      BY DEF IInv, RequestShape
    <3>2. FramesOf(u, request[u].source)' = FramesOf(u, request[u].source)
          /\ Top(u)' = Top(u)
      BY <1>5, <1>7, <2>1 DEF FramesOf, Top
    <3> QED
      BY <1>5, <1>7, <3>1, <3>2 DEF CallShape
  <2>2. CallShape(t)'
    BY <1>7 DEF CallShape
  <2> QED
    BY <2>1, <2>2 DEF RequestShape
<1>12. OneInside'
  <2>1. Cardinality(FramesOf(t, src)') <= MaxNesting
    <3>1. /\ IsFiniteSet(FramesOf(t, src)) /\ Cardinality(FramesOf(t, src)) \in Nat
      BY <1>3, FramesFinite
    <3>2. Cardinality(FramesOf(t, src) \cup {Len(stack[t]) + 1})
              = Cardinality(FramesOf(t, src)) + 1
      BY <1>3, <1>6, <3>1, FS_AddElement
    <3>3. MaxNesting \in Nat
      BY EventSourceAssumption
    <3>4. \A c, m \in Nat : c < m => c + 1 <= m
      OBVIOUS
    <3>5. FramesOf(t, src)' = FramesOf(t, src) \cup {Len(stack[t]) + 1}
      BY <1>3, <1>6
    <3>6. Cardinality(FramesOf(t, src)) + 1 <= MaxNesting
      BY <1>3, <3>1, <3>3, <3>4
    <3> QED
      BY <3>2, <3>5, <3>6
  <2>2. ASSUME NEW any \in Sources, NEW u \in Threads
        PROVE  Cardinality(FramesOf(u, any)') <= MaxNesting
    BY <1>6, <2>1 DEF IInv, OneInside
  <2>3. ASSUME NEW any \in Sources, NEW u \in Threads, NEW v \in Threads,
               FramesOf(u, any)' # {}, FramesOf(v, any)' # {}
        PROVE  u = v
    BY <1>1, <1>6, <2>3 DEF IInv, OneInside, LockFree
  <2> QED
    BY <2>2, <2>3 DEF OneInside
<1>13. LoopsAgree'
  <2>1. ASSUME NEW any \in Sources, NEW u \in Threads
        PROVE  /\ \A i \in LoopsOf(u, any)' : stack'[u][i].end = Len(sinks'[any])
               /\ FramesOf(u, any)' # {} =>
                      notifying'[any] = Cardinality(LoopsOf(u, any)')
    <3>1. /\ \A i \in LoopsOf(u, any) : stack'[u][i] = stack[u][i]
          /\ sinks' = sinks /\ notifying' = notifying
      BY <1>1, <1>5 DEF LoopsOf, FramesOf, lists
    <3>2. /\ \A i \in LoopsOf(u, any)' : stack'[u][i].end = Len(sinks'[any])
          /\ LoopsOf(u, any)' = LoopsOf(u, any)
      <4>1. \A i \in LoopsOf(u, any) : stack[u][i].end = Len(sinks[any])
        BY DEF IInv, LoopsAgree
      <4>2. LoopsOf(u, any)' = LoopsOf(u, any)
        BY <1>6
      <4> QED
        BY <3>1, <4>1, <4>2
    <3>3. FramesOf(u, any) # {} => notifying[any] = Cardinality(LoopsOf(u, any))
      BY DEF IInv, LoopsAgree
    <3>4. CASE u = t /\ any = src
      <4>1. CASE FramesOf(t, src) = {}
        <5>1. \A v \in Threads : FramesOf(v, src) = {}
          BY <1>1, <4>1 DEF LockFree
        <5>2. notifying[src] = 0
          BY <1>3, <5>1 DEF IInv, LoopsAgree
        <5>3. LoopsOf(t, src) = {}
          BY <4>1 DEF LoopsOf
        <5> QED
          BY <3>1, <3>4, <3>2, <5>2, <5>3, FS_EmptySet
      <4>2. CASE FramesOf(t, src) # {}
        BY <3>1, <3>4, <3>2, <3>3, <4>2
      <4> QED
        BY <4>1, <4>2
    <3>5. CASE ~(u = t /\ any = src)
      <4>1. FramesOf(u, any)' = FramesOf(u, any)
        BY <1>6, <3>5
      <4> QED
        BY <3>1, <3>2, <3>3, <4>1
    <3> QED
      BY <3>4, <3>5
  <2>2. ASSUME NEW any \in Sources, \A u \in Threads : FramesOf(u, any)' = {}
        PROVE  notifying'[any] = 0 /\ pendingUnregisters'[any] = <<>>
    <3>1. \A u \in Threads : FramesOf(u, any) = {}
      BY <1>6, <2>2
    <3> QED
      BY <1>1, <2>2, <3>1 DEF IInv, LoopsAgree, lists
  <2> QED
    BY <2>1, <2>2 DEF LoopsAgree
<1>14. StageShape'
  <2>1. ASSUME NEW u \in Threads \ {t}
        PROVE  Progress(u)'
    <3>1. Progress(u)
      BY DEF IInv, StageShape
    <3>2. Top(u)' = Top(u) /\ stack'[u] = stack[u]
      BY <1>5, <2>1 DEF Top
    <3> QED
      BY <1>1, <3>1, <3>2 DEF Progress, In, lists
  <2>2. Progress(t)'
    <3>1. 1..(f.next - 1) = {}
      BY <1>4
    <3> QED
      BY <1>4, <1>5, <3>1 DEF Progress, In
  <2> QED
    BY <2>1, <2>2 DEF StageShape
<1>15. MortalShape'
  <2>1. Registered' = Registered
    BY <1>1 DEF Registered, lists
  <2>2. \A m \in Mortal : ~Calls(t, m)'
    BY <1>4, <1>5 DEF Calls, InCallback
  <2>3. \A m \in Mortal : \A u \in Threads : Constructing(u, m)' => Constructing(u, m)
    BY <1>7 DEF Constructing
  <2> QED
    BY <1>1, <1>5, <2>1, <2>2, <2>3, SameMortals
<1> QED
  BY <1>8, <1>9, <1>10, <1>11, <1>12, <1>13, <1>14, <1>15 DEF IInv

\* A step of t inside src that replaces or pops its frame need only be looked
\* at for t and src.
LEMMA InsideStep ==
  ASSUME IInv, NEW t \in Threads, stack[t] # <<>>, NEW src \in Sources, src = Top(t).source,
         Pop(t) \/ \E f \in Frame : SetTop(t, f) /\ f.source = Top(t).source,
         sinks' = sinks,
         \A any \in Sources \ {src} :
             /\ notifying'[any] = notifying[any]
             /\ pendingUnregisters'[any] = pendingUnregisters[any],
         \A i \in LoopsOf(t, src)' : stack'[t][i].end = Len(sinks[src]),
         FramesOf(t, src)' # {} => notifying'[src] = Cardinality(LoopsOf(t, src)'),
         FramesOf(t, src)' = {} => notifying'[src] = 0 /\ pendingUnregisters'[src] = <<>>
  PROVE  LoopsAgree' /\ OneInside'
<1>1. stack \in [Threads -> Seq(Frame)]
  BY DEF IInv, TypeOK
<1>2. /\ Top(t) = stack[t][Len(stack[t])] /\ Len(stack[t]) \in FramesOf(t, src)
      /\ \A u \in Threads \ {t} : FramesOf(u, src) = {} /\ LoopsOf(u, src) = {}
  BY <1>1, InnermostCall, TopFacts
<1>3. ASSUME NEW u \in Threads, NEW any \in Sources
      PROVE  /\ FramesOf(u, any)' \subseteq FramesOf(u, any)
             /\ u # t \/ any # src => /\ FramesOf(u, any)' = FramesOf(u, any)
                                     /\ LoopsOf(u, any)' = LoopsOf(u, any)
  <2>1. any # src => Len(stack[t]) \notin FramesOf(t, any) /\ Len(stack[t]) \notin LoopsOf(t, any)
    BY <1>2 DEF FramesOf, LoopsOf
  <2>2. CASE Pop(t)
    <3>1. /\ FramesOf(u, any)' = IF u = t THEN FramesOf(u, any) \ {Len(stack[t])}
                                          ELSE FramesOf(u, any)
          /\ LoopsOf(u, any)' = IF u = t THEN LoopsOf(u, any) \ {Len(stack[t])}
                                         ELSE LoopsOf(u, any)
      BY <1>1, <2>2, PopFrames
    <3> QED
      BY <2>1, <3>1
  <2>3. ASSUME NEW f \in Frame, SetTop(t, f), f.source = Top(t).source
        PROVE  /\ FramesOf(u, any)' = FramesOf(u, any)
               /\ u # t \/ any # src => LoopsOf(u, any)' = LoopsOf(u, any)
    BY <1>1, <2>3, ReplaceTopFrames
  <2> QED
    BY <2>2, <2>3
<1>4. /\ stack' \in [Threads -> Seq(Frame)]
      /\ \A u \in Threads \ {t} : stack'[u] = stack[u]
      /\ \A i \in DOMAIN stack[t] \ {Len(stack[t])} : stack'[t][i] = stack[t][i]
  <2>1. CASE Pop(t)
    BY <1>1, <2>1, PopFrame, TopFacts
  <2>2. CASE \E f \in Frame : SetTop(t, f) /\ f.source = Top(t).source
    BY <1>1, <2>2, ReplaceTop
  <2> QED
    BY <2>1, <2>2
<1>5. OneInside'
  <2>1. ASSUME NEW u \in Threads, NEW any \in Sources
        PROVE  Cardinality(FramesOf(u, any)') <= MaxNesting
    <3>1. /\ IsFiniteSet(FramesOf(u, any)) /\ Cardinality(FramesOf(u, any)) \in Nat
          /\ Cardinality(FramesOf(u, any)) <= MaxNesting /\ MaxNesting \in Nat
      BY <1>1, FramesFinite, EventSourceAssumption DEF IInv, OneInside
    <3>2. /\ Cardinality(FramesOf(u, any)') <= Cardinality(FramesOf(u, any))
          /\ Cardinality(FramesOf(u, any)') \in Nat
      BY <1>3, <3>1, FS_Subset, FS_CardinalityType
    <3> QED
      BY <3>1, <3>2
  <2> QED
    BY <1>3, <2>1 DEF IInv, OneInside
<1>6. ASSUME NEW u \in Threads, NEW any \in Sources
      PROVE  /\ \A i \in LoopsOf(u, any)' : stack'[u][i].end = Len(sinks'[any])
             /\ FramesOf(u, any)' # {} =>
                    notifying'[any] = Cardinality(LoopsOf(u, any)')
  <2>1. CASE any # src
    <3>1. LoopsOf(u, any)' = LoopsOf(u, any) /\ FramesOf(u, any)' = FramesOf(u, any)
      BY <1>3, <2>1
    <3>2. \A i \in LoopsOf(u, any) : stack'[u][i].end = stack[u][i].end
      <4>1. \A i \in LoopsOf(t, any) : i \in DOMAIN stack[t] \ {Len(stack[t])}
        BY <1>2, <2>1 DEF LoopsOf, FramesOf
      <4> QED
        BY <1>4, <4>1
    <3> QED
      BY <2>1, <3>1, <3>2 DEF IInv, LoopsAgree
  <2>2. CASE any = src /\ u # t
    <3>1. LoopsOf(u, any)' = {} /\ FramesOf(u, any)' = {}
      BY <1>2, <1>3, <2>2
    <3> QED
      BY <3>1
  <2>3. CASE any = src /\ u = t
    BY <2>3
  <2> QED
    BY <2>1, <2>2, <2>3
<1>7. ASSUME NEW any \in Sources, \A u \in Threads : FramesOf(u, any)' = {}
      PROVE  notifying'[any] = 0 /\ pendingUnregisters'[any] = <<>>
  <2>1. CASE any = src
    BY <1>7, <2>1
  <2>2. CASE any # src
    <3>1. \A u \in Threads : FramesOf(u, any) = {}
      BY <1>3, <1>7, <2>2
    <3> QED
      BY <2>2, <3>1 DEF IInv, LoopsAgree
  <2> QED
    BY <2>1, <2>2
<1> QED
  BY <1>5, <1>6, <1>7 DEF LoopsAgree

\* After a call has left, its thread is back in the callback it came from.
LEMMA BackInCallback ==
  ASSUME IInv, NEW t \in Threads, stack[t] # <<>>, Pop(t)
  PROVE  Progress(t)' /\ \A m \in Mortal : ~Calls(t, m)'
<1>1. stack \in [Threads -> Seq(Frame)]
  BY DEF IInv, TypeOK
<1>2. CASE stack'[t] = <<>>
  BY <1>2 DEF Progress, In, Calls, InCallback
<1>3. CASE stack'[t] # <<>>
  <2>1. /\ Len(stack[t]) > 1 /\ Top(t)' = stack[t][Len(stack[t]) - 1]
        /\ Len(stack[t]) \in Nat /\ DOMAIN stack[t] = 1..Len(stack[t])
    BY <1>1, <1>3, PopFrame, TopFacts
  <2>2. Len(stack[t]) - 1 \in DOMAIN stack[t] /\ Len(stack[t]) - 1 < Len(stack[t])
    BY <2>1
  <2>3. FrameShape(t, Len(stack[t]) - 1)
    BY <2>2 DEF IInv, StackShape
  <2>4. Top(t)'.sink \in Sinks \ Mortal /\ Top(t)'.stage = "looping"
    BY <2>1, <2>2, <2>3, EventSourceAssumption DEF FrameShape
  <2> QED
    BY <2>4 DEF Progress, In, Calls, InCallback
<1> QED
  BY <1>2, <1>3

LEMMA BeginLoopStep ==
  ASSUME IInv, NEW t \in Threads, BeginLoop(t)
  PROVE  IInv' /\ Registered' = Registered
<1>0. SUFFICES ASSUME NEW src, NEW n, NEW f,
                      src = Top(t).source, n = Len(stack[t]),
                      f = [Top(t) EXCEPT !.stage = "looping", !.next = 1,
                                         !.end = Len(sinks[src])]
               PROVE  IInv' /\ Registered' = Registered
  OBVIOUS
<1>1. /\ stack[t] # <<>> /\ Top(t).stage = "adding" /\ SetTop(t, f)
      /\ notifying[src] = 0 => ~(Top(t).next <= Len(pendingRegisters[src]))
      /\ pendingRegisters' = [pendingRegisters EXCEPT ![src] =
             IF notifying[src] = 0 THEN <<>> ELSE @]
      /\ notifying' = [notifying EXCEPT ![src] =
             IF @ + 1 = NotifyModulus THEN 0 ELSE @ + 1]
      /\ UNCHANGED <<sinks, pendingUnregisters, request, alive>>
  BY <1>0 DEF BeginLoop, In, ToAdd
<1>2. TypeOK /\ stack \in [Threads -> Seq(Frame)]
  BY DEF IInv, TypeOK
<1>3. /\ Top(t) \in Frame /\ src \in Sources /\ Top(t).sink = NoSink
      /\ n \in FramesOf(t, src) /\ n \notin LoopsOf(t, src)
      /\ Top(t) = stack[t][n] /\ FrameShape(t, n)
      /\ notifying[src] = Cardinality(LoopsOf(t, src))
  BY <1>0, <1>1, <1>2, InnermostCall, TopFacts DEF LoopsOf
<1>4. /\ f \in Frame /\ f.source = src /\ f.stage = "looping" /\ f.next = 1
      /\ f.end = Len(sinks[src]) /\ f.end \in Nat /\ f.sink = NoSink
  <2>1. Len(sinks[src]) \in Nat
    BY <1>2, <1>3, LenProperties DEF TypeOK
  <2> QED
    BY <1>0, <1>3, <2>1 DEF Frame, Stages
<1>5. /\ stack' \in [Threads -> Seq(Frame)]
      /\ \A u \in Threads \ {t} : stack'[u] = stack[u]
      /\ stack'[t] # <<>> /\ Top(t)' = f
      /\ \A i \in DOMAIN stack[t] : stack'[t][i] = IF i = n THEN f ELSE stack[t][i]
  BY <1>0, <1>1, <1>2, <1>4, ReplaceTop
<1>6. /\ FramesOf(t, src)' = FramesOf(t, src)
      /\ LoopsOf(t, src)' = LoopsOf(t, src) \cup {n}
  <2>1. stack[t] # <<>> /\ SetTop(t, f) /\ f.source = Top(t).source /\ src \in Sources
    BY <1>0, <1>1, <1>3, <1>4
  <2>2. /\ FramesOf(t, src)' = FramesOf(t, src)
        /\ LoopsOf(t, src)' =
               IF t # t \/ src # f.source THEN LoopsOf(t, src)
               ELSE IF f.stage = "looping" THEN LoopsOf(t, src) \cup {Len(stack[t])}
               ELSE LoopsOf(t, src) \ {Len(stack[t])}
    BY <1>2, <1>4, <2>1, ReplaceTopFrames
  <2> QED
    BY <1>0, <1>4, <2>2
<1>7. /\ Cardinality(LoopsOf(t, src)') = notifying[src] + 1
      /\ notifying[src] + 1 < NotifyModulus /\ notifying[src] \in Nat
      /\ NotifyModulus \in Nat
  <2>1. /\ IsFiniteSet(FramesOf(t, src)) /\ IsFiniteSet(LoopsOf(t, src))
        /\ Cardinality(FramesOf(t, src)) \in Nat /\ Cardinality(LoopsOf(t, src)) \in Nat
    BY <1>2, FramesFinite
  <2>2. Cardinality(LoopsOf(t, src) \cup {n}) = Cardinality(LoopsOf(t, src)) + 1
    BY <1>3, <2>1, FS_AddElement
  <2>3. LoopsOf(t, src) \cup {n} \subseteq FramesOf(t, src)
    BY <1>3 DEF LoopsOf
  <2>4. Cardinality(LoopsOf(t, src) \cup {n}) <= Cardinality(FramesOf(t, src))
    BY <2>1, <2>3, FS_Subset
  <2>5. Cardinality(FramesOf(t, src)) <= MaxNesting
    BY <1>3 DEF IInv, OneInside
  <2>6. MaxNesting \in Nat /\ NotifyModulus \in Nat /\ MaxNesting < NotifyModulus
    BY EventSourceAssumption
  <2> QED
    BY <1>3, <1>6, <2>1, <2>2, <2>4, <2>5, <2>6
<1>8. notifying'[src] = notifying[src] + 1
  BY <1>1, <1>2, <1>3, <1>7 DEF TypeOK
<1>9. request[t] = NoCall
  BY <1>1, <1>3, NoRequest, EventSourceAssumption
<1>10. TypeOK'
  <2>1. notifying' \in [Sources -> 0..(NotifyModulus - 1)]
    <3>1. notifying[src] + 1 \in 0..(NotifyModulus - 1)
      BY <1>7
    <3>2. notifying' = [any \in Sources |-> notifying'[any]]
      BY <1>1, <1>2 DEF TypeOK
    <3>3. \A any \in Sources \ {src} : notifying'[any] = notifying[any]
      BY <1>1, <1>2 DEF TypeOK
    <3>4. \A any \in Sources : notifying'[any] \in 0..(NotifyModulus - 1)
      BY <1>2, <1>8, <3>1, <3>3 DEF TypeOK
    <3> QED
      BY <3>2, <3>4
  <2>2. pendingRegisters' \in [Sources -> Seq(Sinks)]
    BY <1>1, <1>2, EmptySeq DEF TypeOK
  <2> QED
    BY <1>1, <1>2, <1>5, <2>1, <2>2 DEF TypeOK
<1>11. ListsConsistent'
  <2>1. IsInjective(<<>>) /\ ToSet(<<>>) = {}
    BY DEF IsInjective, ToSet
  <2>2. \A any \in Sources :
            pendingRegisters'[any] = pendingRegisters[any] \/ pendingRegisters'[any] = <<>>
    BY <1>1, <1>2 DEF TypeOK
  <2>3. ASSUME NEW any \in Sources
        PROVE  /\ IsInjective(pendingRegisters'[any])
               /\ ToSet(pendingRegisters'[any]) \cap ToSet(pendingUnregisters[any]) = {}
    BY <2>1, <2>2 DEF IInv, ListsConsistent
  <2> QED
    BY <1>1, <2>3 DEF IInv, ListsConsistent
<1>12. LoopsAgree' /\ OneInside'
  <2>1. \A i \in LoopsOf(t, src)' : stack'[t][i].end = Len(sinks[src])
    <3>1. \A i \in LoopsOf(t, src) : stack[t][i].end = Len(sinks[src])
      BY <1>3 DEF IInv, LoopsAgree
    <3>2. \A i \in LoopsOf(t, src) \cup {n} : i \in DOMAIN stack[t]
      BY <1>3 DEF LoopsOf, FramesOf
    <3> QED
      BY <1>4, <1>5, <1>6, <3>1, <3>2
  <2>2. \A any \in Sources \ {src} :
            /\ notifying'[any] = notifying[any]
            /\ pendingUnregisters'[any] = pendingUnregisters[any]
    BY <1>1, <1>2 DEF TypeOK
  <2>3. FramesOf(t, src)' # {} /\ notifying'[src] = Cardinality(LoopsOf(t, src)')
    BY <1>3, <1>6, <1>7, <1>8
  <2>4. \E g \in Frame : SetTop(t, g) /\ g.source = Top(t).source
    BY <1>0, <1>1, <1>4
  <2>5. stack[t] # <<>> /\ src \in Sources /\ src = Top(t).source /\ sinks' = sinks
    BY <1>0, <1>1, <1>3
  <2> QED
    BY <2>1, <2>2, <2>3, <2>4, <2>5, InsideStep
<1>13. StackShape'
  <2>1. f.next >= 1 /\ f.next <= f.end + 1
    BY <1>4
  <2> QED
    BY <1>1, <1>4, <2>1, SameShapes
<1>14. RequestShape'
  BY <1>1, <1>5, <1>9, SameRequests
<1>15. StageShape'
  <2>1. Progress(t)'
    BY <1>4, <1>5 DEF Progress, In
  <2>2. \A any \in Sources \ {Top(t).source} :
            /\ sinks'[any] = sinks[any]
            /\ pendingRegisters'[any] = pendingRegisters[any]
            /\ pendingUnregisters'[any] = pendingUnregisters[any]
            /\ notifying'[any] = notifying[any]
    BY <1>0, <1>1, <1>2 DEF TypeOK
  <2> QED
    BY <1>1, <1>5, <2>1, <2>2, SameProgress
<1>16. MortalShape' /\ Registered' = Registered
  <2>1. Registered'[src] = Registered[src]
    <3>1. CASE notifying[src] = 0
      <4>1. pendingRegisters'[src] = <<>> /\ ToSet(<<>>) = {}
        BY <1>1, <1>2, <1>3, <3>1 DEF TypeOK, ToSet
      <4>2. Len(pendingRegisters[src]) \in Nat
            /\ DOMAIN pendingRegisters[src] = 1..Len(pendingRegisters[src])
        BY <1>2, <1>3, LenProperties DEF TypeOK
      <4>3. Top(t).next \in Nat
        BY <1>3 DEF Frame
      <4>4. \A i \in DOMAIN pendingRegisters[src] : i \in 1..(Top(t).next - 1)
        BY <1>1, <3>1, <4>2, <4>3
      <4>5. \A i \in DOMAIN pendingRegisters[src] :
                pendingRegisters[src][i] \in ToSet(sinks[src])
        BY <1>0, <1>1, <3>1, <4>4 DEF IInv, StageShape, Progress, In
      <4>6. ToSet(pendingRegisters[src]) \subseteq ToSet(sinks[src])
        BY <4>5 DEF ToSet
      <4> QED
        BY <1>1, <1>3, <4>1, <4>6 DEF Registered
    <3>2. CASE notifying[src] # 0
      <4>1. pendingRegisters'[src] = pendingRegisters[src]
        BY <1>1, <1>2, <1>3, <3>2 DEF TypeOK
      <4> QED
        BY <1>1, <1>3, <4>1 DEF Registered
    <3> QED
      BY <3>1, <3>2
  <2>2. \A any \in Sources : Registered'[any] = Registered[any]
    BY <1>1, <1>2, <2>1 DEF Registered, TypeOK
  <2>3. \A m \in Mortal : ~Calls(t, m)'
    BY <1>4, <1>5 DEF Calls, InCallback
  <2>4. \A u, m : Constructing(u, m)' => Constructing(u, m)
    BY <1>1 DEF Constructing
  <2>5. Registered' = Registered
    BY <2>2 DEF Registered
  <2> QED
    BY <1>1, <1>5, <2>2, <2>3, <2>4, <2>5, SameMortals
<1> QED
  BY <1>10, <1>11, <1>12, <1>13, <1>14, <1>15, <1>16 DEF IInv

LEMMA LeaveStep ==
  ASSUME IInv, NEW t \in Threads, Leave(t)
  PROVE  IInv' /\ Registered' = Registered
<1>0. SUFFICES ASSUME NEW src, NEW n, src = Top(t).source, n = Len(stack[t])
               PROVE  IInv' /\ Registered' = Registered
  OBVIOUS
<1>1. /\ stack[t] # <<>> /\ Top(t).stage = "removing" /\ Pop(t)
      /\ ~(Top(t).next <= Len(pendingUnregisters[src]))
      /\ pendingUnregisters' = [pendingUnregisters EXCEPT ![src] = <<>>]
      /\ UNCHANGED <<sinks, pendingRegisters, notifying, request, alive>>
  BY <1>0 DEF Leave, In, ToRemove
<1>2. TypeOK /\ stack \in [Threads -> Seq(Frame)]
  BY DEF IInv, TypeOK
<1>3. /\ Top(t) \in Frame /\ src \in Sources /\ Top(t).sink = NoSink
      /\ n \in FramesOf(t, src) /\ Top(t) = stack[t][n]
      /\ notifying[src] = 0 <=> LoopsOf(t, src) = {}
  BY <1>0, <1>1, <1>2, InnermostCall, TopFacts
<1>4. /\ notifying[src] = 0 /\ LoopsOf(t, src) = {}
      /\ \A i \in 1..(Top(t).next - 1) \cap DOMAIN pendingUnregisters[src] :
             pendingUnregisters[src][i] \notin ToSet(sinks[src])
  BY <1>0, <1>1, <1>3 DEF IInv, StageShape, Progress, In
<1>5. /\ stack' \in [Threads -> Seq(Frame)]
      /\ \A u \in Threads \ {t} : stack'[u] = stack[u]
  BY <1>1, <1>2, PopFrame
<1>6. LoopsOf(t, src)' = {}
  BY <1>0, <1>1, <1>2, <1>3, <1>4, PopFrames
<1>7. request[t] = NoCall
  BY <1>1, <1>3, NoRequest, EventSourceAssumption
<1>8. TypeOK'
  BY <1>1, <1>2, <1>5, EmptySeq DEF TypeOK
<1>9. ListsConsistent'
  <2>1. IsInjective(<<>>) /\ ToSet(<<>>) = {}
    BY DEF IsInjective, ToSet
  <2>2. \A any \in Sources :
            pendingUnregisters'[any] = pendingUnregisters[any]
                \/ pendingUnregisters'[any] = <<>>
    BY <1>1, <1>2 DEF TypeOK
  <2>3. ASSUME NEW any \in Sources
        PROVE  /\ IsInjective(pendingUnregisters'[any])
               /\ ToSet(pendingRegisters[any]) \cap ToSet(pendingUnregisters'[any]) = {}
    BY <2>1, <2>2 DEF IInv, ListsConsistent
  <2> QED
    BY <1>1, <2>3 DEF IInv, ListsConsistent
<1>10. LoopsAgree' /\ OneInside'
  <2>1. Cardinality(LoopsOf(t, src)') = 0
    BY <1>6, FS_EmptySet
  <2>2. \A any \in Sources \ {src} :
            /\ notifying'[any] = notifying[any]
            /\ pendingUnregisters'[any] = pendingUnregisters[any]
    BY <1>1, <1>2 DEF TypeOK
  <2>3. notifying'[src] = 0 /\ pendingUnregisters'[src] = <<>>
    BY <1>1, <1>2, <1>3, <1>4 DEF TypeOK
  <2>4. stack[t] # <<>> /\ src \in Sources /\ src = Top(t).source /\ sinks' = sinks
        /\ Pop(t)
    BY <1>0, <1>1, <1>3
  <2> QED
    BY <1>6, <2>1, <2>2, <2>3, <2>4, InsideStep
<1>11. StackShape'
  BY <1>1, SameShapes
<1>12. RequestShape'
  BY <1>1, <1>5, <1>7, SameRequests
<1>13. Progress(t)' /\ \A m \in Mortal : ~Calls(t, m)'
  BY <1>1, BackInCallback
<1>14. StageShape'
  <2>1. \A any \in Sources \ {Top(t).source} :
            /\ sinks'[any] = sinks[any]
            /\ pendingRegisters'[any] = pendingRegisters[any]
            /\ pendingUnregisters'[any] = pendingUnregisters[any]
            /\ notifying'[any] = notifying[any]
    BY <1>0, <1>1, <1>2 DEF TypeOK
  <2> QED
    BY <1>1, <1>5, <1>13, <2>1, SameProgress
<1>15. MortalShape' /\ Registered' = Registered
  <2>1. ToSet(pendingUnregisters[src]) \cap ToSet(sinks[src]) = {}
    <3>1. Len(pendingUnregisters[src]) \in Nat
          /\ DOMAIN pendingUnregisters[src] = 1..Len(pendingUnregisters[src])
      BY <1>2, <1>3, LenProperties DEF TypeOK
    <3>2. Top(t).next \in Nat
      BY <1>3 DEF Frame
    <3>3. \A i \in DOMAIN pendingUnregisters[src] : i \in 1..(Top(t).next - 1)
      BY <1>1, <3>1, <3>2
    <3> QED
      BY <1>4, <3>3 DEF ToSet
  <2>2. ToSet(pendingRegisters[src]) \cap ToSet(pendingUnregisters[src]) = {}
    BY <1>3 DEF IInv, ListsConsistent
  <2>3. pendingUnregisters'[src] = <<>> /\ ToSet(<<>>) = {}
    BY <1>1, <1>2, <1>3 DEF TypeOK, ToSet
  <2>4. Registered'[src] = Registered[src]
    BY <1>1, <1>3, <2>1, <2>2, <2>3 DEF Registered
  <2>5. \A any \in Sources : Registered'[any] = Registered[any]
    BY <1>1, <1>2, <2>4 DEF Registered, TypeOK
  <2>6. \A u, m : Constructing(u, m)' => Constructing(u, m)
    BY <1>1 DEF Constructing
  <2>7. Registered' = Registered
    BY <2>5 DEF Registered
  <2> QED
    BY <1>1, <1>5, <1>13, <2>5, <2>6, <2>7, SameMortals
<1> QED
  BY <1>8, <1>9, <1>10, <1>11, <1>12, <1>14, <1>15 DEF IInv

LEMMA EndLoopStep ==
  ASSUME IInv, NEW t \in Threads, stack[t] # <<>>, Top(t).stage = "looping",
         request[t] = NoCall, EndLoop(t)
  PROVE  IInv'
<1>0. SUFFICES ASSUME NEW src, NEW n, NEW f,
                      src = Top(t).source, n = Len(stack[t]),
                      f = [Top(t) EXCEPT !.stage = "removing", !.next = 1,
                                         !.sink = NoSink]
               PROVE  IInv'
  OBVIOUS
<1>1. /\ notifying' = [notifying EXCEPT ![src] =
             IF @ = 0 THEN NotifyModulus - 1 ELSE @ - 1]
      /\ \/ notifying[src] = 1 /\ SetTop(t, f)
         \/ notifying[src] # 1 /\ Pop(t)
      /\ UNCHANGED <<sinks, pendingRegisters, pendingUnregisters, request, alive>>
  BY <1>0 DEF EndLoop
<1>2. TypeOK /\ stack \in [Threads -> Seq(Frame)]
  BY DEF IInv, TypeOK
<1>3. /\ Top(t) \in Frame /\ src \in Sources
      /\ n \in FramesOf(t, src) /\ n \in LoopsOf(t, src)
      /\ Top(t) = stack[t][n]
      /\ notifying[src] = Cardinality(LoopsOf(t, src)) /\ notifying[src] # 0
  BY <1>0, <1>2, InnermostCall, TopFacts DEF LoopsOf
<1>4. /\ f \in Frame /\ f.source = src /\ f.stage = "removing" /\ f.next = 1
      /\ f.sink = NoSink
  BY <1>0, <1>3 DEF Frame, Stages
<1>5. /\ stack' \in [Threads -> Seq(Frame)]
      /\ \A u \in Threads \ {t} : stack'[u] = stack[u]
      /\ \A i \in DOMAIN stack[t] \ {n} : stack'[t][i] = stack[t][i]
  <2>1. CASE SetTop(t, f)
    BY <1>0, <1>2, <1>4, <2>1, ReplaceTop
  <2>2. CASE Pop(t)
    BY <1>0, <1>2, <2>2, PopFrame, TopFacts
  <2> QED
    BY <1>1, <2>1, <2>2
<1>6. LoopsOf(t, src)' = LoopsOf(t, src) \ {n}
  <2>1. CASE SetTop(t, f)
    <3>1. f.source = Top(t).source
      BY <1>0, <1>4
    <3>2. LoopsOf(t, src)' =
              IF t # t \/ src # f.source THEN LoopsOf(t, src)
              ELSE IF f.stage = "looping" THEN LoopsOf(t, src) \cup {Len(stack[t])}
              ELSE LoopsOf(t, src) \ {Len(stack[t])}
      BY <1>2, <1>3, <1>4, <2>1, <3>1, ReplaceTopFrames
    <3> QED
      BY <1>0, <1>4, <3>2
  <2>2. CASE Pop(t)
    BY <1>0, <1>2, <1>3, <2>2, PopFrames
  <2> QED
    BY <1>1, <2>1, <2>2
<1>7. /\ Cardinality(LoopsOf(t, src)') = notifying[src] - 1
      /\ notifying[src] \in 0..(NotifyModulus - 1)
      /\ LoopsOf(t, src)' = {} <=> notifying[src] - 1 = 0
  <2>1. IsFiniteSet(LoopsOf(t, src)) /\ Cardinality(LoopsOf(t, src)) \in Nat
    BY <1>2, FramesFinite
  <2>2. Cardinality(LoopsOf(t, src) \ {n}) = Cardinality(LoopsOf(t, src)) - 1
    BY <1>3, <2>1, FS_RemoveElement
  <2>3. /\ IsFiniteSet(LoopsOf(t, src)')
        /\ Cardinality(LoopsOf(t, src)') = 0 <=> LoopsOf(t, src)' = {}
    BY <1>6, <2>1, FS_RemoveElement, FS_EmptySet
  <2>4. notifying[src] \in 0..(NotifyModulus - 1)
    BY <1>2, <1>3 DEF TypeOK
  <2> QED
    BY <1>3, <1>6, <2>2, <2>3, <2>4
<1>8. notifying'[src] = notifying[src] - 1
  BY <1>1, <1>2, <1>3 DEF TypeOK
<1>9. TypeOK'
  <2>1. notifying' = [any \in Sources |-> notifying'[any]]
    BY <1>1, <1>2 DEF TypeOK
  <2>2. notifying[src] - 1 \in 0..(NotifyModulus - 1)
    BY <1>3, <1>7, EventSourceAssumption
  <2>3. \A any \in Sources \ {src} : notifying'[any] = notifying[any]
    BY <1>1, <1>2 DEF TypeOK
  <2>4. \A any \in Sources : notifying'[any] \in 0..(NotifyModulus - 1)
    BY <1>2, <1>8, <2>2, <2>3 DEF TypeOK
  <2>5. notifying' \in [Sources -> 0..(NotifyModulus - 1)]
    BY <2>1, <2>4
  <2> QED
    BY <1>1, <1>2, <1>5, <2>5 DEF TypeOK
<1>10. ListsConsistent'
  BY <1>1 DEF IInv, ListsConsistent
<1>11. LoopsAgree' /\ OneInside'
  <2>1. \A i \in LoopsOf(t, src)' : stack'[t][i].end = Len(sinks[src])
    <3>1. \A i \in LoopsOf(t, src) : stack[t][i].end = Len(sinks[src])
      BY <1>3 DEF IInv, LoopsAgree
    <3>2. \A i \in LoopsOf(t, src) \ {n} : i \in DOMAIN stack[t] \ {n}
      BY DEF LoopsOf, FramesOf
    <3> QED
      BY <1>5, <1>6, <3>1, <3>2
  <2>2. \A any \in Sources \ {src} :
            /\ notifying'[any] = notifying[any]
            /\ pendingUnregisters'[any] = pendingUnregisters[any]
    BY <1>1, <1>2 DEF TypeOK
  <2>3. notifying'[src] = Cardinality(LoopsOf(t, src)')
    BY <1>7, <1>8
  <2>4. Pop(t) \/ \E g \in Frame : SetTop(t, g) /\ g.source = Top(t).source
    BY <1>0, <1>1, <1>4
  <2>5. FramesOf(t, src)' # {}
    <3>1. CASE SetTop(t, f)
      <4>1. f.source = Top(t).source
        BY <1>0, <1>4
      <4>2. FramesOf(t, src)' = FramesOf(t, src)
        BY <1>2, <1>3, <1>4, <3>1, <4>1, ReplaceTopFrames
      <4> QED
        BY <1>3, <4>2
    <3>2. CASE notifying[src] # 1 /\ Pop(t)
      <4>1. LoopsOf(t, src)' # {}
        BY <1>7, <3>2
      <4> QED
        BY <4>1 DEF LoopsOf
    <3> QED
      BY <1>1, <3>1, <3>2
  <2>6. src \in Sources /\ src = Top(t).source /\ sinks' = sinks
    BY <1>0, <1>1, <1>3
  <2> QED
    BY <2>1, <2>2, <2>3, <2>4, <2>5, <2>6, InsideStep
<1>12. StackShape'
  <2>1. /\ f.sink # NoSink => f.stage = "looping"
        /\ f.next >= 1
        /\ f.stage = "looping" => f.next <= f.end + 1
    BY <1>4
  <2> QED
    BY <1>1, <1>4, <2>1, SameShapes
<1>13. RequestShape'
  BY <1>1, <1>5, SameRequests
<1>14. Progress(t)' /\ \A m \in Mortal : ~Calls(t, m)'
  <2>1. CASE notifying[src] = 1 /\ SetTop(t, f)
    <3>1. Top(t)' = f
      BY <1>2, <1>4, <2>1, ReplaceTop
    <3>2. notifying'[src] = 0 /\ 1..(f.next - 1) = {}
      BY <1>4, <1>8, <2>1
    <3> QED
      BY <1>4, <3>1, <3>2 DEF Progress, In, Calls, InCallback
  <2>2. CASE Pop(t)
    BY <2>2, BackInCallback
  <2> QED
    BY <1>1, <2>1, <2>2
<1>15. StageShape'
  <2>1. \A any \in Sources \ {Top(t).source} :
            /\ sinks'[any] = sinks[any]
            /\ pendingRegisters'[any] = pendingRegisters[any]
            /\ pendingUnregisters'[any] = pendingUnregisters[any]
            /\ notifying'[any] = notifying[any]
    BY <1>0, <1>1, <1>2 DEF TypeOK
  <2> QED
    BY <1>5, <1>14, <2>1, SameProgress
<1>16. MortalShape'
  <2>1. Registered' = Registered
    BY <1>1 DEF Registered
  <2>2. \A u, m : Constructing(u, m)' => Constructing(u, m)
    BY <1>1 DEF Constructing
  <2> QED
    BY <1>1, <1>5, <1>14, <2>1, <2>2, SameMortals
<1> QED
  BY <1>9, <1>10, <1>11, <1>12, <1>13, <1>15, <1>16 DEF IInv

LEMMA FinishStep ==
  ASSUME IInv, NEW t \in Threads, Finish(t)
  PROVE  IInv'
<1>1. stack[t] # <<>> /\ Top(t).stage = "looping" /\ Top(t).sink = NoSink /\ EndLoop(t)
  BY DEF Finish, Looping, In
<1>2. request[t] = NoCall
  BY <1>1, NoRequest, EventSourceAssumption
<1> QED
  BY <1>1, <1>2, EndLoopStep

LEMMA StopStep ==
  ASSUME IInv, NEW t \in Threads, Stop(t)
  PROVE  IInv'
<1>1. stack[t] # <<>> /\ Top(t).sink # NoSink /\ request[t] = NoCall /\ EndLoop(t)
  BY DEF Stop, InCallback
<1>2. Top(t).stage = "looping"
  BY <1>1, InnermostCall
<1> QED
  BY <1>1, <1>2, EndLoopStep

-----------------------------------------------------------------------------
LEMMA InitIInv == Init => IInv
<1> SUFFICES ASSUME Init PROVE IInv
  OBVIOUS
<1>1. IsInjective(<<>>) /\ ToSet(<<>>) = {}
  BY DEF IsInjective, ToSet
<1>2. TypeOK
  BY EmptySeq, EventSourceAssumption DEF Init, TypeOK
<1>3. \A t \in Threads : \A src \in Sources : FramesOf(t, src) = {} /\ LoopsOf(t, src) = {}
  BY DEF Init, FramesOf, LoopsOf
<1>4. ListsConsistent
  BY <1>1 DEF Init, ListsConsistent
<1>5. LoopsAgree
  BY <1>3 DEF Init, LoopsAgree
<1>6. StackShape /\ RequestShape
  BY DEF Init, StackShape, RequestShape, CallShape
<1>7. OneInside
  <2>1. MaxNesting \in Nat
    BY EventSourceAssumption
  <2>2. Cardinality({}) = 0
    BY FS_EmptySet
  <2> QED
    BY <1>3, <2>1, <2>2 DEF OneInside
<1>8. StageShape
  BY DEF Init, StageShape, Progress, In
<1>9. MortalShape
  <2>1. \A src \in Sources : Registered[src] = {}
    BY <1>1 DEF Init, Registered
  <2>2. \A t \in Threads : \A s \in Mortal : ~Constructing(t, s) /\ ~Calls(t, s)
    BY DEF Init, Constructing, Calls, InCallback
  <2> QED
    BY <2>1, <2>2 DEF MortalShape
<1> QED
  BY <1>2, <1>4, <1>5, <1>6, <1>7, <1>8, <1>9 DEF IInv

LEMMA StutterIInv == IInv /\ UNCHANGED vars => IInv'
<1> SUFFICES ASSUME IInv, UNCHANGED vars PROVE IInv'
  OBVIOUS
<1>1. UNCHANGED <<lists, stack>> /\ UNCHANGED <<request, alive>>
  BY DEF vars
<1>2. /\ ListsConsistent' /\ LoopsAgree' /\ StackShape' /\ OneInside' /\ StageShape'
      /\ Registered' = Registered
      /\ \A u \in Threads : \A src \in Sources : FramesOf(u, src)' = FramesOf(u, src)
      /\ \A u \in Threads : Top(u)' = Top(u)
  BY <1>1, SameListsAndStack
<1>3. TypeOK'
  BY <1>1 DEF IInv, TypeOK, lists
<1>4. RequestShape'
  BY <1>1, <1>2 DEF IInv, TypeOK, RequestShape, CallShape, Call
<1>5. MortalShape'
  BY <1>1, <1>2 DEF IInv, MortalShape, Constructing, Calls, InCallback
<1> QED
  BY <1>2, <1>3, <1>4, <1>5 DEF IInv

\* IInv is inductive: one lemma for each action.
LEMMA NextIInv == IInv /\ [Next]_vars => IInv'
<1> SUFFICES ASSUME IInv, [Next]_vars PROVE IInv'
  OBVIOUS
<1>1. CASE UNCHANGED vars
  BY <1>1, StutterIInv
<1>2. ASSUME NEW t \in Threads, NEW call \in Call, Request(t, call)
      PROVE  IInv'
  BY <1>2, RequestStep
<1>3. ASSUME NEW t \in Threads, Run(t)
      PROVE  IInv'
  BY <1>3, NotifyStep, AddPendingStep, BeginLoopStep, VisitStep, DieStep, FinishStep,
     RemovePendingStep, LeaveStep, RegisterStep, UnregisterStep, IgnoreNullStep,
     ConstructStep DEF Run
<1>4. ASSUME NEW t \in Threads, Return(t)
      PROVE  IInv'
  BY <1>4, ContinueStep, StopStep DEF Return
<1> QED
  BY <1>1, <1>2, <1>3, <1>4 DEF Next

LEMMA SpecIInv == Spec => []IInv
<1>1. Init => IInv
  BY InitIInv
<1>2. IInv /\ [Next]_vars => IInv'
  BY NextIInv
<1> QED
  BY <1>1, <1>2, PTL DEF Spec

\* Every variable keeps its type; the 8-bit _notifying never wraps, and no
\* null pointer gets into a list.
THEOREM EventTypeCorrect == Spec => []TypeOK
<1>1. IInv => TypeOK
  BY DEF IInv
<1> QED
  BY <1>1, SpecIInv, PTL

\* No list of any source ever holds a sink twice, and no sink waits both to
\* be registered and to be unregistered.
THEOREM ListsStayConsistent == Spec => []ListsConsistent
<1>1. IInv => ListsConsistent
  BY DEF IInv
<1> QED
  BY <1>1, SpecIInv, PTL

\* The iterators of every running loop, at whatever depth and in whichever
\* thread, stay valid, and _notifying counts the loops.
THEOREM LoopsStayValid == Spec => []LoopsAgree
<1>1. IInv => LoopsAgree
  BY DEF IInv
<1> QED
  BY <1>1, SpecIInv, PTL

\* A sink that unregisters and deletes itself inside ProcessEvent is not
\* called again, although it is still in _sinks until the notification ends.
THEOREM DeletedNotCalled == Spec => []NoCallAfterDelete
<1>1. IInv => NoCallAfterDelete
  <2> SUFFICES ASSUME IInv, NEW t \in Threads, InCallback(t), Top(t).sink \in Mortal
               PROVE  Top(t).sink \in alive
    BY DEF NoCallAfterDelete
  <2>1. Top(t).source \in Sources
    BY InnermostCall DEF InCallback
  <2>2. Calls(t, Top(t).sink)
    BY DEF Calls
  <2> QED
    BY <2>1, <2>2 DEF IInv, MortalShape
<1> QED
  BY <1>1, SpecIInv, PTL

\* No step changes _sinks of a source in the middle of a notification.
THEOREM SinksStayFrozen == Spec => FrozenWhileNotifying
<1> DEFINE Frozen ==
      \A src \in Sources :
          notifying[src] > 0 /\ notifying'[src] > 0 => sinks'[src] = sinks[src]
<1>1. IInv /\ [Next]_vars => [Frozen]_vars
  <2> SUFFICES ASSUME IInv, Next, NEW src \in Sources, notifying[src] > 0
               PROVE  sinks'[src] = sinks[src]
    OBVIOUS
  <2>1. TypeOK /\ notifying[src] # 0
    BY DEF IInv, TypeOK
  <2>2. ASSUME NEW s, NEW any, Add(any, s) \/ Drop(any, s)
        PROVE  sinks'[src] = sinks[src]
    <3>1. CASE any = src
      BY <2>1, <2>2, <3>1 DEF Add, Drop
    <3>2. CASE any # src
      BY <2>1, <2>2, <3>2 DEF Add, Drop, TypeOK
    <3> QED
      BY <3>1, <3>2
  <2>3. ASSUME NEW t \in Threads, AddPending(t)
        PROVE  sinks'[src] = sinks[src]
    <3>1. Top(t).source # src
      BY <2>1, <2>3 DEF AddPending, ToAdd
    <3> QED
      BY <2>1, <2>3, <3>1 DEF AddPending, TypeOK
  <2>4. ASSUME NEW t \in Threads, RemovePending(t)
        PROVE  sinks'[src] = sinks[src]
    <3>1. Top(t).source # src
      BY <2>1, <2>4 DEF RemovePending, In, IInv, StageShape, Progress
    <3> QED
      BY <2>1, <2>4, <3>1 DEF RemovePending, TypeOK
  <2>5. ASSUME NEW t \in Threads,
               \/ \E call \in Call : Request(t, call)
               \/ Notify(t) \/ BeginLoop(t) \/ Visit(t) \/ Continue(t)
               \/ Finish(t) \/ Stop(t) \/ Leave(t) \/ IgnoreNull(t)
        PROVE  sinks' = sinks
    BY <2>5 DEF Request, Notify, BeginLoop, Visit, Continue, Finish, Stop, EndLoop,
                Leave, IgnoreNull, lists
  <2>6. ASSUME NEW t \in Threads,
               Die(t) \/ RegisterSink(t) \/ UnregisterSink(t) \/ Construct(t)
        PROVE  sinks'[src] = sinks[src]
    BY <2>2, <2>6 DEF Die, RegisterSink, UnregisterSink, Construct
  <2> QED
    BY <2>3, <2>4, <2>5, <2>6 DEF Next, Run, Return
<1>2. [][Frozen]_vars => FrozenWhileNotifying
  BY PTL DEF FrozenWhileNotifying
<1> QED
  BY <1>1, <1>2, SpecIInv, PTL DEF Spec

-----------------------------------------------------------------------------
(***************************************************************************)
(* If the sinks of a source only ever call that source itself or sources   *)
(* below it, threads that wait inside callbacks for each other's locks     *)
(* never form a ring. The order is any ranking of the sources by numbers.  *)
(***************************************************************************)
\* Calls from a callback go down, or back into the source that notifies.
Downward(Rank) ==
    /\ Rank \in [Sources -> Nat]
    /\ \A call \in MayCall :
           call[1] # call[2] => Rank[call[2]] < Rank[call[1]]

\* The sources a thread is inside go down from its first call to its last.
StackDescends(Rank) ==
    \A t \in Threads : \A i, j \in DOMAIN stack[t] :
        i <= j => Rank[stack[t][j].source] <= Rank[stack[t][i].source]

\* The call a callback has decided on is one it may make.
RequestAllowed ==
    \A t \in Threads :
        request[t] # NoCall /\ stack[t] # <<>> =>
            <<Top(t).source, request[t].source>> \in MayCall

OrderInv(Rank) == IInv /\ StackDescends(Rank) /\ RequestAllowed

-----------------------------------------------------------------------------
\* A step of t that changes no stack, and no request but t's.
LEMMA StackKept ==
  ASSUME NEW Rank, OrderInv(Rank), NEW t \in Threads, stack' = stack,
         \A u \in Threads \ {t} : request'[u] = request[u],
         \/ request'[t] = request[t]
         \/ request'[t] = NoCall
         \/ stack[t] # <<>> => <<Top(t).source, request'[t].source>> \in MayCall
  PROVE  StackDescends(Rank)' /\ RequestAllowed'
<1>1. StackDescends(Rank)'
  BY DEF OrderInv, StackDescends
<1>2. \A u \in Threads : Top(u)' = Top(u)
  BY DEF Top
<1> QED
  BY <1>1, <1>2 DEF OrderInv, RequestAllowed

\* A step that replaces the innermost frame of t, or drops it.
LEMMA StackTrimmed ==
  ASSUME NEW Rank, OrderInv(Rank), NEW t \in Threads, stack[t] # <<>>,
         request[t] = NoCall, request' = request,
         \/ Pop(t)
         \/ \E f \in Frame : SetTop(t, f) /\ f.source = Top(t).source
  PROVE  StackDescends(Rank)' /\ RequestAllowed'
<1>1. stack \in [Threads -> Seq(Frame)]
  BY DEF OrderInv, IInv, TypeOK
<1>2. /\ \A u \in Threads \ {t} : stack'[u] = stack[u]
      /\ DOMAIN stack'[t] \subseteq DOMAIN stack[t]
      /\ \A i \in DOMAIN stack'[t] : stack'[t][i].source = stack[t][i].source
  <2>1. CASE Pop(t)
    <3>1. DOMAIN stack'[t] \subseteq DOMAIN stack[t]
      BY <1>1, <2>1, PopFrame, TopFacts
    <3> QED
      BY <1>1, <2>1, <3>1, PopFrame
  <2>2. ASSUME NEW f \in Frame, SetTop(t, f), f.source = Top(t).source
        PROVE  /\ \A u \in Threads \ {t} : stack'[u] = stack[u]
               /\ DOMAIN stack'[t] \subseteq DOMAIN stack[t]
               /\ \A i \in DOMAIN stack'[t] : stack'[t][i].source = stack[t][i].source
    <3>1. Top(t) = stack[t][Len(stack[t])]
      BY <1>1, TopFacts
    <3> QED
      BY <1>1, <2>2, <3>1, ReplaceTop
  <2> QED
    BY <2>1, <2>2
<1>3. StackDescends(Rank)'
  BY <1>2 DEF OrderInv, StackDescends
<1>4. \A u \in Threads \ {t} : Top(u)' = Top(u)
  BY <1>2 DEF Top
<1>5. RequestAllowed'
  BY <1>2, <1>4 DEF OrderInv, RequestAllowed
<1> QED
  BY <1>3, <1>5

\* The call that enters Notify is below all those it is nested in.
LEMMA StackGrows ==
  ASSUME NEW Rank, Downward(Rank), OrderInv(Rank), NEW t \in Threads, Notify(t)
  PROVE  StackDescends(Rank)' /\ RequestAllowed'
<1> DEFINE src == request[t].source
           f   == [source |-> src, stage |-> "adding",
                   next |-> 1, end |-> 0, sink |-> NoSink]
           n   == Len(stack[t])
<1>1. /\ request[t] # NoCall
      /\ request' = [request EXCEPT ![t] = NoCall]
      /\ stack' = [stack EXCEPT ![t] = Append(@, f)]
  BY DEF Notify, Enter
<1>2. /\ stack \in [Threads -> Seq(Frame)] /\ src \in Sources
      /\ request \in [Threads -> Call \cup {NoCall}]
  BY <1>1 DEF OrderInv, IInv, TypeOK, Call
<1>3. f \in Frame /\ f.source = src
  BY <1>2 DEF Frame, Stages
<1> HIDE DEF f
<1>4. /\ \A u \in Threads \ {t} : stack'[u] = stack[u]
      /\ n \in Nat /\ DOMAIN stack[t] = 1..n /\ DOMAIN stack'[t] = 1..(n + 1)
      /\ \A i \in DOMAIN stack[t] : stack'[t][i] = stack[t][i]
      /\ stack'[t][n + 1] = f
  BY <1>1, <1>2, <1>3, PushFrame
<1>5. ASSUME NEW i \in DOMAIN stack[t]
      PROVE  Rank[src] <= Rank[stack[t][i].source]
  <2>1. stack[t] # <<>>
    BY <1>2, <1>4, <1>5, EmptySeq
  <2>2. /\ Top(t) = stack[t][n] /\ n \in DOMAIN stack[t]
        /\ Top(t).source \in Sources /\ stack[t][i].source \in Sources
    <3>1. /\ Top(t) = stack[t][n] /\ n \in DOMAIN stack[t] /\ Top(t) \in Frame
      BY <1>2, <2>1, TopFacts
    <3>2. stack[t][i] \in Frame
      BY <1>2, <1>4, ElementOfSeq
    <3> QED
      BY <3>1, <3>2 DEF Frame
  <2>3. Rank[Top(t).source] <= Rank[stack[t][i].source]
    BY <1>4, <1>5, <2>2 DEF OrderInv, StackDescends
  <2>4. <<Top(t).source, src>> \in MayCall
    BY <1>1, <2>1 DEF OrderInv, RequestAllowed
  <2>5. Top(t).source = src \/ Rank[src] < Rank[Top(t).source]
    BY <2>4 DEF Downward
  <2>6. /\ Rank[src] \in Nat /\ Rank[Top(t).source] \in Nat
        /\ Rank[stack[t][i].source] \in Nat
    BY <1>2, <2>2 DEF Downward
  <2> QED
    BY <2>3, <2>5, <2>6
<1>6. Rank[src] \in Nat
  BY <1>2 DEF Downward
<1>7. ASSUME NEW u \in Threads, NEW i \in DOMAIN stack'[u],
             NEW j \in DOMAIN stack'[u], i <= j
      PROVE  Rank[stack'[u][j].source] <= Rank[stack'[u][i].source]
  <2>1. CASE u # t
    BY <1>4, <1>7, <2>1 DEF OrderInv, StackDescends
  <2>2. CASE u = t /\ j = n + 1
    BY <1>3, <1>4, <1>5, <1>6, <1>7, <2>2
  <2>3. CASE u = t /\ j # n + 1
    <3>1. i \in DOMAIN stack[t] /\ j \in DOMAIN stack[t]
      BY <1>4, <1>7, <2>3
    <3> QED
      BY <1>4, <1>7, <2>3, <3>1 DEF OrderInv, StackDescends
  <2> QED
    BY <2>1, <2>2, <2>3
<1>8. StackDescends(Rank)'
  BY <1>7 DEF StackDescends
<1>9. RequestAllowed'
  <2>1. \A u \in Threads \ {t} : Top(u)' = Top(u)
    BY <1>4 DEF Top
  <2> QED
    BY <1>1, <1>2, <1>4, <2>1 DEF OrderInv, RequestAllowed
<1> QED
  BY <1>8, <1>9

-----------------------------------------------------------------------------
LEMMA OrderInit == \A Rank : Init => OrderInv(Rank)
BY InitIInv DEF Init, OrderInv, StackDescends, RequestAllowed

\* OrderInv is inductive: one step for each way to change a stack.
LEMMA OrderNext ==
  ASSUME NEW Rank, Downward(Rank), OrderInv(Rank), [Next]_vars
  PROVE  OrderInv(Rank)'
<1>1. IInv'
  BY NextIInv DEF OrderInv
<1>2. CASE UNCHANGED vars
  <2>1. stack' = stack /\ request' = request
    BY <1>2 DEF vars
  <2>2. \A u \in Threads : Top(u)' = Top(u)
    BY <2>1 DEF Top
  <2> QED
    BY <1>1, <2>1, <2>2 DEF OrderInv, StackDescends, RequestAllowed
<1>3. ASSUME NEW t \in Threads,
             \/ \E call \in Call : Request(t, call)
             \/ RegisterSink(t) \/ UnregisterSink(t) \/ IgnoreNull(t) \/ Construct(t)
      PROVE  StackDescends(Rank)' /\ RequestAllowed'
  <2>1. request \in [Threads -> Call \cup {NoCall}]
    BY DEF OrderInv, IInv, TypeOK
  <2>2. ASSUME NEW call \in Call, Request(t, call)
        PROVE  StackDescends(Rank)' /\ RequestAllowed'
    <3>1. /\ stack' = stack /\ request'[t] = call
          /\ \A u \in Threads \ {t} : request'[u] = request[u]
          /\ stack[t] # <<>> => <<Top(t).source, call.source>> \in MayCall
      BY <2>1, <2>2 DEF Request
    <3> QED
      BY <3>1, StackKept
  <2>3. CASE RegisterSink(t) \/ UnregisterSink(t) \/ IgnoreNull(t) \/ Construct(t)
    <3>1. stack' = stack /\ request' = [request EXCEPT ![t] = NoCall]
      BY <2>3 DEF RegisterSink, UnregisterSink, IgnoreNull, Construct, Enter
    <3>2. request'[t] = NoCall /\ \A u \in Threads \ {t} : request'[u] = request[u]
      BY <2>1, <3>1
    <3> QED
      BY <3>1, <3>2, StackKept
  <2> QED
    BY <1>3, <2>2, <2>3
<1>4. ASSUME NEW t \in Threads, Notify(t)
      PROVE  StackDescends(Rank)' /\ RequestAllowed'
  BY <1>4, StackGrows
<1>5. ASSUME NEW t \in Threads,
             \/ AddPending(t) \/ BeginLoop(t) \/ Visit(t) \/ Die(t) \/ Finish(t)
             \/ RemovePending(t) \/ Leave(t) \/ Return(t)
      PROVE  StackDescends(Rank)' /\ RequestAllowed'
  <2>1. stack[t] # <<>> /\ request' = request
    BY <1>5 DEF AddPending, BeginLoop, Visit, Die, Finish, RemovePending, Leave, Return,
                Continue, Stop, EndLoop, Looping, In, InCallback
  <2>2. request[t] = NoCall
    <3>1. CASE Return(t)
      BY <3>1 DEF Return, Continue, Stop
    <3>2. CASE ~Return(t)
      <4>1. Top(t).sink \notin Sinks \ Mortal
        <5>1. Top(t).sink # NoSink => Top(t).stage = "looping"
          BY <2>1, InnermostCall DEF OrderInv
        <5> QED
          BY <1>5, <3>2, <5>1, EventSourceAssumption
          DEF AddPending, BeginLoop, Visit, Die, Finish, RemovePending, Leave,
              Looping, In
      <4> QED
        BY <2>1, <4>1, NoRequest DEF OrderInv
    <3> QED
      BY <3>1, <3>2
  <2>3. Pop(t) \/ \E f \in Frame : SetTop(t, f) /\ f.source = Top(t).source
    <3>1. Top(t) \in Frame
      BY <2>1, InnermostCall DEF OrderInv
    <3>2. CASE AddPending(t) \/ RemovePending(t)
      <4>1. SetTop(t, [Top(t) EXCEPT !.next = @ + 1])
        BY <3>2 DEF AddPending, RemovePending
      <4>2. [Top(t) EXCEPT !.next = @ + 1] \in Frame
        BY <3>1 DEF Frame
      <4> QED
        BY <3>1, <4>1, <4>2 DEF Frame
    <3>3. CASE BeginLoop(t)
      <4> DEFINE f == [Top(t) EXCEPT !.stage = "looping", !.next = 1,
                                     !.end = Len(sinks[Top(t).source])]
      <4>1. SetTop(t, f)
        BY <3>3 DEF BeginLoop
      <4>2. Len(sinks[Top(t).source]) \in Nat
        BY <3>1, LenProperties DEF Frame, OrderInv, IInv, TypeOK
      <4>3. f \in Frame /\ f.source = Top(t).source
        BY <3>1, <4>2 DEF Frame, Stages
      <4> QED
        BY <4>1, <4>3
    <3>4. CASE Visit(t)
      <4> DEFINE s == sinks[Top(t).source][Top(t).next]
                 g == IF Contains(pendingUnregisters[Top(t).source], s)
                      THEN NoSink ELSE s
                 f == [Top(t) EXCEPT !.next = @ + 1, !.sink = g]
      <4>1. SetTop(t, f) /\ Top(t).next <= Top(t).end
        BY <3>4 DEF Visit
      <4>2. s \in Sinks
        <5>1. /\ Len(stack[t]) \in LoopsOf(t, Top(t).source)
              /\ Top(t) = stack[t][Len(stack[t])]
          BY <2>1, <3>4, InnermostCall, TopFacts
          DEF OrderInv, IInv, TypeOK, Visit, Looping, In, LoopsOf
        <5>2. Top(t).source \in Sources /\ Top(t).next \in Nat /\ Top(t).end \in Nat
          BY <3>1 DEF Frame
        <5>3. Top(t).end = Len(sinks[Top(t).source])
          BY <5>1, <5>2 DEF OrderInv, IInv, LoopsAgree
        <5>4. Top(t).next >= 1
          <6>1. FrameShape(t, Len(stack[t]))
            BY <2>1, InnermostCall DEF OrderInv
          <6>2. stack[t][Len(stack[t])].next >= 1
            BY <6>1 DEF FrameShape
          <6> QED
            BY <5>1, <6>2
        <5>5. sinks[Top(t).source] \in Seq(Sinks)
          BY <5>2 DEF OrderInv, IInv, TypeOK
        <5>6. Top(t).next \in 1..Len(sinks[Top(t).source])
          BY <4>1, <5>2, <5>3, <5>4
        <5> QED
          BY <5>5, <5>6, ElementOfSeq
      <4> HIDE DEF s
      <4>3. g \in Sinks \cup {NoSink}
        BY <4>2
      <4> HIDE DEF g
      <4>4. f \in Frame /\ f.source = Top(t).source
        <5>1. Top(t).next + 1 \in Nat
          BY <3>1 DEF Frame
        <5> QED
          BY <3>1, <4>3, <5>1 DEF Frame
      <4> QED
        BY <4>1, <4>4
    <3>5. CASE Die(t) \/ Continue(t)
      <4>1. SetTop(t, [Top(t) EXCEPT !.sink = NoSink])
        BY <3>5 DEF Die, Continue
      <4>2. /\ [Top(t) EXCEPT !.sink = NoSink] \in Frame
            /\ [Top(t) EXCEPT !.sink = NoSink].source = Top(t).source
        BY <3>1 DEF Frame
      <4> QED
        BY <4>1, <4>2
    <3>6. CASE Finish(t) \/ Stop(t)
      <4> DEFINE f == [Top(t) EXCEPT !.stage = "removing", !.next = 1, !.sink = NoSink]
      <4>1. Pop(t) \/ SetTop(t, f)
        BY <3>6 DEF Finish, Stop, EndLoop
      <4>2. f \in Frame /\ f.source = Top(t).source
        BY <3>1 DEF Frame, Stages
      <4> QED
        BY <4>1, <4>2
    <3>7. CASE Leave(t)
      BY <3>7 DEF Leave
    <3> QED
      <4>1. Return(t) <=> Continue(t) \/ Stop(t)
        BY DEF Return
      <4> QED
        BY <1>5, <3>2, <3>3, <3>4, <3>5, <3>6, <3>7, <4>1
  <2> QED
    BY <2>1, <2>2, <2>3, StackTrimmed
<1> QED
  BY <1>1, <1>2, <1>3, <1>4, <1>5 DEF OrderInv, Next, Run

\* In a ring of waiting threads somebody waits for the lowest source.  Its
\* owner is inside that source and waits for another one, which is lower.
LEMMA NoRing ==
  ASSUME NEW Rank, Downward(Rank), OrderInv(Rank)
  PROVE  NoCircularWait
<1> SUFFICES ASSUME NEW ring \in SUBSET Threads, ring # {},
                    \A t \in ring : Waiting(t),
                    \A t \in ring : \A u \in Threads \ ring :
                        FramesOf(u, request[t].source) = {}
             PROVE  FALSE
  BY DEF NoCircularWait
<1>1. \A t \in ring : request[t].source \in Sources /\ Rank[request[t].source] \in Nat
  <2>1. ASSUME NEW t \in ring PROVE request[t] \in Call
    BY <2>1 DEF Waiting, OrderInv, IInv, TypeOK
  <2>2. \A call \in Call : call.source \in Sources
    BY DEF Call
  <2> QED
    BY <2>1, <2>2 DEF Downward
<1> DEFINE ranks == {Rank[request[t].source] : t \in ring}
<1>2. PICK t \in ring :
          \A u \in ring : Rank[request[t].source] <= Rank[request[u].source]
  <2>1. ranks \in SUBSET Nat /\ ranks # {}
    BY <1>1
  <2>2. PICK x \in ranks : \A y \in ranks : x <= y
    BY <2>1, LeastNumber
  <2> QED
    BY <2>2
<1>3. PICK u \in Threads \ {t} : FramesOf(u, request[t].source) # {}
  BY DEF Waiting, LockFree
<1>4. u \in ring
  BY <1>3
<1>5. PICK i \in DOMAIN stack[u] : stack[u][i].source = request[t].source
  BY <1>3 DEF FramesOf
<1>6. /\ stack[u] \in Seq(Frame) /\ stack[u] # <<>>
      /\ Len(stack[u]) \in DOMAIN stack[u] /\ i \in 1..Len(stack[u])
      /\ Len(stack[u]) \in FramesOf(u, Top(u).source)
      /\ Top(u) = stack[u][Len(stack[u])] /\ Top(u).source \in Sources
  <2>1. stack \in [Threads -> Seq(Frame)]
    BY DEF OrderInv, IInv, TypeOK
  <2>2. stack[u] # <<>>
    BY <1>5, <2>1, EmptySeq, LenProperties
  <2>3. /\ Len(stack[u]) \in Nat \ {0} /\ DOMAIN stack[u] = 1..Len(stack[u])
        /\ Len(stack[u]) \in FramesOf(u, Top(u).source)
        /\ Top(u) = stack[u][Len(stack[u])] /\ Top(u) \in Frame
    BY <2>1, <2>2, TopFacts
  <2>4. stack[u] \in Seq(Frame)
    BY <2>1
  <2>5. Len(stack[u]) \in DOMAIN stack[u] /\ i \in 1..Len(stack[u])
    BY <2>3
  <2>6. Top(u).source \in Sources
    BY <2>3 DEF Frame
  <2> QED
    BY <2>2, <2>3, <2>4, <2>5, <2>6
<1>7. Rank[Top(u).source] <= Rank[request[t].source]
  <2>1. i <= Len(stack[u])
    BY <1>6
  <2> QED
    BY <1>5, <1>6, <2>1 DEF OrderInv, StackDescends
<1>8. request[u].source # Top(u).source
  <2>1. \A v \in Threads \ {u} : FramesOf(v, Top(u).source) = {}
    BY <1>6 DEF OrderInv, IInv, OneInside
  <2> QED
    BY <1>4, <2>1 DEF Waiting, LockFree
<1>9. Rank[request[u].source] < Rank[Top(u).source]
  <2>1. <<Top(u).source, request[u].source>> \in MayCall
    BY <1>4, <1>6 DEF OrderInv, RequestAllowed, Waiting
  <2> QED
    BY <1>8, <2>1 DEF Downward
<1>10. Rank[request[t].source] <= Rank[request[u].source]
  BY <1>2, <1>4
<1>11. /\ Rank[request[t].source] \in Nat /\ Rank[request[u].source] \in Nat
       /\ Rank[Top(u).source] \in Nat
  BY <1>1, <1>4, <1>6 DEF Downward
<1> QED
  BY <1>7, <1>9, <1>10, <1>11

\* Threads whose callbacks call down an order of the sources never wait for
\* each other in a ring: Notify may hold its lock while it calls back.
THEOREM OrderPreventsDeadlock ==
  ASSUME NEW Rank, Downward(Rank)
  PROVE  Spec => []NoCircularWait
<1>1. Init => OrderInv(Rank)
  BY OrderInit
<1>2. OrderInv(Rank) /\ [Next]_vars => OrderInv(Rank)'
  BY OrderNext
<1>3. OrderInv(Rank) => NoCircularWait
  BY NoRing
<1> QED
  BY <1>1, <1>2, <1>3, PTL DEF Spec
-----------------------------------------------------------------------------
(***************************************************************************)
(* A source with its pending lists, nested notifications and interleaved   *)
(* threads implements SinkRegistry, in which every call takes effect at    *)
(* once: each step of EventSource is a step of the registry or leaves it   *)
(* alone.                                                                  *)
(***************************************************************************)
\* One more invariant than IInv has: an outermost call finds no
\* unregistration pending when it takes the registrations in.
Clean(t) ==
    In(t, "adding") /\ notifying[Top(t).source] = 0
        => pendingUnregisters[Top(t).source] = <<>>

AddingClean == \A t \in Threads : Clean(t)

-----------------------------------------------------------------------------
\* Counting the members of a finite set of numbers from below.
UpTo(places, i) == {j \in places : j <= i}

LEMMA UpToGrows ==
  ASSUME NEW places, \A j \in places : j \in Nat, IsFiniteSet(places),
         NEW i \in places, NEW j \in places, i < j
  PROVE  Cardinality(UpTo(places, i)) < Cardinality(UpTo(places, j))
<1>1. /\ UpTo(places, i) \subseteq UpTo(places, j)
      /\ j \in UpTo(places, j) /\ j \notin UpTo(places, i)
  BY DEF UpTo
<1>2. IsFiniteSet(UpTo(places, j)) /\ UpTo(places, j) \in SUBSET places
  BY FS_Subset DEF UpTo
<1>3. /\ IsFiniteSet(UpTo(places, i))
      /\ Cardinality(UpTo(places, i)) <= Cardinality(UpTo(places, j))
      /\ Cardinality(UpTo(places, i)) # Cardinality(UpTo(places, j))
  BY <1>1, <1>2, FS_Subset
<1>4. Cardinality(UpTo(places, i)) \in Nat /\ Cardinality(UpTo(places, j)) \in Nat
  BY <1>2, <1>3, FS_CardinalityType
<1> QED
  BY <1>3, <1>4

\* Every k up to the size of the set has its k-th member, ...
LEMMA NthExists ==
  ASSUME NEW places, \A j \in places : j \in Nat, IsFiniteSet(places),
         NEW k \in 1..Cardinality(places), NEW top \in Nat,
         \A i \in places : i <= top
  PROVE  \E i \in places : Cardinality(UpTo(places, i)) = k
<1> DEFINE enough == {i \in Nat : k <= Cardinality(UpTo(places, i))}
<1>1. \A i \in Nat : /\ IsFiniteSet(UpTo(places, i))
                     /\ Cardinality(UpTo(places, i)) \in Nat
  BY FS_Subset, FS_CardinalityType DEF UpTo
<1>2. top \in enough
  <2>1. UpTo(places, top) = places
    BY DEF UpTo
  <2>2. Cardinality(places) \in Nat
    BY FS_CardinalityType
  <2> QED
    BY <2>1, <2>2
<1>3. PICK i \in enough : \A j \in enough : i <= j
  BY <1>2, LeastNumber
<1>4. Cardinality(UpTo(places, i) \ {i}) < k
  <2>1. CASE i = 0
    <3>1. UpTo(places, i) \ {i} = {}
      BY <2>1 DEF UpTo
    <3> QED
      BY <3>1, FS_EmptySet
  <2>2. CASE i # 0
    <3>1. i - 1 \in Nat /\ i - 1 \notin enough
      BY <1>3, <2>2
    <3>2. UpTo(places, i) \ {i} = UpTo(places, i - 1)
      <4>1. \A j \in places : (j <= i /\ j # i) <=> j <= i - 1
        OBVIOUS
      <4> QED
        BY <4>1 DEF UpTo
    <3>3. Cardinality(UpTo(places, i - 1)) \in Nat
      BY <1>1, <3>1
    <3>4. ~(k <= Cardinality(UpTo(places, i - 1)))
      BY <3>1
    <3> QED
      BY <3>2, <3>3, <3>4
  <2> QED
    BY <2>1, <2>2
<1>5. /\ Cardinality(UpTo(places, i)) \in Nat /\ k <= Cardinality(UpTo(places, i))
      /\ Cardinality(UpTo(places, i) \ {i}) =
             IF i \in UpTo(places, i) THEN Cardinality(UpTo(places, i)) - 1
                                      ELSE Cardinality(UpTo(places, i))
  BY <1>1, FS_RemoveElement
<1>6. i \in UpTo(places, i) /\ Cardinality(UpTo(places, i)) = k
  BY <1>4, <1>5
<1> QED
  BY <1>6 DEF UpTo

\* ... and only one.
Nth(places, k) ==
    CHOOSE i \in places : Cardinality({j \in places : j <= i}) = k

LEMMA NthFacts ==
  ASSUME NEW places, \A j \in places : j \in Nat, IsFiniteSet(places),
         NEW k \in 1..Cardinality(places), NEW top \in Nat,
         \A i \in places : i <= top
  PROVE  /\ Nth(places, k) \in places
         /\ Cardinality(UpTo(places, Nth(places, k))) = k
         /\ \A i \in places : Cardinality(UpTo(places, i)) = k => i = Nth(places, k)
<1>1. \E i \in places : Cardinality({j \in places : j <= i}) = k
  BY NthExists DEF UpTo
<1>2. /\ Nth(places, k) \in places
      /\ Cardinality(UpTo(places, Nth(places, k))) = k
  BY <1>1, Zenon DEF Nth, UpTo
<1>3. ASSUME NEW i \in places, Cardinality(UpTo(places, i)) = k
      PROVE  i = Nth(places, k)
  <2>1. i \in Nat /\ Nth(places, k) \in Nat
    BY <1>2
  <2>2. Cardinality(UpTo(places, i)) \in Nat
    BY <1>3
  <2>3. ~(i < Nth(places, k)) /\ ~(Nth(places, k) < i)
    BY <1>2, <1>3, <2>2, UpToGrows
  <2> QED
    BY <2>1, <2>3
<1> QED
  BY <1>2, <1>3

\* A new greatest member goes to the end.
LEMMA NthAdd ==
  ASSUME NEW places, \A j \in places : j \in Nat, IsFiniteSet(places), NEW n \in Nat,
         \A i \in places : i < n,
         NEW more, more = places \cup {n}, NEW c, c = Cardinality(places)
  PROVE  /\ Cardinality(more) = c + 1 /\ c \in Nat
         /\ Nth(more, c + 1) = n
         /\ \A k \in 1..c : Nth(more, k) = Nth(places, k) /\ Nth(places, k) \in places
<1>1. n \notin places /\ IsFiniteSet(more) /\ Cardinality(more) = c + 1 /\ c \in Nat
  BY FS_AddElement, FS_CardinalityType
<1>2. \A i \in more : i \in Nat /\ i <= n
  OBVIOUS
<1>3. \A i \in places : i <= n
  OBVIOUS
<1>4. Nth(more, c + 1) = n
  <2>1. UpTo(more, n) = more
    BY <1>2 DEF UpTo
  <2>2. n \in more /\ c + 1 \in 1..Cardinality(more)
    BY <1>1
  <2>3. Cardinality(UpTo(more, n)) = c + 1
    BY <1>1, <2>1
  <2>4. (\A i \in more : i \in Nat) /\ (\A i \in more : i <= n)
    BY <1>2
  <2> QED
    BY <1>1, <2>2, <2>3, <2>4, NthFacts
<1>5. ASSUME NEW k \in 1..c
      PROVE  Nth(more, k) = Nth(places, k) /\ Nth(places, k) \in places
  <2>1. Nth(places, k) \in places /\ Cardinality(UpTo(places, Nth(places, k))) = k
    BY <1>3, NthFacts
  <2>2. UpTo(more, Nth(places, k)) = UpTo(places, Nth(places, k))
    <3>1. Nth(places, k) \in Nat /\ Nth(places, k) < n
      BY <2>1
    <3> QED
      BY <3>1 DEF UpTo
  <2>3. k \in 1..Cardinality(more) /\ Nth(places, k) \in more
    BY <1>1, <2>1
  <2>4. Cardinality(UpTo(more, Nth(places, k))) = k
    BY <2>1, <2>2
  <2>5. Nth(places, k) = Nth(more, k)
    BY <1>1, <1>2, <2>3, <2>4, NthFacts
  <2> QED
    BY <2>1, <2>5
<1> QED
  BY <1>1, <1>4, <1>5

\* The values of a function on a set of numbers, as a sequence.
InOrder(f) == [k \in 1..Cardinality(DOMAIN f) |-> f[Nth(DOMAIN f, k)]]

LEMMA InOrderType ==
  ASSUME NEW places, \A j \in places : j \in Nat, IsFiniteSet(places),
         NEW n \in Nat, \A i \in places : i < n,
         NEW X, NEW f \in [places -> X]
  PROVE  /\ InOrder(f) \in Seq(X) /\ Len(InOrder(f)) = Cardinality(places)
         /\ InOrder(f) = <<>> <=> places = {}
<1>1. Cardinality(places) \in Nat /\ DOMAIN f = places
  BY FS_CardinalityType
<1>2. \A i \in places : i <= n
  OBVIOUS
<1>3. \A k \in 1..Cardinality(places) : Nth(places, k) \in places
  BY <1>2, NthFacts
<1>4. \A k \in 1..Cardinality(places) : f[Nth(places, k)] \in X
  BY <1>3
<1>5. InOrder(f) = [k \in 1..Cardinality(places) |-> f[Nth(places, k)]]
  BY <1>1 DEF InOrder
<1>6. InOrder(f) \in Seq(X) /\ Len(InOrder(f)) = Cardinality(places)
  BY <1>1, <1>4, <1>5
<1>7. Cardinality(places) = 0 <=> places = {}
  BY FS_EmptySet
<1>8. InOrder(f) = <<>> <=> Len(InOrder(f)) = 0
  BY <1>6, EmptySeq
<1> QED
  BY <1>6, <1>7, <1>8

LEMMA LongerByOne ==
  ASSUME NEW X, NEW c \in Nat, NEW s \in Seq(X), Len(s) = c, NEW x \in X,
         NEW r, NEW e, r = [k \in 1..(c + 1) |-> e[k]],
         \A k \in 1..(c + 1) : e[k] = IF k = c + 1 THEN x ELSE s[k]
  PROVE  r = Append(s, x)
<1>1. /\ Append(s, x) \in Seq(X)
      /\ Len(Append(s, x)) = c + 1
      /\ \A k \in 1..c : Append(s, x)[k] = s[k]
      /\ Append(s, x)[c + 1] = x
  BY AppendProperties
<1>2. Append(s, x) = [k \in 1..(c + 1) |-> Append(s, x)[k]]
  BY <1>1, LenProperties
<1>3. \A k \in 1..(c + 1) : k = c + 1 \/ k \in 1..c
  OBVIOUS
<1>4. \A k \in 1..(c + 1) : e[k] = Append(s, x)[k]
  BY <1>1, <1>3
<1> QED
  BY <1>2, <1>4

\* A finite set of numbers below n, and a function on it that gets a value
\* at n too.
Places(S, n) == IsFiniteSet(S) /\ \A j \in S : j \in Nat /\ j < n

Grows(f, g, S, n, X) ==
    f \in [S -> X] /\ g \in [S \cup {n} -> X] /\ \A i \in S : g[i] = f[i]

\* The sequence of the values gets one longer.
LEMMA InOrderGrows ==
  ASSUME NEW places, NEW n \in Nat, Places(places, n),
         NEW X, NEW f, NEW g, Grows(f, g, places, n, X)
  PROVE  InOrder(g) = Append(InOrder(f), g[n])
<1> SUFFICES ASSUME NEW c, c = Cardinality(places), NEW more, more = places \cup {n}
             PROVE  InOrder(g) = Append(InOrder(f), g[n])
  OBVIOUS
<1> DEFINE e == [k \in 1..(c + 1) |-> g[Nth(more, k)]]
<1>0. /\ f \in [places -> X] /\ g \in [more -> X]
      /\ \A i \in places : g[i] = f[i]
  BY DEF Grows
<1>1. /\ Cardinality(more) = c + 1 /\ c \in Nat /\ Nth(more, c + 1) = n
      /\ \A k \in 1..c : Nth(more, k) = Nth(places, k) /\ Nth(places, k) \in places
  <2>1. /\ \A j \in places : j \in Nat
        /\ IsFiniteSet(places) /\ \A i \in places : i < n
    BY DEF Places
  <2> QED
    BY <2>1, NthAdd
<1>2. DOMAIN f = places /\ DOMAIN g = more /\ g[n] \in X
  BY <1>0
<1>3. InOrder(f) = [k \in 1..c |-> f[Nth(places, k)]] /\ InOrder(g) = e
  BY <1>1, <1>2 DEF InOrder
<1>4. InOrder(f) \in Seq(X) /\ Len(InOrder(f)) = c
  <2>1. \A k \in 1..c : f[Nth(places, k)] \in X
    BY <1>0, <1>1
  <2> QED
    BY <1>1, <1>3, <2>1
<1> HIDE DEF e
<1>5. ASSUME NEW k \in 1..(c + 1)
      PROVE  e[k] = IF k = c + 1 THEN g[n] ELSE InOrder(f)[k]
  <2>1. CASE k = c + 1
    BY <1>0, <1>1, <2>1 DEF e
  <2>2. CASE k # c + 1
    <3>1. k \in 1..c
      BY <1>1, <2>2
    <3>2. Nth(more, k) = Nth(places, k) /\ Nth(places, k) \in places
      BY <1>1, <3>1
    <3>3. g[Nth(more, k)] = f[Nth(places, k)]
      BY <1>0, <3>2
    <3> QED
      BY <1>3, <2>2, <3>1, <3>3 DEF e
  <2> QED
    BY <2>1, <2>2
<1>6. InOrder(g) = [k \in 1..(c + 1) |-> e[k]]
  BY <1>3 DEF e
<1> QED
  BY <1>1, <1>2, <1>4, <1>5, <1>6, LongerByOne

LEMMA FrontOfAppend ==
  ASSUME NEW X, NEW s \in Seq(X), NEW x \in X
  PROVE  /\ Front(Append(s, x)) = s /\ Last(Append(s, x)) = x
         /\ Append(s, x) # <<>> /\ Len(Append(s, x)) = Len(s) + 1
<1>1. /\ Append(s, x) \in Seq(X) /\ Append(s, x) # <<>>
      /\ Len(Append(s, x)) = Len(s) + 1 /\ Append(s, x)[Len(s) + 1] = x
      /\ \A i \in 1..Len(s) : Append(s, x)[i] = s[i]
      /\ Len(s) \in Nat
  BY AppendProperties, LenProperties
<1>2. Front(Append(s, x)) = SubSeq(Append(s, x), 1, Len(s))
  BY <1>1 DEF Front
<1>3. /\ SubSeq(Append(s, x), 1, Len(s)) \in Seq(X)
      /\ Len(SubSeq(Append(s, x), 1, Len(s))) = Len(s)
      /\ \A i \in 1..Len(s) : SubSeq(Append(s, x), 1, Len(s))[i] = s[i]
  BY <1>1, SMTT(30)
<1>4. SubSeq(Append(s, x), 1, Len(s)) = s
  BY <1>3, SeqEqual
<1> QED
  BY <1>1, <1>2, <1>4 DEF Last

-----------------------------------------------------------------------------
\* The rounds of the registry, read off the stack of the thread inside.
LoopRounds(t, src) == [i \in LoopsOf(t, src) |-> RoundOf(stack[t][i])]

RoundsShape ==
    /\ \A src \in Sources : \A t \in Threads :
           FramesOf(t, src) # {} =>
               /\ Rounds[src] = InOrder(LoopRounds(t, src))
               /\ LoopRounds(t, src) \in [LoopsOf(t, src) -> Registry!Round]
    /\ \A src \in Sources :
           (\A t \in Threads : LoopsOf(t, src) = {}) => Rounds[src] = <<>>

LEMMA RoundsInOrder ==
  ASSUME stack \in [Threads -> Seq(Frame)], NEW t \in Threads, NEW src
  PROVE  RoundsOf(t, src) = InOrder(LoopRounds(t, src))
<1>1. /\ stack[t] \in Seq(Frame) /\ Len(stack[t]) \in Nat
      /\ DOMAIN stack[t] = 1..Len(stack[t])
  BY LenProperties
<1>2. /\ \A i \in LoopsOf(t, src) : i \in Nat
      /\ \A i \in LoopsOf(t, src) : i <= Len(stack[t])
  BY <1>1 DEF LoopsOf, FramesOf
<1>3. PICK L : L = LoopsOf(t, src)
  OBVIOUS
<1>4. IsFiniteSet(L) /\ (\A i \in L : i \in Nat) /\ (\A i \in L : i <= Len(stack[t]))
  BY <1>2, <1>3, FramesFinite
<1>5. \A k \in 1..Cardinality(L) : Nth(L, k) \in L
  BY <1>1, <1>4, NthFacts
<1>6. DOMAIN LoopRounds(t, src) = L /\ \A i \in L : LoopRounds(t, src)[i] = RoundOf(stack[t][i])
  BY <1>3 DEF LoopRounds
<1>7. Ascending[L] = [k \in 1..Cardinality(L) |-> Nth(L, k)]
  <2>1. L \in SUBSET Nat
    BY <1>4
  <2> QED
    BY <2>1 DEF Ascending, Nth
<1>8. RoundsOf(t, src) = [k \in 1..Cardinality(L) |-> RoundOf(stack[t][Nth(L, k)])]
  BY <1>3, <1>7 DEF RoundsOf
<1> QED
  BY <1>5, <1>6, <1>8 DEF InOrder

\* _notifying is 0 while no thread is in a loop over the source.
LEMMA NoLoops ==
  ASSUME IInv, NEW src \in Sources, \A u \in Threads : LoopsOf(u, src) = {}
  PROVE  notifying[src] = 0
<1>1. CASE \A u \in Threads : FramesOf(u, src) = {}
  BY <1>1 DEF IInv, LoopsAgree
<1>2. ASSUME NEW u \in Threads, FramesOf(u, src) # {}
      PROVE  notifying[src] = 0
  BY <1>2, FS_EmptySet DEF IInv, LoopsAgree
<1> QED
  BY <1>1, <1>2

LEMMA RoundsKnown == IInv => RoundsShape
<1> SUFFICES ASSUME IInv, NEW src \in Sources
             PROVE  /\ \A t \in Threads :
                           FramesOf(t, src) # {} =>
                               /\ Rounds[src] = InOrder(LoopRounds(t, src))
                               /\ LoopRounds(t, src)
                                      \in [LoopsOf(t, src) -> Registry!Round]
                    /\ (\A t \in Threads : LoopsOf(t, src) = {}) => Rounds[src] = <<>>
  BY DEF RoundsShape
<1>1. stack \in [Threads -> Seq(Frame)] /\ sinks[src] \in Seq(Sinks)
  BY DEF IInv, TypeOK
<1>2. (\A t \in Threads : LoopsOf(t, src) = {}) => Rounds[src] = <<>>
  BY NoLoops DEF Rounds
<1>3. ASSUME NEW t \in Threads, FramesOf(t, src) # {}
      PROVE  Rounds[src] = InOrder(LoopRounds(t, src))
  <2>1. \A u \in Threads \ {t} : LoopsOf(u, src) = {}
    BY <1>3 DEF IInv, OneInside, LoopsOf
  <2>2. CASE LoopsOf(t, src) # {}
    <3>1. notifying[src] # 0
      BY <1>1, <1>3, <2>2, FramesFinite DEF IInv, LoopsAgree
    <3>2. (CHOOSE u \in Threads : LoopsOf(u, src) # {}) = t
      BY <2>1, <2>2
    <3>3. Rounds[src] = RoundsOf(CHOOSE u \in Threads : LoopsOf(u, src) # {}, src)
      BY <3>1 DEF Rounds
    <3>4. Rounds[src] = RoundsOf(t, src)
      BY <3>2, <3>3, Zenon
    <3> QED
      BY <1>1, <3>4, RoundsInOrder
  <2>3. CASE LoopsOf(t, src) = {}
    <3>1. Rounds[src] = <<>>
      BY <1>2, <2>1, <2>3
    <3>2. DOMAIN LoopRounds(t, src) = {} /\ Cardinality({}) = 0
      BY <2>3, FS_EmptySet DEF LoopRounds
    <3>3. InOrder(LoopRounds(t, src)) = <<>>
      BY <3>2 DEF InOrder
    <3> QED
      BY <3>1, <3>3
  <2> QED
    BY <2>2, <2>3
<1>4. ASSUME NEW t \in Threads, NEW i \in LoopsOf(t, src)
      PROVE  RoundOf(stack[t][i]) \in Registry!Round
  <2>1. /\ stack[t] \in Seq(Frame) /\ i \in DOMAIN stack[t]
        /\ stack[t][i].source = src /\ stack[t][i].stage = "looping"
    BY <1>1, <1>4 DEF LoopsOf, FramesOf
  <2>2. stack[t][i] \in Frame
    BY <2>1, ElementOfSeq, LenProperties
  <2>3. stack[t][i].end = Len(sinks[src]) /\ stack[t][i].next <= stack[t][i].end + 1
        /\ stack[t][i].next >= 1
    BY <1>4, <2>1 DEF IInv, LoopsAgree, StackShape, FrameShape
  <2>4. stack[t][i].next \in Nat /\ Len(sinks[src]) \in Nat
    BY <1>1, <2>2, LenProperties DEF Frame
  <2>5. \A m \in 1..(stack[t][i].next - 1) : m \in 1..Len(sinks[src])
    BY <2>3, <2>4
  <2>6. \A m \in 1..(stack[t][i].next - 1) : sinks[src][m] \in Sinks
    BY <1>1, <2>5, ElementOfSeq
  <2> QED
    BY <2>1, <2>2, <2>6 DEF RoundOf, Frame, Registry!Round
<1>5. \A t \in Threads : LoopRounds(t, src) \in [LoopsOf(t, src) -> Registry!Round]
  BY <1>4 DEF LoopRounds
<1> QED
  BY <1>2, <1>3, <1>5

LEMMA RoundsKnownNext == IInv' => RoundsShape'
BY RoundsKnown, PTL

\* A source whose loops a step leaves alone keeps its rounds.
LEMMA RoundsKept ==
  ASSUME IInv, IInv', NEW any \in Sources,
         \A u \in Threads :
             /\ LoopsOf(u, any)' = LoopsOf(u, any)
             /\ \A i \in LoopsOf(u, any) : stack'[u][i] = stack[u][i],
         \/ sinks'[any] = sinks[any]
         \/ \A u \in Threads : LoopsOf(u, any) = {}
  PROVE  Rounds'[any] = Rounds[any]
<1>1. RoundsShape /\ RoundsShape'
  BY RoundsKnown, RoundsKnownNext
<1>2. CASE \A u \in Threads : LoopsOf(u, any) = {}
  BY <1>1, <1>2 DEF RoundsShape
<1>3. ASSUME NEW t \in Threads, LoopsOf(t, any) # {}
      PROVE  Rounds'[any] = Rounds[any]
  <2>1. FramesOf(t, any) # {} /\ FramesOf(t, any)' # {}
    BY <1>3 DEF LoopsOf
  <2>2. Rounds[any] = InOrder(LoopRounds(t, any))
    BY <1>1, <2>1 DEF RoundsShape
  <2>3. Rounds'[any] = InOrder(LoopRounds(t, any)')
    BY <1>1, <2>1 DEF RoundsShape, InOrder
  <2>4. ASSUME NEW i \in LoopsOf(t, any)
        PROVE  RoundOf(stack[t][i])' = RoundOf(stack[t][i])
    <3>1. /\ stack'[t][i] = stack[t][i] /\ stack[t][i].source = any
          /\ sinks'[any] = sinks[any]
      BY <1>3, <2>4 DEF LoopsOf, FramesOf
    <3> QED
      BY <3>1 DEF RoundOf
  <2>5. LoopRounds(t, any)' = LoopRounds(t, any)
    BY <2>4 DEF LoopRounds
  <2> QED
    BY <2>2, <2>3, <2>5
<1> QED
  BY <1>2, <1>3

\* The rounds of src before and after a step of t: rest, and one more for t's
\* n-th frame if that is in its loop.
RoundsTurn(t, src, n, rest) ==
    /\ IF n \in LoopsOf(t, src)
       THEN /\ RoundOf(Top(t)) \in Registry!Round
            /\ Rounds[src] = Append(rest, RoundOf(Top(t)))
       ELSE Rounds[src] = rest
    /\ IF n \in LoopsOf(t, src)'
       THEN /\ RoundOf(Top(t))' \in Registry!Round
            /\ Rounds'[src] = Append(rest, RoundOf(Top(t))')
       ELSE Rounds'[src] = rest
    /\ rest = <<>> <=> LoopsOf(t, src) \subseteq {n}

\* A step of t inside src: the rounds below its innermost frame stay.
LEMMA InsideRounds ==
  ASSUME IInv, IInv', NEW t \in Threads, stack[t] # <<>>,
         NEW src, src = Top(t).source, NEW n, n = Len(stack[t]),
         Pop(t) \/ \E f \in Frame : SetTop(t, f) /\ f.source = src,
         \A any \in Sources \ {src} : sinks'[any] = sinks[any],
         sinks'[src] = sinks[src] \/ LoopsOf(t, src) = {}
  PROVE  /\ \A any \in Sources \ {src} : Rounds'[any] = Rounds[any]
         /\ \E rest \in Seq(Registry!Round) : RoundsTurn(t, src, n, rest)
<1> DEFINE L == LoopsOf(t, src)
           S == L \ {n}
<1>1. /\ stack \in [Threads -> Seq(Frame)] /\ stack' \in [Threads -> Seq(Frame)]
      /\ src \in Sources /\ n \in Nat /\ Top(t) = stack[t][n]
      /\ DOMAIN stack[t] = 1..n /\ n \in FramesOf(t, src)
      /\ RoundsShape /\ RoundsShape'
  BY InnermostCall, TopFacts, RoundsKnown, RoundsKnownNext DEF IInv, TypeOK
<1>2. /\ \A u \in Threads \ {t} : stack'[u] = stack[u]
      /\ \A i \in DOMAIN stack[t] \ {n} : i \in DOMAIN stack'[t] /\ stack'[t][i] = stack[t][i]
      /\ \A u \in Threads : \A any \in Sources :
             u # t \/ any # src => LoopsOf(u, any)' = LoopsOf(u, any)
      /\ LoopsOf(t, src)' \ {n} = S
      /\ stack'[t] # <<>> /\ n \in DOMAIN stack'[t] => Top(t)' = stack'[t][n]
  <2>1. CASE Pop(t)
    <3>1. /\ \A u \in Threads \ {t} : stack'[u] = stack[u]
          /\ DOMAIN stack'[t] = 1..(n - 1)
          /\ \A i \in DOMAIN stack'[t] : stack'[t][i] = stack[t][i]
      BY <1>1, <2>1, PopFrame
    <3>2. \A u \in Threads : \A any \in Sources :
              LoopsOf(u, any)' = IF u = t THEN LoopsOf(u, any) \ {n} ELSE LoopsOf(u, any)
      BY <1>1, <2>1, PopFrames
    <3>3. \A any \in Sources : any # src => n \notin LoopsOf(t, any)
      BY <1>1 DEF LoopsOf, FramesOf
    <3>4. \A i \in DOMAIN stack[t] \ {n} : i \in DOMAIN stack'[t] /\ stack'[t][i] = stack[t][i]
      BY <1>1, <3>1
    <3>5. \A u \in Threads : \A any \in Sources :
              u # t \/ any # src => LoopsOf(u, any)' = LoopsOf(u, any)
      <4>1. ASSUME NEW u \in Threads \ {t}, NEW any \in Sources
            PROVE  LoopsOf(u, any)' = LoopsOf(u, any)
        BY <3>2
      <4>2. ASSUME NEW any \in Sources, any # src
            PROVE  LoopsOf(t, any)' = LoopsOf(t, any)
        <5>1. LoopsOf(t, any)' = LoopsOf(t, any) \ {n} /\ n \notin LoopsOf(t, any)
          BY <3>2, <3>3, <4>2
        <5> QED
          BY <5>1
      <4> QED
        BY <4>1, <4>2
    <3>6. LoopsOf(t, src)' \ {n} = S /\ n \notin DOMAIN stack'[t]
      BY <1>1, <3>1, <3>2
    <3> QED
      BY <3>1, <3>4, <3>5, <3>6
  <2>2. ASSUME NEW f \in Frame, SetTop(t, f), f.source = src
        PROVE  /\ \A u \in Threads \ {t} : stack'[u] = stack[u]
               /\ \A i \in DOMAIN stack[t] \ {n} :
                      i \in DOMAIN stack'[t] /\ stack'[t][i] = stack[t][i]
               /\ \A u \in Threads : \A any \in Sources :
                      u # t \/ any # src => LoopsOf(u, any)' = LoopsOf(u, any)
               /\ LoopsOf(t, src)' \ {n} = S
               /\ Top(t)' = stack'[t][n]
    <3>1. /\ \A u \in Threads \ {t} : stack'[u] = stack[u]
          /\ DOMAIN stack'[t] = DOMAIN stack[t] /\ Top(t)' = f
          /\ \A i \in DOMAIN stack[t] : stack'[t][i] = IF i = n THEN f ELSE stack[t][i]
      BY <1>1, <2>2, ReplaceTop
    <3>2. \A u \in Threads : \A any \in Sources :
              LoopsOf(u, any)' =
                  IF u # t \/ any # f.source THEN LoopsOf(u, any)
                  ELSE IF f.stage = "looping" THEN LoopsOf(u, any) \cup {n}
                  ELSE LoopsOf(u, any) \ {n}
      BY <1>1, <2>2, ReplaceTopFrames
    <3>3. n \in DOMAIN stack[t]
      BY <1>1 DEF FramesOf
    <3> QED
      BY <1>1, <2>2, <3>1, <3>2, <3>3
  <2> QED
    BY <2>1, <2>2
<1>3. ASSUME NEW any \in Sources \ {src}
      PROVE  Rounds'[any] = Rounds[any]
  <2>1. \A u \in Threads : LoopsOf(u, any)' = LoopsOf(u, any)
    BY <1>2
  <2>2. ASSUME NEW u \in Threads, NEW i \in LoopsOf(u, any)
        PROVE  stack'[u][i] = stack[u][i]
    <3>1. i \in DOMAIN stack[u] /\ (u = t => i # n)
      BY <1>1, <2>2 DEF LoopsOf, FramesOf
    <3> QED
      BY <1>2, <3>1
  <2> QED
    BY <2>1, <2>2, RoundsKept
<1>4. /\ IsFiniteSet(S) /\ \A i \in S : i \in Nat /\ i < n
      /\ \A i \in S : i \in DOMAIN stack[t] \ {n}
  <2>1. IsFiniteSet(S)
    BY <1>1, FramesFinite, FS_RemoveElement
  <2>2. \A i \in S : i \in DOMAIN stack[t] \ {n}
    BY DEF LoopsOf, FramesOf
  <2>3. \A i \in DOMAIN stack[t] \ {n} : i \in Nat /\ i < n
    BY <1>1
  <2> QED
    BY <2>1, <2>2, <2>3
<1> DEFINE g    == [i \in S |-> RoundOf(stack[t][i])]
           rest == InOrder(g)
<1>5. /\ Rounds[src] = InOrder(LoopRounds(t, src))
      /\ LoopRounds(t, src) \in [L -> Registry!Round]
      /\ \A i \in L : LoopRounds(t, src)[i] = RoundOf(stack[t][i])
  BY <1>1 DEF RoundsShape, LoopRounds
<1>6. /\ g \in [S -> Registry!Round]
      /\ \A i \in S : g[i] = LoopRounds(t, src)[i] /\ g[i] = RoundOf(stack[t][i])
  BY <1>5
<1> HIDE DEF S, g
<1>7. rest \in Seq(Registry!Round) /\ (rest = <<>> <=> L \subseteq {n})
  <2>1. \A i \in S : i \in Nat
    BY <1>4
  <2>2. \A i \in S : i < n
    BY <1>4
  <2>3. InOrder(g) \in Seq(Registry!Round) /\ (InOrder(g) = <<>> <=> S = {})
    BY <1>1, <1>4, <1>6, <2>1, <2>2, InOrderType
  <2> QED
    BY <2>3 DEF S
<1>8. ASSUME NEW h \in [S \cup {n} -> Registry!Round], \A i \in S : h[i] = g[i]
      PROVE  InOrder(h) = Append(rest, h[n])
  <2>1. Places(S, n) /\ n \in Nat
    BY <1>1, <1>4 DEF Places
  <2>2. Grows(g, h, S, n, Registry!Round)
    BY <1>6, <1>8 DEF Grows
  <2>3. InOrder(h) = Append(InOrder(g), h[n])
    BY <2>1, <2>2, InOrderGrows
  <2> QED
    BY <2>3
<1>9. IF n \in L
      THEN /\ RoundOf(Top(t)) \in Registry!Round
           /\ Rounds[src] = Append(rest, RoundOf(Top(t)))
      ELSE Rounds[src] = rest
  <2>1. CASE n \in L
    <3>1. L = S \cup {n}
      BY <2>1 DEF S
    <3>2. LoopRounds(t, src) \in [S \cup {n} -> Registry!Round]
      BY <1>5, <3>1
    <3>3. \A i \in S : LoopRounds(t, src)[i] = g[i]
      BY <1>6
    <3>4. InOrder(LoopRounds(t, src)) = Append(rest, LoopRounds(t, src)[n])
      BY <1>8, <3>2, <3>3
    <3>5. LoopRounds(t, src)[n] = RoundOf(Top(t)) /\ LoopRounds(t, src)[n] \in Registry!Round
      BY <1>1, <1>5, <2>1
    <3> QED
      BY <1>5, <2>1, <3>4, <3>5
  <2>2. CASE n \notin L
    <3>1. g = LoopRounds(t, src)
      BY <2>2 DEF LoopRounds, g, S
    <3> QED
      BY <1>5, <2>2, <3>1
  <2> QED
    BY <2>1, <2>2
<1>10. IF n \in LoopsOf(t, src)'
      THEN /\ RoundOf(Top(t))' \in Registry!Round
           /\ Rounds'[src] = Append(rest, RoundOf(Top(t))')
      ELSE Rounds'[src] = rest
  <2>1. FramesOf(t, src)' # {} =>
            /\ Rounds'[src] = InOrder(LoopRounds(t, src)')
            /\ LoopRounds(t, src)' \in [LoopsOf(t, src)' -> Registry!Round]
    BY <1>1 DEF RoundsShape, InOrder, Registry!Round
  <2>2. ASSUME NEW i \in S
        PROVE  RoundOf(stack[t][i])' = g[i]
    <3>1. stack'[t][i] = stack[t][i] /\ stack[t][i].source = src
      BY <1>2, <1>4 DEF S, LoopsOf, FramesOf
    <3>2. sinks'[src] = sinks[src]
      BY DEF S
    <3>3. RoundOf(stack[t][i])' = RoundOf(stack[t][i])
      BY <3>1, <3>2 DEF RoundOf
    <3> QED
      BY <1>6, <3>3
  <2>3. LoopRounds(t, src)' = [i \in LoopsOf(t, src)' |-> RoundOf(stack[t][i])']
    BY DEF LoopRounds
  <2>4. CASE n \in LoopsOf(t, src)'
    <3>1. n \in DOMAIN stack'[t] /\ FramesOf(t, src)' # {} /\ LoopsOf(t, src)' = S \cup {n}
      BY <1>2, <2>4 DEF LoopsOf, FramesOf
    <3>2. stack'[t] # <<>> /\ Top(t)' = stack'[t][n]
      <4>1. stack'[t] # <<>>
        BY <1>1, <3>1, EmptySeq, LenProperties
      <4> QED
        BY <1>2, <3>1, <4>1
    <3>3. LoopRounds(t, src)' \in [S \cup {n} -> Registry!Round]
      BY <2>1, <3>1
    <3>4. \A i \in S : LoopRounds(t, src)'[i] = g[i]
      BY <2>2, <2>3, <3>1
    <3>5. InOrder(LoopRounds(t, src)') = Append(rest, LoopRounds(t, src)'[n])
      BY <1>8, <3>3, <3>4
    <3>6. RoundOf(stack[t][n])' = RoundOf(Top(t))'
      BY <3>2 DEF RoundOf
    <3>7. /\ LoopRounds(t, src)'[n] = RoundOf(Top(t))'
          /\ LoopRounds(t, src)'[n] \in Registry!Round
      BY <2>3, <3>1, <3>3, <3>6
    <3> QED
      BY <2>1, <2>4, <3>1, <3>5, <3>7
  <2>5. CASE n \notin LoopsOf(t, src)'
    <3>1. LoopsOf(t, src)' = S
      BY <1>2, <2>5
    <3>2. CASE FramesOf(t, src)' # {}
      <4>1. LoopRounds(t, src)' = g
        BY <1>6, <2>2, <2>3, <3>1
      <4> QED
        BY <2>1, <2>5, <3>2, <4>1
    <3>3. CASE FramesOf(t, src)' = {}
      <4>1. LoopsOf(t, src)' = {} /\ rest = <<>>
        BY <1>7, <3>1, <3>3 DEF S, LoopsOf
      <4>2. \A u \in Threads \ {t} : LoopsOf(u, src) = {}
        BY InnermostCall
      <4>3. \A u \in Threads \ {t} : LoopsOf(u, src)' = {}
        BY <1>1, <1>2, <4>2
      <4>4. Rounds'[src] = <<>>
        BY <1>1, <4>1, <4>3 DEF RoundsShape
      <4> QED
        BY <2>5, <4>1, <4>4
    <3> QED
      BY <3>2, <3>3
  <2> QED
    BY <2>4, <2>5
<1> HIDE DEF rest
<1> QED
  BY <1>3, <1>7, <1>9, <1>10 DEF RoundsTurn

-----------------------------------------------------------------------------
\* The registry's variables are functions on the sources.
IsMap(m) == m = [src \in Sources |-> m[src]]

LEMMA RegistryMaps ==
  /\ IsMap(Registered) /\ IsMap(Base) /\ IsMap(Rounds)
  /\ IsMap(Registered') /\ IsMap(Base') /\ IsMap(Rounds')
<1>1. IsMap(Registered) /\ IsMap(Base) /\ IsMap(Rounds)
  BY DEF IsMap, Registered, Base, Rounds
<1>2. IsMap(Registered') /\ IsMap(Base') /\ IsMap(Rounds')
  BY DEF IsMap, Registered, Base, Rounds
<1> QED
  BY <1>1, <1>2

LEMMA OneChanges ==
  ASSUME NEW f, NEW g, IsMap(f), IsMap(g), NEW a \in Sources, NEW x,
         \A b \in Sources \ {a} : g[b] = f[b], g[a] = x
  PROVE  g = [f EXCEPT ![a] = x]
BY DEF IsMap

LEMMA NoneChanges ==
  ASSUME NEW f, NEW g, IsMap(f), IsMap(g), \A b \in Sources : g[b] = f[b]
  PROVE  g = f
BY DEF IsMap

LEMMA BaseKept ==
  ASSUME IInv, notifying' = notifying,
         \A any \in Sources :
             \/ sinks'[any] = sinks[any]
             \/ \A u \in Threads : LoopsOf(u, any) = {}
  PROVE  Base' = Base
<1>1. ASSUME NEW any \in Sources
      PROVE  Base'[any] = Base[any]
  <2>1. notifying[any] = 0 \/ sinks'[any] = sinks[any]
    BY NoLoops
  <2> QED
    BY <2>1 DEF Base
<1> QED
  BY <1>1, RegistryMaps, NoneChanges

\* A step that leaves the stack alone, or pushes a frame, and moves no list a
\* loop runs over: no round begins, changes or ends.
LEMMA OutsideRounds ==
  ASSUME IInv, IInv', notifying' = notifying,
         \/ stack' = stack
         \/ \E t \in Threads, f \in Frame :
                f.stage # "looping" /\ stack' = [stack EXCEPT ![t] = Append(@, f)],
         \A any \in Sources :
             \/ sinks'[any] = sinks[any]
             \/ \A u \in Threads : LoopsOf(u, any) = {}
  PROVE  UNCHANGED <<Base, Rounds>>
<1>1. stack \in [Threads -> Seq(Frame)]
  BY DEF IInv, TypeOK
<1>2. ASSUME NEW u \in Threads, NEW any \in Sources
      PROVE  /\ LoopsOf(u, any)' = LoopsOf(u, any)
             /\ \A i \in LoopsOf(u, any) : stack'[u][i] = stack[u][i]
  <2>1. CASE stack' = stack
    BY <2>1 DEF LoopsOf, FramesOf
  <2>2. ASSUME NEW t \in Threads, NEW f \in Frame, f.stage # "looping",
               stack' = [stack EXCEPT ![t] = Append(@, f)]
        PROVE  /\ LoopsOf(u, any)' = LoopsOf(u, any)
               /\ \A i \in DOMAIN stack[u] : stack'[u][i] = stack[u][i]
    <3>1. LoopsOf(u, any)' = LoopsOf(u, any)
      BY <1>1, <2>2, PushFrames
    <3>2. /\ \A v \in Threads \ {t} : stack'[v] = stack[v]
          /\ \A i \in DOMAIN stack[t] : stack'[t][i] = stack[t][i]
      BY <1>1, <2>2, PushFrame
    <3> QED
      BY <3>1, <3>2
  <2>3. LoopsOf(u, any) \subseteq DOMAIN stack[u]
    BY DEF LoopsOf, FramesOf
  <2> QED
    BY <2>1, <2>2, <2>3
<1>3. ASSUME NEW any \in Sources
      PROVE  Rounds'[any] = Rounds[any]
  BY <1>2, RoundsKept
<1>4. Rounds' = Rounds
  BY <1>3, RegistryMaps, NoneChanges
<1> QED
  BY <1>4, BaseKept

-----------------------------------------------------------------------------
\* A turn of the innermost loop changes the innermost round alone, ...
LEMMA RoundTurns ==
  ASSUME IInv, IInv', NEW t \in Threads, stack[t] # <<>>, Top(t).stage = "looping",
         NEW src, src = Top(t).source, NEW f \in Frame, SetTop(t, f),
         f.source = src, f.stage = "looping", sinks' = sinks
  PROVE  /\ Rounds[src] # <<>> /\ Registry!Innermost(src) = RoundOf(Top(t))
         /\ RoundOf(f) \in Registry!Round
         /\ Registry!SetInnermost(src, RoundOf(f))
<1> SUFFICES ASSUME NEW n, n = Len(stack[t])
             PROVE  /\ Rounds[src] # <<>> /\ Registry!Innermost(src) = RoundOf(Top(t))
                    /\ RoundOf(f) \in Registry!Round
                    /\ Registry!SetInnermost(src, RoundOf(f))
  OBVIOUS
<1>1. /\ stack \in [Threads -> Seq(Frame)] /\ src \in Sources
      /\ n \in LoopsOf(t, src)
  BY InnermostCall, TopFacts DEF LoopsOf, IInv, TypeOK
<1>2. n \in LoopsOf(t, src)' /\ Top(t)' = f
  BY <1>1, ReplaceTop, ReplaceTopFrames
<1>3. RoundOf(Top(t))' = RoundOf(f)
  BY <1>2 DEF RoundOf
<1>4. PICK rest \in Seq(Registry!Round) :
         /\ RoundOf(Top(t)) \in Registry!Round
         /\ Rounds[src] = Append(rest, RoundOf(Top(t)))
         /\ RoundOf(f) \in Registry!Round
         /\ Rounds'[src] = Append(rest, RoundOf(f))
  <2>1. \A any \in Sources \ {src} : sinks'[any] = sinks[any]
    OBVIOUS
  <2>2. Pop(t) \/ \E frame \in Frame : SetTop(t, frame) /\ frame.source = src
    OBVIOUS
  <2>3. PICK rest \in Seq(Registry!Round) : RoundsTurn(t, src, n, rest)
    BY <2>1, <2>2, InsideRounds
  <2> QED
    BY <1>1, <1>2, <1>3, <2>3 DEF RoundsTurn
<1>5. \A any \in Sources \ {src} : Rounds'[any] = Rounds[any]
  BY InsideRounds
<1>6. /\ Rounds[src] # <<>> /\ Last(Rounds[src]) = RoundOf(Top(t))
      /\ Front(Rounds[src]) = rest
  BY <1>4, FrontOfAppend
<1>7. Rounds' = [Rounds EXCEPT ![src] = Append(Front(Rounds[src]), RoundOf(f))]
  BY <1>1, <1>4, <1>5, <1>6, RegistryMaps, OneChanges
<1> QED
  BY <1>4, <1>6, <1>7 DEF Registry!Innermost, Registry!SetInnermost,
     Registry!Last, Registry!Front, Last, Front

\* ... ++_notifying begins one, ...
LEMMA RoundBegins ==
  ASSUME IInv, IInv', NEW t \in Threads, stack[t] # <<>>, Top(t).stage # "looping",
         NEW src, src = Top(t).source, NEW f \in Frame, SetTop(t, f),
         f.source = src, f.stage = "looping", sinks' = sinks
  PROVE  /\ RoundOf(f) \in Registry!Round
         /\ Rounds' = [Rounds EXCEPT ![src] = Append(@, RoundOf(f))]
         /\ (Rounds[src] = <<>> <=> notifying[src] = 0)
<1> SUFFICES ASSUME NEW n, n = Len(stack[t])
             PROVE  /\ RoundOf(f) \in Registry!Round
                    /\ Rounds' = [Rounds EXCEPT ![src] = Append(@, RoundOf(f))]
                    /\ (Rounds[src] = <<>> <=> notifying[src] = 0)
  OBVIOUS
<1>1. /\ stack \in [Threads -> Seq(Frame)] /\ src \in Sources
      /\ n \notin LoopsOf(t, src)
      /\ notifying[src] = 0 <=> LoopsOf(t, src) = {}
  BY InnermostCall, TopFacts DEF LoopsOf, IInv, TypeOK
<1>2. n \in LoopsOf(t, src)' /\ Top(t)' = f
  BY <1>1, ReplaceTop, ReplaceTopFrames
<1>3. RoundOf(Top(t))' = RoundOf(f)
  BY <1>2 DEF RoundOf
<1>4. PICK rest \in Seq(Registry!Round) :
         /\ Rounds[src] = rest
         /\ RoundOf(f) \in Registry!Round
         /\ Rounds'[src] = Append(rest, RoundOf(f))
         /\ (rest = <<>> <=> LoopsOf(t, src) \subseteq {n})
  <2>1. \A any \in Sources \ {src} : sinks'[any] = sinks[any]
    OBVIOUS
  <2>2. Pop(t) \/ \E frame \in Frame : SetTop(t, frame) /\ frame.source = src
    OBVIOUS
  <2>3. PICK rest \in Seq(Registry!Round) : RoundsTurn(t, src, n, rest)
    BY <2>1, <2>2, InsideRounds
  <2> QED
    BY <1>1, <1>2, <1>3, <2>3 DEF RoundsTurn
<1>5. \A any \in Sources \ {src} : Rounds'[any] = Rounds[any]
  BY InsideRounds
<1>6. Rounds' = [Rounds EXCEPT ![src] = Append(Rounds[src], RoundOf(f))]
  BY <1>1, <1>4, <1>5, RegistryMaps, OneChanges
<1>7. Rounds[src] = <<>> <=> notifying[src] = 0
  BY <1>1, <1>4
<1> QED
  BY <1>4, <1>6, <1>7

\* ... and _notifying-- ends it; no round of one loop is left when the count
\* was 1.
LEMMA RoundEnds ==
  ASSUME IInv, IInv', NEW t \in Threads, stack[t] # <<>>, Top(t).stage = "looping",
         NEW src, src = Top(t).source,
         \/ Pop(t)
         \/ \E f \in Frame : SetTop(t, f) /\ f.source = src /\ f.stage # "looping",
         sinks' = sinks
  PROVE  /\ Rounds[src] # <<>> /\ Registry!Innermost(src) = RoundOf(Top(t))
         /\ Rounds' = [Rounds EXCEPT ![src] = Front(@)]
         /\ (Len(Rounds[src]) = 1 <=> notifying[src] = 1)
<1> SUFFICES ASSUME NEW n, n = Len(stack[t])
             PROVE  /\ Rounds[src] # <<>> /\ Registry!Innermost(src) = RoundOf(Top(t))
                    /\ Rounds' = [Rounds EXCEPT ![src] = Front(@)]
                    /\ (Len(Rounds[src]) = 1 <=> notifying[src] = 1)
  OBVIOUS
<1>1. /\ stack \in [Threads -> Seq(Frame)] /\ src \in Sources
      /\ n \in LoopsOf(t, src)
      /\ notifying[src] = Cardinality(LoopsOf(t, src))
  BY InnermostCall, TopFacts DEF LoopsOf, IInv, TypeOK
<1>2. n \notin LoopsOf(t, src)'
  <2>1. CASE Pop(t)
    BY <1>1, <2>1, PopFrames
  <2>2. ASSUME NEW f \in Frame, SetTop(t, f), f.source = src, f.stage # "looping"
        PROVE  n \notin LoopsOf(t, src)'
    BY <1>1, <2>2, ReplaceTopFrames
  <2> QED
    BY <2>1, <2>2
<1>3. PICK rest \in Seq(Registry!Round) :
         /\ RoundOf(Top(t)) \in Registry!Round
         /\ Rounds[src] = Append(rest, RoundOf(Top(t)))
         /\ Rounds'[src] = rest
         /\ (rest = <<>> <=> LoopsOf(t, src) \subseteq {n})
  <2>1. \A any \in Sources \ {src} : sinks'[any] = sinks[any]
    OBVIOUS
  <2>2. Pop(t) \/ \E frame \in Frame : SetTop(t, frame) /\ frame.source = src
    OBVIOUS
  <2>3. PICK rest \in Seq(Registry!Round) : RoundsTurn(t, src, n, rest)
    BY <2>1, <2>2, InsideRounds
  <2> QED
    BY <1>1, <1>2, <2>3 DEF RoundsTurn
<1>4. \A any \in Sources \ {src} : Rounds'[any] = Rounds[any]
  BY InsideRounds
<1>5. /\ Rounds[src] # <<>> /\ Last(Rounds[src]) = RoundOf(Top(t))
      /\ Front(Rounds[src]) = rest /\ Len(Rounds[src]) = Len(rest) + 1
  BY <1>3, FrontOfAppend
<1>6. Rounds' = [Rounds EXCEPT ![src] = Front(Rounds[src])]
  BY <1>1, <1>3, <1>4, <1>5, RegistryMaps, OneChanges
<1>7. Len(Rounds[src]) = 1 <=> notifying[src] = 1
  <2>1. Len(rest) \in Nat /\ (Len(rest) = 0 <=> rest = <<>>)
    BY <1>3, LenProperties, EmptySeq
  <2>2. /\ IsFiniteSet(LoopsOf(t, src)) /\ Cardinality(LoopsOf(t, src)) \in Nat
        /\ Cardinality(LoopsOf(t, src) \ {n}) = Cardinality(LoopsOf(t, src)) - 1
        /\ IsFiniteSet(LoopsOf(t, src) \ {n})
    BY <1>1, FramesFinite, FS_RemoveElement
  <2>3. Cardinality(LoopsOf(t, src) \ {n}) = 0 <=> LoopsOf(t, src) \ {n} = {}
    BY <2>2, FS_EmptySet
  <2>4. LoopsOf(t, src) \ {n} = {} <=> LoopsOf(t, src) \subseteq {n}
    OBVIOUS
  <2>5. notifying[src] = 1 <=> rest = <<>>
    BY <1>1, <1>3, <2>2, <2>3, <2>4
  <2> QED
    BY <1>5, <2>1, <2>5
<1> QED
  BY <1>5, <1>6, <1>7 DEF Registry!Innermost, Registry!Last, Last

-----------------------------------------------------------------------------
\* Each step is one of the registry's or changes nothing there.
RegistryStep == Registry!RegistryNext \/ UNCHANGED Registry!registryVars

LEMMA Stutters ==
  ASSUME UNCHANGED <<Registered, Base, Rounds>>
  PROVE  RegistryStep
BY DEF RegistryStep, Registry!registryVars

LEMMA RequestRefines ==
  ASSUME IInv, IInv', UNCHANGED <<lists, stack>>
  PROVE  RegistryStep
<1>1. Registered' = Registered /\ notifying' = notifying /\ sinks' = sinks
  BY DEF Registered, lists
<1>2. UNCHANGED <<Base, Rounds>>
  BY <1>1, OutsideRounds
<1> QED
  BY <1>1, <1>2, Stutters

LEMMA NotifyRefines ==
  ASSUME IInv, IInv', NEW t \in Threads, Notify(t)
  PROVE  RegistryStep
<1> DEFINE f == [source |-> request[t].source, stage |-> "adding",
                 next |-> 1, end |-> 0, sink |-> NoSink]
<1>1. /\ stack' = [stack EXCEPT ![t] = Append(@, f)] /\ request[t] # NoCall
      /\ Registered' = Registered /\ notifying' = notifying /\ sinks' = sinks
  BY DEF Notify, Enter, Registered, lists
<1>2. request[t].source \in Sources
  BY <1>1 DEF IInv, TypeOK, Call
<1>3. f \in Frame /\ f.stage # "looping"
  BY <1>2 DEF Frame, Stages
<1> HIDE DEF f
<1>4. UNCHANGED <<Base, Rounds>>
  BY <1>1, <1>3, OutsideRounds
<1> QED
  BY <1>1, <1>4, Stutters

LEMMA RegisterRefines ==
  ASSUME IInv, IInv', NEW t \in Threads, RegisterSink(t) \/ Construct(t)
  PROVE  RegistryStep
<1>0. SUFFICES ASSUME NEW src, NEW s, src = request[t].source, s = request[t].sink
               PROVE  RegistryStep
  OBVIOUS
<1>1. /\ request[t] # NoCall /\ LockFree(t, src) /\ Add(src, s) /\ CallShape(t)
      /\ stack' = stack
      /\ request[t].op = "Construct" \/ (request[t].op = "RegisterSink" /\ s # NoSink)
  BY <1>0 DEF RegisterSink, Construct, NullSink, Enter, IInv, RequestShape
<1>2. /\ src \in Sources /\ s \in Sinks /\ notifying' = notifying
      /\ stack[t] # <<>> => Top(t).sink \in Sinks
  BY <1>0, <1>1, EventSourceAssumption DEF IInv, TypeOK, Call, CallShape, Add
<1>3. /\ Careful(src)
      /\ \A any \in Sources :
             Registered'[any] = IF any = src THEN Registered[any] \cup {s}
                                             ELSE Registered[any]
  <2>1. LockFree(t, src) /\ Add(src, s)
    BY <1>1
  <2>2. src \in Sources /\ s \in Sinks /\ (stack[t] # <<>> => Top(t).sink \in Sinks)
    BY <1>2
  <2> QED
    BY <2>1, <2>2, AddEffect
<1>4. Registered' = [Registered EXCEPT ![src] = Registered[src] \cup {s}]
  <2>1. /\ \A any \in Sources \ {src} : Registered'[any] = Registered[any]
        /\ Registered'[src] = Registered[src] \cup {s}
    BY <1>2, <1>3
  <2> QED
    BY <1>2, <2>1, RegistryMaps, OneChanges
<1>5. UNCHANGED <<Base, Rounds>>
  BY <1>1, <1>2, <1>3, OutsideRounds DEF Careful
<1>6. Registry!Register(src, s)
  BY <1>4, <1>5 DEF Registry!Register
<1> QED
  BY <1>2, <1>6 DEF RegistryStep, Registry!RegistryNext

LEMMA UnregisterRefines ==
  ASSUME IInv, IInv', NEW t \in Threads, UnregisterSink(t)
  PROVE  RegistryStep
<1>0. SUFFICES ASSUME NEW src, NEW s, src = request[t].source, s = request[t].sink
               PROVE  RegistryStep
  OBVIOUS
<1>1. /\ request[t] # NoCall /\ LockFree(t, src) /\ Drop(src, s) /\ CallShape(t)
      /\ stack' = stack /\ request[t].op = "UnregisterSink" /\ s # NoSink
  BY <1>0 DEF UnregisterSink, NullSink, Enter, IInv, RequestShape
<1>2. /\ src \in Sources /\ s \in Sinks /\ notifying' = notifying
      /\ stack[t] # <<>> => Top(t).sink \in Sinks
  BY <1>0, <1>1, EventSourceAssumption DEF IInv, TypeOK, Call, CallShape, Drop
<1>3. /\ Careful(src)
      /\ \A any \in Sources :
             Registered'[any] = IF any = src THEN Registered[any] \ {s}
                                             ELSE Registered[any]
  <2>1. LockFree(t, src) /\ Drop(src, s)
    BY <1>1
  <2>2. src \in Sources /\ s \in Sinks /\ (stack[t] # <<>> => Top(t).sink \in Sinks)
    BY <1>2
  <2> QED
    BY <2>1, <2>2, DropEffect
<1>4. Registered' = [Registered EXCEPT ![src] = Registered[src] \ {s}]
  <2>1. /\ \A any \in Sources \ {src} : Registered'[any] = Registered[any]
        /\ Registered'[src] = Registered[src] \ {s}
    BY <1>2, <1>3
  <2> QED
    BY <1>2, <2>1, RegistryMaps, OneChanges
<1>5. UNCHANGED <<Base, Rounds>>
  BY <1>1, <1>2, <1>3, OutsideRounds DEF Careful
<1>6. Registry!Unregister(src, s)
  BY <1>4, <1>5 DEF Registry!Unregister
<1> QED
  BY <1>2, <1>6 DEF RegistryStep, Registry!RegistryNext

\* The two short loops of an outermost call, and its last step.
LEMMA ShortLoops ==
  ASSUME IInv, IInv', NEW t \in Threads, stack[t] # <<>>, Top(t).stage # "looping",
         NEW src, src = Top(t).source, notifying[src] = 0,
         Pop(t) \/ \E f \in Frame : SetTop(t, f) /\ f.source = src /\ f.stage # "looping",
         \A any \in Sources \ {src} : sinks'[any] = sinks[any],
         notifying' = notifying, Registered' = Registered
  PROVE  RegistryStep
<1>0. SUFFICES ASSUME NEW n, n = Len(stack[t])
               PROVE  RegistryStep
  OBVIOUS
<1>1. /\ stack \in [Threads -> Seq(Frame)] /\ src \in Sources
      /\ \A u \in Threads : LoopsOf(u, src) = {}
  BY InnermostCall DEF IInv, TypeOK
<1>2. n \notin LoopsOf(t, src) /\ n \notin LoopsOf(t, src)'
  <2>1. CASE Pop(t)
    BY <1>0, <1>1, <2>1, PopFrames
  <2>2. ASSUME NEW f \in Frame, SetTop(t, f), f.source = src, f.stage # "looping"
        PROVE  n \notin LoopsOf(t, src)'
    BY <1>0, <1>1, <2>2, ReplaceTopFrames
  <2> QED
    BY <1>1, <2>1, <2>2
<1>3. /\ \A any \in Sources \ {src} : Rounds'[any] = Rounds[any]
      /\ \E rest \in Seq(Registry!Round) : RoundsTurn(t, src, n, rest)
  <2>1. Pop(t) \/ \E f \in Frame : SetTop(t, f) /\ f.source = src
    OBVIOUS
  <2>2. LoopsOf(t, src) = {}
    BY <1>1
  <2> QED
    BY <1>0, <2>1, <2>2, InsideRounds
<1>4. Rounds'[src] = Rounds[src]
  BY <1>2, <1>3 DEF RoundsTurn
<1>5. Rounds' = Rounds
  BY <1>3, <1>4, RegistryMaps, NoneChanges
<1>6. Base' = Base
  <2>1. \A any \in Sources :
            sinks'[any] = sinks[any] \/ \A u \in Threads : LoopsOf(u, any) = {}
    BY <1>1
  <2> QED
    BY <2>1, BaseKept
<1> QED
  BY <1>5, <1>6, Stutters

LEMMA AddPendingRefines ==
  ASSUME IInv, NEW t \in Threads, AddPending(t)
  PROVE  RegistryStep
<1>0. SUFFICES ASSUME NEW src, NEW f, src = Top(t).source,
                      f = [Top(t) EXCEPT !.next = @ + 1]
               PROVE  RegistryStep
  OBVIOUS
<1>1. /\ stack[t] # <<>> /\ Top(t).stage = "adding" /\ notifying[src] = 0
      /\ SetTop(t, f) /\ notifying' = notifying
      /\ \A any \in Sources \ {src} : sinks'[any] = sinks[any]
  BY <1>0 DEF AddPending, In, ToAdd, IInv, TypeOK
<1>2. IInv' /\ Registered' = Registered
  BY AddPendingStep
<1>3. Top(t) \in Frame
  BY <1>1, InnermostCall
<1>4. f \in Frame /\ f.source = src /\ f.stage = "adding"
  BY <1>0, <1>1, <1>3 DEF Frame
<1>5. \E g \in Frame : SetTop(t, g) /\ g.source = src /\ g.stage # "looping"
  BY <1>1, <1>4
<1>6. src = Top(t).source /\ Top(t).stage # "looping"
  BY <1>0, <1>1
<1> QED
  BY <1>1, <1>2, <1>5, <1>6, ShortLoops

LEMMA RemovePendingRefines ==
  ASSUME IInv, NEW t \in Threads, RemovePending(t)
  PROVE  RegistryStep
<1>0. SUFFICES ASSUME NEW src, NEW f, src = Top(t).source,
                      f = [Top(t) EXCEPT !.next = @ + 1]
               PROVE  RegistryStep
  OBVIOUS
<1>1. /\ stack[t] # <<>> /\ Top(t).stage = "removing" /\ notifying[src] = 0
      /\ SetTop(t, f) /\ notifying' = notifying
      /\ \A any \in Sources \ {src} : sinks'[any] = sinks[any]
  BY <1>0 DEF RemovePending, In, IInv, TypeOK, StageShape, Progress
<1>2. IInv' /\ Registered' = Registered
  BY RemovePendingStep
<1>3. Top(t) \in Frame
  BY <1>1, InnermostCall
<1>4. f \in Frame /\ f.source = src /\ f.stage = "removing"
  BY <1>0, <1>1, <1>3 DEF Frame
<1>5. \E g \in Frame : SetTop(t, g) /\ g.source = src /\ g.stage # "looping"
  BY <1>1, <1>4
<1>6. src = Top(t).source /\ Top(t).stage # "looping"
  BY <1>0, <1>1
<1> QED
  BY <1>1, <1>2, <1>5, <1>6, ShortLoops

LEMMA LeaveRefines ==
  ASSUME IInv, NEW t \in Threads, Leave(t)
  PROVE  RegistryStep
<1>0. SUFFICES ASSUME NEW src, src = Top(t).source
               PROVE  RegistryStep
  OBVIOUS
<1>1. /\ stack[t] # <<>> /\ Top(t).stage # "looping" /\ notifying[src] = 0
      /\ Pop(t) /\ notifying' = notifying /\ sinks' = sinks
  BY <1>0 DEF Leave, In, IInv, StageShape, Progress
<1>2. IInv' /\ Registered' = Registered
  BY LeaveStep
<1>3. \A any \in Sources \ {src} : sinks'[any] = sinks[any]
  BY <1>1
<1> QED
  BY <1>0, <1>1, <1>2, <1>3, ShortLoops

\* A thread in a loop is counted.
LoopsCounted ==
    \A t \in Threads :
        stack[t] # <<>> /\ Top(t).stage = "looping" => notifying[Top(t).source] # 0

LEMMA Counted == IInv => LoopsCounted
BY InnermostCall DEF LoopsCounted

LEMMA CountedNext == IInv' => LoopsCounted'
BY Counted, PTL

\* ++_notifying: an outermost call addresses who is registered now, because
\* everything that was pending has been taken in.
LEMMA BeginRefines ==
  ASSUME IInv, AddingClean, NEW t \in Threads, BeginLoop(t)
  PROVE  RegistryStep
<1>0. SUFFICES ASSUME NEW src, NEW f, src = Top(t).source,
                      f = [Top(t) EXCEPT !.stage = "looping", !.next = 1,
                                         !.end = Len(sinks[src])]
               PROVE  RegistryStep
  OBVIOUS
<1>1. /\ stack[t] # <<>> /\ Top(t).stage = "adding" /\ SetTop(t, f)
      /\ notifying[src] = 0 => ~(Top(t).next <= Len(pendingRegisters[src]))
      /\ sinks' = sinks
  BY <1>0 DEF BeginLoop, In, ToAdd
<1>2. IInv' /\ Registered' = Registered
  BY BeginLoopStep
<1>3. Top(t) \in Frame /\ src \in Sources /\ Top(t).sink = NoSink /\ TypeOK
  BY <1>0, <1>1, InnermostCall DEF IInv
<1>4. Len(sinks[src]) \in Nat
  BY <1>3, LenProperties DEF TypeOK
<1>5. f \in Frame /\ f.source = src /\ f.stage = "looping" /\ f.next = 1 /\ f.sink = NoSink
  BY <1>0, <1>3, <1>4 DEF Frame, Stages
<1>6. /\ Rounds' = [Rounds EXCEPT ![src] = Append(Rounds[src], RoundOf(f))]
      /\ (Rounds[src] = <<>> <=> notifying[src] = 0)
  <2>1. src = Top(t).source /\ Top(t).stage # "looping"
    BY <1>0, <1>1
  <2> QED
    BY <1>1, <1>2, <1>5, <2>1, RoundBegins
<1>7. RoundOf(f) = [seen |-> {}, calling |-> NoSink]
  <2>1. 1..(f.next - 1) = {}
    BY <1>5
  <2> QED
    BY <1>5, <2>1 DEF RoundOf
<1>8. \A any \in Sources \ {src} : notifying'[any] = notifying[any]
  BY <1>0, <1>3 DEF BeginLoop, TypeOK
<1>9. notifying'[src] # 0
  <2>1. stack \in [Threads -> Seq(Frame)]
    BY <1>3 DEF TypeOK
  <2>2. stack'[t] # <<>> /\ Top(t)' = f
    BY <1>1, <1>5, <2>1, ReplaceTop
  <2> QED
    BY <1>2, <1>5, <2>2, CountedNext DEF LoopsCounted
<1>10. notifying[src] = 0 => ToSet(sinks[src]) = Registered[src]
  <2> SUFFICES ASSUME notifying[src] = 0 PROVE ToSet(sinks[src]) = Registered[src]
    OBVIOUS
  <2>1. pendingUnregisters[src] = <<>> /\ ToSet(<<>>) = {}
    BY <1>0, <1>1 DEF AddingClean, Clean, In, ToSet
  <2>2. /\ pendingRegisters[src] \in Seq(Sinks) /\ Top(t).next \in Nat
        /\ Progress(t)
    BY <1>3 DEF TypeOK, Frame, IInv, StageShape
  <2>3. /\ DOMAIN pendingRegisters[src] = 1..Len(pendingRegisters[src])
        /\ Len(pendingRegisters[src]) \in Nat
    BY <2>2, LenProperties
  <2>4. \A i \in DOMAIN pendingRegisters[src] : i \in 1..(Top(t).next - 1)
    BY <1>1, <2>2, <2>3
  <2>5. \A i \in DOMAIN pendingRegisters[src] :
            pendingRegisters[src][i] \in ToSet(sinks[src])
    BY <1>0, <1>1, <2>2, <2>4 DEF Progress, In
  <2>6. ToSet(pendingRegisters[src]) \subseteq ToSet(sinks[src])
    BY <2>5 DEF ToSet
  <2> QED
    BY <1>3, <2>1, <2>6 DEF Registered
<1>11. Base' = [Base EXCEPT ![src] =
                    IF Rounds[src] = <<>> THEN Registered[src] ELSE Base[src]]
  <2>1. \A any \in Sources \ {src} : Base'[any] = Base[any]
    BY <1>1, <1>8 DEF Base
  <2>2. Base'[src] = ToSet(sinks[src])
    BY <1>1, <1>3, <1>9 DEF Base
  <2>3. Base'[src] = IF Rounds[src] = <<>> THEN Registered[src] ELSE Base[src]
    BY <1>3, <1>6, <1>10, <2>2 DEF Base
  <2> QED
    BY <1>3, <2>1, <2>3, RegistryMaps, OneChanges
<1>12. Registry!Begin(src)
  BY <1>2, <1>6, <1>7, <1>11 DEF Registry!Begin
<1> QED
  BY <1>3, <1>12 DEF RegistryStep, Registry!RegistryNext

\* The element a turn of the loop is about lies inside the list.
LEMMA VisitedSink ==
  ASSUME IInv, NEW t \in Threads, stack[t] # <<>>, Top(t).stage = "looping",
         Top(t).next <= Top(t).end
  PROVE  /\ Top(t).next \in DOMAIN sinks[Top(t).source]
         /\ Top(t).end = Len(sinks[Top(t).source])
         /\ sinks[Top(t).source][Top(t).next] \in Sinks
<1>1. /\ Top(t) \in Frame /\ Top(t).source \in Sources
      /\ Len(stack[t]) \in LoopsOf(t, Top(t).source)
      /\ Top(t) = stack[t][Len(stack[t])] /\ FrameShape(t, Len(stack[t])) /\ TypeOK
  BY InnermostCall, TopFacts DEF LoopsOf, IInv, TypeOK
<1>2. Top(t).end = Len(sinks[Top(t).source])
  BY <1>1 DEF IInv, LoopsAgree
<1>3. Top(t).next \in Nat /\ Top(t).end \in Nat /\ Top(t).next >= 1
  BY <1>1 DEF Frame, FrameShape
<1>4. /\ sinks[Top(t).source] \in Seq(Sinks)
      /\ DOMAIN sinks[Top(t).source] = 1..Len(sinks[Top(t).source])
  BY <1>1, LenProperties DEF TypeOK
<1>5. Top(t).next \in DOMAIN sinks[Top(t).source]
  BY <1>2, <1>3, <1>4
<1> QED
  BY <1>2, <1>4, <1>5, ElementOfSeq

\* The next sink of the base: passed over just when it is not registered.
LEMMA VisitRefines ==
  ASSUME IInv, IInv', NEW t \in Threads, Visit(t)
  PROVE  RegistryStep
<1>0. SUFFICES ASSUME NEW src, NEW s, NEW v, NEW f, src = Top(t).source,
                      s = sinks[src][Top(t).next],
                      v = IF Contains(pendingUnregisters[src], s) THEN NoSink ELSE s,
                      f = [Top(t) EXCEPT !.next = @ + 1, !.sink = v]
               PROVE  RegistryStep
  OBVIOUS
<1>1. /\ stack[t] # <<>> /\ Top(t).stage = "looping" /\ Top(t).sink = NoSink
      /\ Top(t).next <= Top(t).end /\ SetTop(t, f)
      /\ UNCHANGED <<sinks, notifying>> /\ Registered' = Registered
  BY <1>0 DEF Visit, Looping, In, lists, Registered
<1>2. /\ Top(t) \in Frame /\ src \in Sources /\ notifying[src] # 0
      /\ Len(stack[t]) \in LoopsOf(t, src) /\ Top(t) = stack[t][Len(stack[t])]
      /\ FrameShape(t, Len(stack[t])) /\ TypeOK
  BY <1>0, <1>1, InnermostCall, TopFacts DEF LoopsOf, IInv, TypeOK
<1>3. Top(t).end = Len(sinks[src]) /\ Top(t).next \in DOMAIN sinks[src] /\ s \in Sinks
  BY <1>0, <1>1, VisitedSink
<1>4. Top(t).next \in Nat /\ Top(t).end \in Nat /\ Top(t).next >= 1
  BY <1>2 DEF Frame, FrameShape
<1>5. /\ sinks[src] \in Seq(Sinks) /\ pendingUnregisters[src] \in Seq(Sinks)
      /\ DOMAIN sinks[src] = 1..Len(sinks[src])
      /\ DOMAIN pendingUnregisters[src] = 1..Len(pendingUnregisters[src])
  BY <1>2, LenProperties DEF TypeOK
<1>6. Top(t).next \in DOMAIN sinks[src] /\ s \in Sinks /\ s \in ToSet(sinks[src])
  BY <1>0, <1>3 DEF ToSet
<1>7. /\ f \in Frame /\ f.source = src /\ f.stage = "looping"
      /\ f.next = Top(t).next + 1 /\ f.sink = v
  <2>1. v \in Sinks \cup {NoSink} /\ Top(t).next + 1 \in Nat
    BY <1>0, <1>4, <1>6
  <2> QED
    BY <1>0, <1>1, <1>2, <2>1 DEF Frame
<1>8. /\ Rounds[src] # <<>> /\ Registry!Innermost(src) = RoundOf(Top(t))
      /\ Registry!SetInnermost(src, RoundOf(f))
  <2>1. src = Top(t).source /\ sinks' = sinks
    BY <1>0, <1>1
  <2> QED
    BY <1>1, <1>7, <2>1, RoundTurns
<1>9. /\ RoundOf(Top(t)).seen = {sinks[src][i] : i \in 1..(Top(t).next - 1)}
      /\ RoundOf(Top(t)).calling = NoSink
  BY <1>0, <1>1 DEF RoundOf
<1>10. s \in Base[src] \ RoundOf(Top(t)).seen
  <2>1. s \in Base[src]
    BY <1>2, <1>6 DEF Base
  <2>2. ASSUME NEW i \in 1..(Top(t).next - 1) PROVE sinks[src][i] # s
    <3>1. i \in DOMAIN sinks[src] /\ i # Top(t).next
      BY <1>1, <1>3, <1>4, <1>5
    <3>2. IsInjective(sinks[src])
      BY <1>2 DEF IInv, ListsConsistent
    <3> QED
      BY <1>0, <1>6, <3>1, <3>2 DEF IsInjective
  <2> QED
    BY <1>9, <2>1, <2>2
<1>11. s \in Registered[src] <=> ~Contains(pendingUnregisters[src], s)
  <2>1. Contains(pendingUnregisters[src], s) <=> s \in ToSet(pendingUnregisters[src])
    BY <1>5 DEF Contains, ToSet
  <2> QED
    BY <1>2, <1>6, <2>1 DEF Registered
<1>12. RoundOf(f) = [seen    |-> RoundOf(Top(t)).seen \cup {s},
                     calling |-> IF s \in Registered[src] THEN s ELSE NoSink]
  <2>1. 1..(f.next - 1) = (1..(Top(t).next - 1)) \cup {Top(t).next}
    BY <1>4, <1>7
  <2>2. {sinks[src][i] : i \in 1..(f.next - 1)} = RoundOf(Top(t)).seen \cup {s}
    BY <1>0, <1>9, <2>1
  <2>3. v = IF s \in Registered[src] THEN s ELSE NoSink
    BY <1>0, <1>11
  <2> QED
    BY <1>7, <2>2, <2>3 DEF RoundOf
<1>13. Base' = Base
  BY <1>1, BaseKept
<1>14. Registry!Address(src, s)
  BY <1>1, <1>8, <1>9, <1>10, <1>12, <1>13 DEF Registry!Address
<1> QED
  BY <1>2, <1>6, <1>14 DEF RegistryStep, Registry!RegistryNext

\* A callback returns: the round stays where it is and calls nobody.
LEMMA CallbackReturns ==
  ASSUME IInv, IInv', NEW t \in Threads, stack[t] # <<>>, Top(t).sink # NoSink,
         NEW src, src = Top(t).source, notifying' = notifying, sinks' = sinks,
         SetTop(t, [Top(t) EXCEPT !.sink = NoSink])
  PROVE  /\ src \in Sources /\ Base' = Base /\ Rounds[src] # <<>>
         /\ Registry!Innermost(src).calling = Top(t).sink
         /\ Registry!SetInnermost(src, [Registry!Innermost(src) EXCEPT !.calling = NoSink])
<1>0. SUFFICES ASSUME NEW f, f = [Top(t) EXCEPT !.sink = NoSink]
               PROVE  /\ src \in Sources /\ Base' = Base /\ Rounds[src] # <<>>
                      /\ Registry!Innermost(src).calling = Top(t).sink
                      /\ Registry!SetInnermost(src,
                             [Registry!Innermost(src) EXCEPT !.calling = NoSink])
  OBVIOUS
<1>1. Top(t) \in Frame /\ src \in Sources /\ Top(t).stage = "looping"
  BY InnermostCall
<1>2. /\ f \in Frame /\ f.source = src /\ f.stage = "looping"
      /\ f.next = Top(t).next /\ f.sink = NoSink /\ SetTop(t, f)
  BY <1>0, <1>1 DEF Frame
<1>3. /\ Rounds[src] # <<>> /\ Registry!Innermost(src) = RoundOf(Top(t))
      /\ Registry!SetInnermost(src, RoundOf(f))
  BY <1>1, <1>2, RoundTurns
<1>4. RoundOf(f) = [RoundOf(Top(t)) EXCEPT !.calling = NoSink]
  <2>1. PICK gone : gone = {sinks[src][i] : i \in 1..(Top(t).next - 1)}
    OBVIOUS
  <2>2. RoundOf(Top(t)) = [seen |-> gone, calling |-> Top(t).sink]
    BY <2>1 DEF RoundOf
  <2>3. RoundOf(f) = [seen |-> gone, calling |-> NoSink]
    BY <1>2, <2>1 DEF RoundOf
  <2> QED
    BY <2>2, <2>3
<1>5. RoundOf(Top(t)).calling = Top(t).sink
  BY DEF RoundOf
<1>6. Base' = Base
  BY BaseKept
<1> QED
  BY <1>1, <1>3, <1>4, <1>5, <1>6

LEMMA ContinueRefines ==
  ASSUME IInv, IInv', NEW t \in Threads, Continue(t)
  PROVE  RegistryStep
<1>1. /\ stack[t] # <<>> /\ Top(t).sink # NoSink
      /\ SetTop(t, [Top(t) EXCEPT !.sink = NoSink])
      /\ notifying' = notifying /\ sinks' = sinks /\ Registered' = Registered
  BY DEF Continue, InCallback, lists, Registered
<1>2. PICK src : src = Top(t).source
  OBVIOUS
<1>3. /\ src \in Sources /\ Base' = Base /\ Rounds[src] # <<>>
      /\ Registry!Innermost(src).calling = Top(t).sink
      /\ Registry!SetInnermost(src, [Registry!Innermost(src) EXCEPT !.calling = NoSink])
  BY <1>1, <1>2, CallbackReturns
<1>4. Registry!Resume(src)
  BY <1>1, <1>3 DEF Registry!Resume
<1> QED
  BY <1>3, <1>4 DEF RegistryStep, Registry!RegistryNext

LEMMA DieRefines ==
  ASSUME IInv, IInv', NEW t \in Threads, Die(t)
  PROVE  RegistryStep
<1>0. SUFFICES ASSUME NEW src, NEW s, src = Top(t).source, s = Top(t).sink
               PROVE  RegistryStep
  OBVIOUS
<1>1. /\ stack[t] # <<>> /\ s # NoSink /\ s \in Mortal /\ Drop(src, s)
      /\ SetTop(t, [Top(t) EXCEPT !.sink = NoSink]) /\ notifying' = notifying
  BY <1>0 DEF Die, InCallback, Drop
<1>2. /\ src \in Sources /\ notifying[src] # 0 /\ LockFree(t, src)
      /\ s \in Sinks /\ Top(t).sink \in Sinks
  BY <1>0, <1>1, InnermostCall, EventSourceAssumption DEF LockFree
<1>3. sinks' = sinks
  BY <1>1, <1>2 DEF Drop
<1>4. \A any \in Sources :
          Registered'[any] = IF any = src THEN Registered[any] \ {s}
                                          ELSE Registered[any]
  <2>1. LockFree(t, src) /\ Drop(src, s)
    BY <1>1, <1>2
  <2>2. src \in Sources /\ s \in Sinks /\ (stack[t] # <<>> => Top(t).sink \in Sinks)
    BY <1>2
  <2> QED
    BY <2>1, <2>2, DropEffect
<1>5. Registered' = [Registered EXCEPT ![src] = Registered[src] \ {s}]
  <2>1. /\ \A any \in Sources \ {src} : Registered'[any] = Registered[any]
        /\ Registered'[src] = Registered[src] \ {s}
    BY <1>2, <1>4
  <2> QED
    BY <1>2, <2>1, RegistryMaps, OneChanges
<1>6. /\ Base' = Base /\ Rounds[src] # <<>>
      /\ Registry!Innermost(src).calling = s
      /\ Registry!SetInnermost(src, [Registry!Innermost(src) EXCEPT !.calling = NoSink])
  BY <1>0, <1>1, <1>3, CallbackReturns
<1>7. Registry!Retire(src)
  BY <1>1, <1>5, <1>6 DEF Registry!Retire
<1> QED
  BY <1>2, <1>7 DEF RegistryStep, Registry!RegistryNext

\* _notifying--: the round ends with its sink's kStop, or has gone past every
\* sink of the base.
LEMMA EndRefines ==
  ASSUME IInv, IInv', NEW t \in Threads, stack[t] # <<>>, Top(t).stage = "looping",
         Top(t).sink # NoSink \/ Top(t).next > Top(t).end, EndLoop(t)
  PROVE  RegistryStep
<1>0. SUFFICES ASSUME NEW src, NEW f, src = Top(t).source,
                      f = [Top(t) EXCEPT !.stage = "removing", !.next = 1,
                                         !.sink = NoSink]
               PROVE  RegistryStep
  OBVIOUS
<1>1. /\ notifying' = [notifying EXCEPT ![src] =
             IF @ = 0 THEN NotifyModulus - 1 ELSE @ - 1]
      /\ SetTop(t, f) \/ Pop(t)
      /\ sinks' = sinks /\ Registered' = Registered
  BY <1>0 DEF EndLoop, Registered
<1>2. /\ Top(t) \in Frame /\ src \in Sources /\ notifying[src] # 0
      /\ Len(stack[t]) \in LoopsOf(t, src) /\ Top(t) = stack[t][Len(stack[t])]
      /\ TypeOK
  BY <1>0, InnermostCall, TopFacts DEF LoopsOf, IInv, TypeOK
<1>3. f \in Frame /\ f.source = src /\ f.stage # "looping"
  BY <1>0, <1>2 DEF Frame, Stages
<1>4. /\ Rounds[src] # <<>> /\ Registry!Innermost(src) = RoundOf(Top(t))
      /\ Rounds' = [Rounds EXCEPT ![src] = Front(Rounds[src])]
      /\ (Len(Rounds[src]) = 1 <=> notifying[src] = 1)
  <2>1. Pop(t) \/ \E g \in Frame : SetTop(t, g) /\ g.source = src /\ g.stage # "looping"
    BY <1>1, <1>3
  <2>2. src = Top(t).source /\ sinks' = sinks
    BY <1>0, <1>1
  <2> QED
    BY <2>1, <2>2, RoundEnds
<1>5. RoundOf(Top(t)).calling # NoSink \/ Base[src] \subseteq RoundOf(Top(t)).seen
  <2>1. CASE Top(t).sink # NoSink
    BY <2>1 DEF RoundOf
  <2>2. CASE Top(t).next > Top(t).end
    <3>1. Top(t).end = Len(sinks[src])
      BY <1>2 DEF IInv, LoopsAgree
    <3>2. /\ sinks[src] \in Seq(Sinks) /\ DOMAIN sinks[src] = 1..Len(sinks[src])
          /\ Len(sinks[src]) \in Nat /\ Top(t).next \in Nat
      BY <1>2, LenProperties DEF TypeOK, Frame
    <3>3. \A i \in DOMAIN sinks[src] : i \in 1..(Top(t).next - 1)
      BY <2>2, <3>1, <3>2
    <3>4. ToSet(sinks[src]) \subseteq {sinks[src][i] : i \in 1..(Top(t).next - 1)}
      BY <3>3 DEF ToSet
    <3>5. Base[src] \subseteq ToSet(sinks[src])
      BY <1>2 DEF Base
    <3> QED
      BY <1>0, <3>4, <3>5 DEF RoundOf
  <2> QED
    BY <2>1, <2>2
<1>6. Base' = [Base EXCEPT ![src] = IF Len(Rounds[src]) = 1 THEN {} ELSE Base[src]]
  <2>1. notifying[src] \in Nat /\ notifying'[src] = notifying[src] - 1
    BY <1>1, <1>2 DEF TypeOK
  <2>2. notifying'[src] = 0 <=> Len(Rounds[src]) = 1
    BY <1>4, <2>1
  <2>3. \A any \in Sources \ {src} : Base'[any] = Base[any]
    BY <1>1, <1>2 DEF Base, TypeOK
  <2>4. Base'[src] = IF Len(Rounds[src]) = 1 THEN {} ELSE Base[src]
    BY <1>1, <1>2, <2>2 DEF Base
  <2> QED
    BY <1>2, <2>3, <2>4, RegistryMaps, OneChanges
<1>7. Registry!End(src)
  BY <1>1, <1>4, <1>5, <1>6 DEF Registry!End, Registry!Front, Front
<1> QED
  BY <1>2, <1>7 DEF RegistryStep, Registry!RegistryNext

-----------------------------------------------------------------------------
\* AddingClean is kept by what another thread does inside its own source or
\* with a source that nobody else is inside, ...
LEMMA CleanKept ==
  ASSUME IInv, AddingClean, NEW t \in Threads, NEW src \in Sources,
         \A u \in Threads \ {t} : stack'[u] = stack[u] /\ FramesOf(u, src) = {},
         \A any \in Sources \ {src} :
             /\ notifying'[any] = notifying[any]
             /\ pendingUnregisters'[any] = pendingUnregisters[any],
         Clean(t)'
  PROVE  AddingClean'
<1>1. ASSUME NEW u \in Threads \ {t}
      PROVE  Clean(u)'
  <2>1. CASE stack[u] = <<>>
    BY <2>1 DEF Clean, In
  <2>2. CASE stack[u] # <<>>
    <3>1. Top(u).source \in Sources /\ FramesOf(u, Top(u).source) # {}
      BY <2>2, InnermostCall
    <3>2. Top(u).source \in Sources \ {src}
      BY <3>1
    <3>3. Clean(u)
      BY DEF AddingClean, Clean
    <3>4. Top(u)' = Top(u) /\ In(u, "adding")' = In(u, "adding")
      BY DEF Top, In
    <3> QED
      BY <3>2, <3>3, <3>4 DEF Clean
  <2> QED
    BY <2>1, <2>2
<1> QED
  BY <1>1 DEF AddingClean, Clean

\* A call that returns gets back to a callback, ...
LEMMA OutOfTheFirstLoop ==
  ASSUME IInv, NEW t \in Threads, stack[t] # <<>>, Pop(t)
  PROVE  ~In(t, "adding")'
<1>1. stack \in [Threads -> Seq(Frame)]
  BY DEF IInv, TypeOK
<1>2. CASE stack'[t] = <<>>
  BY <1>2 DEF In
<1>3. CASE stack'[t] # <<>>
  <2>1. /\ Len(stack[t]) > 1 /\ Top(t)' = stack[t][Len(stack[t]) - 1]
        /\ Len(stack[t]) \in Nat /\ DOMAIN stack[t] = 1..Len(stack[t])
    BY <1>1, <1>3, PopFrame, TopFacts
  <2>2. Len(stack[t]) - 1 \in DOMAIN stack[t] /\ Len(stack[t]) - 1 < Len(stack[t])
    BY <2>1
  <2>3. FrameShape(t, Len(stack[t]) - 1)
    BY <2>2 DEF IInv, StackShape
  <2>4. Top(t)'.stage = "looping"
    BY <2>1, <2>2, <2>3, EventSourceAssumption DEF FrameShape
  <2> QED
    BY <2>4 DEF In
<1> QED
  BY <1>2, <1>3

\* ... and by a step of t that leaves it outside the first loop, or changes
\* nothing there.
LEMMA CleanStep ==
  ASSUME IInv, AddingClean, [Next]_vars
  PROVE  AddingClean'
<1>1. TypeOK /\ stack \in [Threads -> Seq(Frame)]
  BY DEF IInv, TypeOK
<1>2. CASE UNCHANGED <<lists, stack>>
  BY <1>2 DEF AddingClean, Clean, In, Top, lists
<1>3. ASSUME NEW t \in Threads, Notify(t)
      PROVE  AddingClean'
  <2>0. SUFFICES ASSUME NEW src, NEW f, src = request[t].source,
                        f = [source |-> src, stage |-> "adding",
                             next |-> 1, end |-> 0, sink |-> NoSink]
                 PROVE  AddingClean'
    OBVIOUS
  <2>1. /\ request[t] # NoCall /\ LockFree(t, src) /\ CallShape(t)
        /\ stack' = [stack EXCEPT ![t] = Append(@, f)]
        /\ notifying' = notifying /\ pendingUnregisters' = pendingUnregisters
    BY <1>3, <2>0 DEF Notify, Enter, lists, IInv, RequestShape
  <2>2. src \in Sources /\ (stack[t] # <<>> => Top(t).sink \in Sinks)
    BY <1>1, <2>0, <2>1 DEF TypeOK, Call, CallShape
  <2>3. f \in Frame /\ f.source = src
    BY <2>0, <2>2 DEF Frame, Stages
  <2>4. Top(t)' = f /\ \A u \in Threads \ {t} : stack'[u] = stack[u]
    BY <1>1, <2>1, <2>3, PushFrame
  <2>5. notifying[src] = 0 => pendingUnregisters[src] = <<>>
    <3>1. notifying[src] = 0 => \A u \in Threads : FramesOf(u, src) = {}
      BY <2>1, <2>2, Quiet
    <3> QED
      BY <2>2, <3>1 DEF IInv, LoopsAgree
  <2>6. Clean(t)'
    BY <2>1, <2>3, <2>4, <2>5 DEF Clean
  <2>7. \A u \in Threads \ {t} : FramesOf(u, src) = {}
    BY <2>1 DEF LockFree
  <2> QED
    BY <2>1, <2>2, <2>4, <2>6, <2>7, CleanKept
<1>4. ASSUME NEW t \in Threads, NEW src \in Sources, NEW s,
             Add(src, s) \/ Drop(src, s), LockFree(t, src),
             stack' = stack, stack[t] # <<>> => Top(t).sink \in Sinks
      PROVE  AddingClean'
  <2>1. \A any \in Sources \ {src} :
            /\ notifying'[any] = notifying[any]
            /\ pendingUnregisters'[any] = pendingUnregisters[any]
    BY <1>1, <1>4 DEF Add, Drop, TypeOK
  <2>2. ~In(t, "adding")
    BY <1>4, InnermostCall, EventSourceAssumption DEF In
  <2>3. Clean(t)'
    BY <1>4, <2>2 DEF Clean, In, Top
  <2>4. \A u \in Threads \ {t} : stack'[u] = stack[u] /\ FramesOf(u, src) = {}
    BY <1>4 DEF LockFree
  <2> QED
    BY <2>1, <2>3, <2>4, CleanKept
<1>5. ASSUME NEW t \in Threads,
             RegisterSink(t) \/ UnregisterSink(t) \/ Construct(t)
      PROVE  AddingClean'
  <2>1. PICK src, s : src = request[t].source /\ s = request[t].sink
    OBVIOUS
  <2>2. /\ request[t] # NoCall /\ LockFree(t, src) /\ stack' = stack /\ CallShape(t)
        /\ Add(src, s) \/ Drop(src, s)
    BY <1>5, <2>1 DEF RegisterSink, UnregisterSink, Construct, Enter, IInv, RequestShape
  <2>3. src \in Sources /\ (stack[t] # <<>> => Top(t).sink \in Sinks)
    BY <1>1, <2>1, <2>2 DEF TypeOK, Call, CallShape
  <2> QED
    BY <1>4, <2>2, <2>3
<1>6. ASSUME NEW t \in Threads, stack[t] # <<>>, NEW src, src = Top(t).source,
             \/ Pop(t)
             \/ \E f \in Frame :
                    /\ SetTop(t, f)
                    /\ f.source = src
                    /\ f.stage = "adding" =>
                           /\ Top(t).stage = "adding" /\ notifying' = notifying
                           /\ pendingUnregisters' = pendingUnregisters,
             \A any \in Sources \ {src} :
                 /\ notifying'[any] = notifying[any]
                 /\ pendingUnregisters'[any] = pendingUnregisters[any]
      PROVE  AddingClean'
  <2>1. /\ src \in Sources
        /\ \A u \in Threads \ {t} : FramesOf(u, src) = {}
    BY <1>6, InnermostCall
  <2>2. CASE Pop(t)
    <3>1. ~In(t, "adding")'
      BY <1>6, <2>2, OutOfTheFirstLoop
    <3>2. \A u \in Threads \ {t} : stack'[u] = stack[u]
      BY <1>1, <1>6, <2>2, PopFrame
    <3>3. Clean(t)'
      BY <3>1 DEF Clean
    <3> QED
      BY <1>6, <2>1, <3>2, <3>3, CleanKept
  <2>3. ASSUME NEW f \in Frame, SetTop(t, f), f.source = src,
               f.stage = "adding" =>
                   /\ Top(t).stage = "adding" /\ notifying' = notifying
                   /\ pendingUnregisters' = pendingUnregisters
        PROVE  AddingClean'
    <3>1. Top(t)' = f /\ \A u \in Threads \ {t} : stack'[u] = stack[u]
      BY <1>1, <1>6, <2>3, ReplaceTop
    <3>2. Clean(t)
      BY DEF AddingClean, Clean
    <3>3. Clean(t)'
      BY <1>6, <2>3, <3>1, <3>2 DEF Clean, In
    <3> QED
      BY <1>6, <2>1, <3>1, <3>3, CleanKept
  <2> QED
    BY <1>6, <2>2, <2>3
<1>7. ASSUME NEW t \in Threads,
             \/ AddPending(t) \/ BeginLoop(t) \/ Visit(t) \/ Continue(t)
             \/ Die(t) \/ Finish(t) \/ Stop(t) \/ RemovePending(t) \/ Leave(t)
      PROVE  AddingClean'
  <2>1. stack[t] # <<>>
    BY <1>7 DEF AddPending, BeginLoop, Visit, Looping, Continue, Die, Finish, Stop,
                RemovePending, Leave, In, InCallback
  <2>2. /\ Top(t) \in Frame /\ Top(t).source \in Sources /\ TypeOK
        /\ (Top(t).sink # NoSink => Top(t).stage = "looping")
    BY <2>1, InnermostCall DEF IInv
  <2>3. \A any \in Sources \ {Top(t).source} :
            /\ notifying'[any] = notifying[any]
            /\ pendingUnregisters'[any] = pendingUnregisters[any]
    <3>1. CASE AddPending(t) \/ BeginLoop(t) \/ RemovePending(t) \/ Leave(t)
      BY <2>2, <3>1 DEF AddPending, BeginLoop, RemovePending, Leave, TypeOK
    <3>2. CASE Visit(t) \/ Continue(t)
      BY <3>2 DEF Visit, Continue, lists
    <3>3. CASE Die(t)
      BY <2>2, <3>3 DEF Die, Drop, TypeOK
    <3>4. CASE Finish(t) \/ Stop(t)
      BY <2>2, <3>4 DEF Finish, Stop, EndLoop, TypeOK
    <3> QED
      BY <1>7, <3>1, <3>2, <3>3, <3>4
  <2>4. \/ Pop(t)
        \/ \E f \in Frame :
               /\ SetTop(t, f)
               /\ f.source = Top(t).source
               /\ f.stage = "adding" =>
                      /\ Top(t).stage = "adding" /\ notifying' = notifying
                      /\ pendingUnregisters' = pendingUnregisters
    <3>1. CASE AddPending(t)
      <4>1. SetTop(t, [Top(t) EXCEPT !.next = @ + 1]) /\ Top(t).stage = "adding"
            /\ notifying' = notifying /\ pendingUnregisters' = pendingUnregisters
        BY <3>1 DEF AddPending, In
      <4>2. /\ [Top(t) EXCEPT !.next = @ + 1] \in Frame
            /\ [Top(t) EXCEPT !.next = @ + 1].source = Top(t).source
        BY <2>2 DEF Frame
      <4> QED
        BY <4>1, <4>2
    <3>2. CASE BeginLoop(t) \/ Visit(t) \/ Continue(t) \/ Die(t)
      <4>1. PICK f : /\ SetTop(t, f) /\ f \in Frame
                     /\ f.source = Top(t).source /\ f.stage = "looping"
        <5>1. CASE BeginLoop(t)
          <6> DEFINE g == [Top(t) EXCEPT !.stage = "looping", !.next = 1,
                                         !.end = Len(sinks[Top(t).source])]
          <6>1. Len(sinks[Top(t).source]) \in Nat
            BY <2>2, LenProperties DEF TypeOK
          <6>2. g \in Frame /\ g.source = Top(t).source /\ g.stage = "looping"
            BY <2>2, <6>1 DEF Frame, Stages
          <6>3. SetTop(t, g)
            BY <5>1 DEF BeginLoop
          <6> HIDE DEF g
          <6> QED
            BY <6>2, <6>3
        <5>2. CASE Continue(t) \/ Die(t)
          <6> DEFINE g == [Top(t) EXCEPT !.sink = NoSink]
          <6>1. SetTop(t, g) /\ Top(t).stage = "looping"
            BY <2>2, <5>2 DEF Continue, Die, InCallback
          <6>2. g \in Frame /\ g.source = Top(t).source /\ g.stage = "looping"
            BY <2>2, <6>1 DEF Frame
          <6> HIDE DEF g
          <6> QED
            BY <6>1, <6>2
        <5>3. CASE Visit(t)
          <6>1. PICK s : s = sinks[Top(t).source][Top(t).next]
            OBVIOUS
          <6>2. PICK v : v = IF Contains(pendingUnregisters[Top(t).source], s)
                             THEN NoSink ELSE s
            OBVIOUS
          <6> DEFINE g == [Top(t) EXCEPT !.next = @ + 1, !.sink = v]
          <6>3. SetTop(t, g) /\ Top(t).stage = "looping"
            BY <5>3, <6>1, <6>2 DEF Visit, Looping, In
          <6>5. v \in Sinks \cup {NoSink}
            <7>1. Top(t).next <= Top(t).end /\ Top(t).stage = "looping"
              BY <5>3 DEF Visit, Looping, In
            <7> QED
              BY <2>1, <6>1, <6>2, <7>1, VisitedSink
          <6>6. g \in Frame /\ g.source = Top(t).source /\ g.stage = "looping"
            <7>1. Top(t).next + 1 \in Nat
              BY <2>2 DEF Frame
            <7> QED
              BY <2>2, <6>3, <6>5, <7>1 DEF Frame
          <6> HIDE DEF g
          <6> QED
            BY <6>3, <6>6
        <5> QED
          BY <3>2, <5>1, <5>2, <5>3
      <4> QED
        BY <4>1
    <3>3. CASE Finish(t) \/ Stop(t)
      <4> DEFINE g == [Top(t) EXCEPT !.stage = "removing", !.next = 1, !.sink = NoSink]
      <4>1. g \in Frame /\ g.source = Top(t).source /\ g.stage = "removing"
        BY <2>2 DEF Frame, Stages
      <4>2. SetTop(t, g) \/ Pop(t)
        BY <3>3 DEF Finish, Stop, EndLoop
      <4> HIDE DEF g
      <4> QED
        BY <4>1, <4>2
    <3>4. CASE RemovePending(t)
      <4> DEFINE g == [Top(t) EXCEPT !.next = @ + 1]
      <4>1. SetTop(t, g) /\ Top(t).stage = "removing"
        BY <3>4 DEF RemovePending, In
      <4>2. g \in Frame /\ g.source = Top(t).source /\ g.stage = "removing"
        BY <2>2, <4>1 DEF Frame
      <4> HIDE DEF g
      <4> QED
        BY <4>1, <4>2
    <3>5. CASE Leave(t)
      BY <3>5 DEF Leave
    <3> QED
      BY <1>7, <3>1, <3>2, <3>3, <3>4, <3>5
  <2> QED
    BY <1>6, <2>1, <2>3, <2>4
<1>8. ASSUME NEW t \in Threads, (\E call \in Call : Request(t, call)) \/ IgnoreNull(t)
      PROVE  UNCHANGED <<lists, stack>>
  BY <1>8 DEF Request, IgnoreNull
<1>9. UNCHANGED vars => UNCHANGED <<lists, stack>>
  BY DEF vars
<1> QED
  BY <1>2, <1>3, <1>5, <1>7, <1>8, <1>9 DEF Next, Run, Return

-----------------------------------------------------------------------------
LEMMA InitRefines == Init => Registry!RegistryInit /\ AddingClean
<1> SUFFICES ASSUME Init PROVE Registry!RegistryInit /\ AddingClean
  OBVIOUS
<1>1. /\ \A src \in Sources : Registered[src] = {} /\ Base[src] = {}
      /\ AddingClean
  BY DEF Init, Registered, Base, ToSet, AddingClean, Clean, In
<1>2. ASSUME NEW src \in Sources
      PROVE  Rounds[src] = <<>>
  <2>1. \A t \in Threads : LoopsOf(t, src) = {}
    BY DEF Init, LoopsOf, FramesOf
  <2> QED
    BY <2>1, InitIInv, RoundsKnown DEF RoundsShape
<1>3. /\ Registered = [src \in Sources |-> {}]
      /\ Base = [src \in Sources |-> {}]
      /\ Rounds = [src \in Sources |-> <<>>]
  BY <1>1, <1>2, RegistryMaps DEF IsMap
<1> QED
  BY <1>1, <1>3 DEF Registry!RegistryInit

LEMMA StepRefines ==
  ASSUME IInv, AddingClean, [Next]_vars
  PROVE  RegistryStep
<1>1. IInv'
  BY NextIInv
<1>2. CASE UNCHANGED vars
  BY <1>1, <1>2, RequestRefines DEF vars
<1>3. ASSUME NEW t \in Threads, (\E call \in Call : Request(t, call)) \/ IgnoreNull(t)
      PROVE  RegistryStep
  BY <1>1, <1>3, RequestRefines DEF Request, IgnoreNull
<1>4. ASSUME NEW t \in Threads, Finish(t)
      PROVE  RegistryStep
  BY <1>1, <1>4, EndRefines DEF Finish, Looping, In
<1>5. ASSUME NEW t \in Threads, Stop(t)
      PROVE  RegistryStep
  <2>1. stack[t] # <<>> /\ Top(t).sink # NoSink /\ EndLoop(t)
    BY <1>5 DEF Stop, InCallback
  <2>2. Top(t).stage = "looping"
    BY <2>1, InnermostCall
  <2> QED
    BY <1>1, <2>1, <2>2, EndRefines
<1>6. ASSUME NEW t \in Threads, Run(t)
      PROVE  RegistryStep
  BY <1>1, <1>3, <1>4, <1>6, NotifyRefines, AddPendingRefines, BeginRefines,
     VisitRefines, DieRefines, RemovePendingRefines, LeaveRefines, RegisterRefines,
     UnregisterRefines DEF Run
<1>7. ASSUME NEW t \in Threads, Return(t)
      PROVE  RegistryStep
  BY <1>1, <1>5, <1>7, ContinueRefines DEF Return
<1> QED
  BY <1>2, <1>3, <1>6, <1>7 DEF Next

\* An outermost Notify never takes registrations in while an unregistration
\* is still pending, so that nobody who has unregistered comes back.
THEOREM AddingStaysClean == Spec => []AddingClean
<1>1. Init => AddingClean
  BY InitRefines
<1>2. IInv /\ AddingClean /\ [Next]_vars => AddingClean'
  BY CleanStep
<1> QED
  BY <1>1, <1>2, SpecIInv, PTL DEF Spec

\* A source behaves as a registry in which every RegisterSink and
\* UnregisterSink takes effect at once, for any nesting of notifications and
\* any threads: the pending lists never show.
THEOREM SourceRefines == Spec => ImplementsRegistry
<1>1. Init => Registry!RegistryInit
  BY InitRefines
<1>2. IInv /\ AddingClean /\ [Next]_vars => [Registry!RegistryNext]_(Registry!registryVars)
  BY StepRefines DEF RegistryStep
<1> QED
  BY <1>1, <1>2, SpecIInv, AddingStaysClean, PTL
  DEF Spec, ImplementsRegistry, Registry!RegistrySpec
=============================================================================
