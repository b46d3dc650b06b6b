------------------------ MODULE ReadWriteLockProofs ------------------------
(***************************************************************************)
(* A writer of BSReadWriteLock is alone, for any number of threads and any *)
(* nesting of read and write scopes, and the lock implements SharedMutex.  *)
(***************************************************************************)
EXTENDS ReadWriteLock, SequenceTheorems, FiniteSetTheorems, TLAPS

-----------------------------------------------------------------------------
(* The inductive invariant.                                                *)

Entering(t) == pc[t] = "publish"

\* What each program counter says of the scopes of the thread that is there.
LabelsAgree ==
    \A t \in Threads :
        /\ pc[t] \in {"spin", "reenter"} => Len(scopes[t]) < MaxDepth
        /\ pc[t] = "spin" => ~Writing(t)
        /\ pc[t] = "reenter" => Writing(t)
        /\ pc[t] = "publish" => wanted[t] = "write"
        /\ pc[t] \in {"disown", "free"} => Writing(t) /\ Len(scopes[t]) = 1
        /\ pc[t] = "countdown" => Writing(t) /\ Len(scopes[t]) > 1

\* A writer's first scope is a write scope, so it stays the writer until it
\* closes that one; until it erases its id in unlock_write(), _writerThread
\* names it.
WriterKnown ==
    \A t \in Threads :
        /\ Writing(t) => scopes[t][1] = "write"
        /\ writerThread = t <=> Writing(t) /\ pc[t] # "free"

\* Nobody has a scope while a writer enters, and the writer enters alone.
EntersAlone ==
    \A t \in Threads : Entering(t) =>
        \A u \in Threads : scopes[u] = <<>> /\ (Entering(u) => u = t)

\* The word, in the three states of the lock.
Word ==
    /\ (\A t \in Threads : ~Writing(t) /\ ~Entering(t))
           => lock = Cardinality(OpenScopes)
    /\ \A t \in Threads : Entering(t) => lock = WriterBit + 1
    /\ \A t \in Threads : Writing(t) => lock = WriterBit + Cardinality(OpenScopes)

IInv == TypeOK /\ LabelsAgree /\ WriterKnown /\ EntersAlone /\ WriterAlone /\ Word

-----------------------------------------------------------------------------
(* Facts about the open scopes.                                            *)

LEMMA ConstantFacts ==
  /\ Cardinality(Threads) \in Nat /\ MaxDepth \in Nat \ {0}
  /\ WriterBit \in Nat \ {0} /\ NoThread \notin Threads
<1>1. Cardinality(Threads) \in Nat
  BY ReadWriteLockAssumption, FS_CardinalityType
<1>2. \A m, n \in Nat : m * n >= 0
  OBVIOUS
<1> QED
  BY <1>1, <1>2, ReadWriteLockAssumption

LEMMA LenNat ==
  ASSUME scopes \in [Threads -> Seq(Modes)], NEW t \in Threads
  PROVE  /\ Len(scopes[t]) \in Nat
         /\ DOMAIN scopes[t] = 1..Len(scopes[t])
         /\ scopes[t] = <<>> <=> Len(scopes[t]) = 0
         /\ \A i \in 1..Len(scopes[t]) : scopes[t][i] \in Modes
BY LenProperties, ElementOfSeq, EmptySeq

LEMMA OpenFinite == IsFiniteSet(OpenScopes) /\ Cardinality(OpenScopes) \in Nat
<1>1. IsFiniteSet(1..MaxDepth)
  BY ConstantFacts, FS_Interval
<1>2. IsFiniteSet(Threads \X (1..MaxDepth))
  BY <1>1, ReadWriteLockAssumption, FS_Product
<1>3. OpenScopes \in SUBSET (Threads \X (1..MaxDepth))
  BY DEF OpenScopes
<1> QED
  BY <1>2, <1>3, FS_Subset, FS_CardinalityType

\* What an automatic lock does when it is constructed.
LEMMA OpenFacts ==
  ASSUME TypeOK, NEW t \in Threads, NEW mode \in Modes,
         Len(scopes[t]) < MaxDepth, Open(t, mode)
  PROVE  /\ scopes' \in [Threads -> Seq(Modes)]
         /\ \A u \in Threads : Len(scopes'[u]) <= MaxDepth
         /\ \A u \in Threads \ {t} : scopes'[u] = scopes[u]
         /\ Len(scopes'[t]) = Len(scopes[t]) + 1
         /\ \A i \in 1..Len(scopes[t]) : scopes'[t][i] = scopes[t][i]
         /\ scopes'[t][Len(scopes[t]) + 1] = mode
         /\ Cardinality(OpenScopes') = Cardinality(OpenScopes) + 1
<1>1. /\ scopes \in [Threads -> Seq(Modes)]
      /\ scopes' = [scopes EXCEPT ![t] = Append(@, mode)]
  BY DEF TypeOK, Open
<1>2. /\ scopes'[t] = Append(scopes[t], mode)
      /\ \A u \in Threads \ {t} : scopes'[u] = scopes[u]
  BY <1>1
<1>3. /\ scopes'[t] \in Seq(Modes)
      /\ Len(scopes'[t]) = Len(scopes[t]) + 1
      /\ \A i \in 1..Len(scopes[t]) : scopes'[t][i] = scopes[t][i]
      /\ scopes'[t][Len(scopes[t]) + 1] = mode
  BY <1>1, <1>2, AppendProperties
<1>4. scopes' \in [Threads -> Seq(Modes)]
  BY <1>1, <1>3
<1>5. \A u \in Threads : Len(scopes[u]) \in Nat /\ Len(scopes[u]) <= MaxDepth
  BY <1>1, LenNat DEF TypeOK
<1>6. \A u \in Threads : Len(scopes'[u]) <= MaxDepth
  BY <1>2, <1>3, <1>5, ConstantFacts
<1>7. /\ OpenScopes' = OpenScopes \cup {<<t, Len(scopes[t]) + 1>>}
      /\ <<t, Len(scopes[t]) + 1>> \notin OpenScopes
  <2>1. \A u \in Threads, i \in 1..MaxDepth :
            i <= Len(scopes'[u]) <=>
                i <= Len(scopes[u]) \/ <<u, i>> = <<t, Len(scopes[t]) + 1>>
    BY <1>2, <1>3, <1>5, ConstantFacts
  <2>2. Len(scopes[t]) + 1 \in 1..MaxDepth
    BY <1>5, ConstantFacts
  <2>3. ~(Len(scopes[t]) + 1 <= Len(scopes[t]))
    BY <1>5
  <2> QED
    BY <2>1, <2>2, <2>3 DEF OpenScopes
<1>8. Cardinality(OpenScopes') = Cardinality(OpenScopes) + 1
  BY <1>7, OpenFinite, FS_AddElement
<1> QED
  BY <1>2, <1>3, <1>4, <1>6, <1>8

\* What it does when it is destroyed.
LEMMA CloseFacts ==
  ASSUME TypeOK, NEW t \in Threads, scopes[t] # <<>>, Close(t)
  PROVE  /\ scopes' \in [Threads -> Seq(Modes)]
         /\ \A u \in Threads : Len(scopes'[u]) <= MaxDepth
         /\ \A u \in Threads \ {t} : scopes'[u] = scopes[u]
         /\ Len(scopes[t]) > 0
         /\ Len(scopes'[t]) = Len(scopes[t]) - 1
         /\ \A i \in 1..(Len(scopes[t]) - 1) : scopes'[t][i] = scopes[t][i]
         /\ Cardinality(OpenScopes) > 0
         /\ Cardinality(OpenScopes') = Cardinality(OpenScopes) - 1
<1>1. /\ scopes \in [Threads -> Seq(Modes)]
      /\ scopes' = [scopes EXCEPT ![t] = SubSeq(@, 1, Len(@) - 1)]
  BY DEF TypeOK, Close, Front
<1>2. /\ scopes'[t] = SubSeq(scopes[t], 1, Len(scopes[t]) - 1)
      /\ \A u \in Threads \ {t} : scopes'[u] = scopes[u]
  BY <1>1
<1>3. /\ Len(scopes[t]) \in Nat \ {0}
      /\ \A i \in 1..Len(scopes[t]) : scopes[t][i] \in Modes
  BY <1>1, LenNat
<1>4. /\ scopes'[t] \in Seq(Modes)
      /\ Len(scopes'[t]) = Len(scopes[t]) - 1
      /\ \A i \in 1..(Len(scopes[t]) - 1) : scopes'[t][i] = scopes[t][i]
  <2>1. /\ 1 \in Int /\ Len(scopes[t]) - 1 \in Int
        /\ \A i \in 1..(Len(scopes[t]) - 1) : scopes[t][i] \in Modes
    BY <1>3
  <2>2. /\ scopes'[t] \in Seq(Modes)
        /\ Len(scopes'[t]) = IF 1 <= Len(scopes[t]) - 1
                             THEN (Len(scopes[t]) - 1) - 1 + 1 ELSE 0
        /\ \A i \in 1..((Len(scopes[t]) - 1) - 1 + 1) :
               scopes'[t][i] = scopes[t][1 + i - 1]
    BY <1>1, <1>2, <2>1, SubSeqProperties
  <2>3. /\ (Len(scopes[t]) - 1) - 1 + 1 = Len(scopes[t]) - 1
        /\ \A i \in 1..(Len(scopes[t]) - 1) : 1 + i - 1 = i
    BY <1>3
  <2>4. Len(scopes'[t]) = Len(scopes[t]) - 1
    BY <1>3, <2>2
  <2> QED
    BY <2>2, <2>3, <2>4
<1>5. scopes' \in [Threads -> Seq(Modes)]
  BY <1>1, <1>4
<1>6. \A u \in Threads : Len(scopes[u]) \in Nat /\ Len(scopes[u]) <= MaxDepth
  BY <1>1, LenNat DEF TypeOK
<1>7. \A u \in Threads : Len(scopes'[u]) <= MaxDepth
  BY <1>2, <1>3, <1>4, <1>6, ConstantFacts
<1>8. /\ OpenScopes' = OpenScopes \ {<<t, Len(scopes[t])>>}
      /\ <<t, Len(scopes[t])>> \in OpenScopes
  <2>1. \A u \in Threads, i \in 1..MaxDepth :
            i <= Len(scopes'[u]) <=>
                i <= Len(scopes[u]) /\ <<u, i>> # <<t, Len(scopes[t])>>
    BY <1>2, <1>3, <1>4, <1>6, ConstantFacts
  <2>2. Len(scopes[t]) \in 1..MaxDepth
    BY <1>3, <1>6, ConstantFacts
  <2> QED
    BY <1>3, <2>1, <2>2 DEF OpenScopes
<1>9. Cardinality(OpenScopes') = Cardinality(OpenScopes) - 1
  BY <1>8, OpenFinite, FS_RemoveElement
<1>10. Cardinality(OpenScopes) > 0
  <2>1. OpenScopes # {}
    BY <1>8
  <2> QED
    BY <2>1, OpenFinite, FS_EmptySet
<1> QED
  BY <1>2, <1>3, <1>4, <1>5, <1>7, <1>9, <1>10

\* With no scope open at all every thread has none.
LEMMA NoScopes ==
  ASSUME TypeOK
  PROVE  Cardinality(OpenScopes) = 0 <=> \A t \in Threads : scopes[t] = <<>>
<1>1. Cardinality(OpenScopes) = 0 <=> OpenScopes = {}
  BY OpenFinite, FS_EmptySet
<1>2. ASSUME NEW t \in Threads
      PROVE  scopes[t] # <<>> <=> <<t, 1>> \in OpenScopes
  <2>1. Len(scopes[t]) \in Nat /\ (scopes[t] = <<>> <=> Len(scopes[t]) = 0)
    BY LenNat DEF TypeOK
  <2> QED
    BY <2>1, ConstantFacts DEF OpenScopes
<1>3. \A x \in OpenScopes : \E t \in Threads : x[1] = t /\ scopes[t] # <<>>
  <2>1. SUFFICES ASSUME NEW t \in Threads, NEW i \in 1..MaxDepth,
                        i <= Len(scopes[t])
                 PROVE  scopes[t] # <<>>
    BY DEF OpenScopes
  <2> QED
    BY <2>1, LenNat, ConstantFacts DEF TypeOK
<1> QED
  BY <1>1, <1>2, <1>3

\* A thread that is alone has as many scopes as there are open ones exactly
\* when it has one: what unlock_write() learns from 0x80000001.
LEMMA LastScope ==
  ASSUME TypeOK, NEW t \in Threads, scopes[t] # <<>>,
         \A u \in Threads \ {t} : scopes[u] = <<>>
  PROVE  Cardinality(OpenScopes) = 1 <=> Len(scopes[t]) = 1
<1>1. /\ Len(scopes[t]) \in Nat \ {0} /\ Len(scopes[t]) <= MaxDepth
      /\ \A u \in Threads \ {t} : Len(scopes[u]) = 0
  BY LenNat DEF TypeOK
<1>2. OpenScopes = {<<t, i>> : i \in 1..Len(scopes[t])}
  <2>1. \A u \in Threads, i \in 1..MaxDepth :
            i <= Len(scopes[u]) <=> u = t /\ i \in 1..Len(scopes[t])
    BY <1>1, ConstantFacts
  <2>2. 1..Len(scopes[t]) \subseteq 1..MaxDepth
    BY <1>1, ConstantFacts
  <2> QED
    BY <2>1, <2>2 DEF OpenScopes
<1>3. ASSUME Len(scopes[t]) = 1 PROVE Cardinality(OpenScopes) = 1
  <2>1. 1..Len(scopes[t]) = {1}
    BY <1>3
  <2>2. OpenScopes = {<<t, 1>>}
    BY <1>2, <2>1
  <2> QED
    BY <2>2, FS_Singleton
<1>4. ASSUME Cardinality(OpenScopes) = 1, Len(scopes[t]) # 1 PROVE FALSE
  <2>1. PICK x : OpenScopes = {x}
    BY <1>4, OpenFinite, FS_Singleton
  <2>2. 1 \in 1..Len(scopes[t]) /\ 2 \in 1..Len(scopes[t])
    <3>1. \A n \in Nat \ {0} : n # 1 => 1 \in 1..n /\ 2 \in 1..n
      OBVIOUS
    <3> QED
      BY <1>1, <1>4, <3>1
  <2>3. <<t, 1>> = <<t, 2>>
    BY <1>2, <2>1, <2>2
  <2> QED
    BY <2>3
<1> QED
  BY <1>3, <1>4

\* Steps that leave the scopes alone leave everything said of them alone.
LEMMA SameScopes ==
  ASSUME UNCHANGED scopes
  PROVE  /\ OpenScopes' = OpenScopes
         /\ Cardinality(OpenScopes') = Cardinality(OpenScopes)
         /\ \A t \in Threads : (Writing(t)' <=> Writing(t))
BY DEF OpenScopes, Writing

LEMMA WritingAfterOpen ==
  ASSUME TypeOK, NEW t \in Threads, NEW mode \in Modes,
         Len(scopes[t]) < MaxDepth, Open(t, mode)
  PROVE  /\ \A u \in Threads \ {t} : (Writing(u)' <=> Writing(u))
         /\ Writing(t)' <=> Writing(t) \/ mode = "write"
<1>1. /\ \A u \in Threads \ {t} : scopes'[u] = scopes[u]
      /\ Len(scopes'[t]) = Len(scopes[t]) + 1
      /\ \A i \in 1..Len(scopes[t]) : scopes'[t][i] = scopes[t][i]
      /\ scopes'[t][Len(scopes[t]) + 1] = mode
  BY OpenFacts
<1>2. Len(scopes[t]) \in Nat
  BY LenNat DEF TypeOK
<1>3. \A i : i \in 1..(Len(scopes[t]) + 1) <=>
                  i \in 1..Len(scopes[t]) \/ i = Len(scopes[t]) + 1
  BY <1>2
<1> QED
  BY <1>1, <1>3 DEF Writing

LEMMA WritingAfterClose ==
  ASSUME TypeOK, NEW t \in Threads, scopes[t] # <<>>, Close(t),
         Writing(t) => scopes[t][1] = "write"
  PROVE  /\ \A u \in Threads \ {t} : (Writing(u)' <=> Writing(u))
         /\ Writing(t)' <=> Writing(t) /\ Len(scopes[t]) > 1
<1>1. /\ \A u \in Threads \ {t} : scopes'[u] = scopes[u]
      /\ Len(scopes'[t]) = Len(scopes[t]) - 1
      /\ \A i \in 1..(Len(scopes[t]) - 1) : scopes'[t][i] = scopes[t][i]
  BY CloseFacts
<1>2. Len(scopes[t]) \in Nat \ {0}
  BY LenNat DEF TypeOK
<1>3. /\ \A i \in 1..(Len(scopes[t]) - 1) :
             i \in 1..Len(scopes[t]) /\ Len(scopes[t]) > 1
      /\ Len(scopes[t]) > 1 => 1 \in 1..(Len(scopes[t]) - 1)
  BY <1>2
<1> QED
  BY <1>1, <1>3 DEF Writing

\* A thread that writes has a scope.
LEMMA WritersHaveScopes ==
  ASSUME TypeOK
  PROVE  \A t \in Threads : Writing(t) => scopes[t] # <<>> /\ Len(scopes[t]) >= 1
<1>1. SUFFICES ASSUME NEW t \in Threads, Writing(t)
               PROVE  scopes[t] # <<>> /\ Len(scopes[t]) >= 1
  OBVIOUS
<1>2. Len(scopes[t]) \in Nat /\ (scopes[t] = <<>> <=> Len(scopes[t]) = 0)
  BY LenNat DEF TypeOK
<1> QED
  BY <1>1, <1>2 DEF Writing

-----------------------------------------------------------------------------
(* The invariant holds initially and every step preserves it.              *)

LEMMA InitIInv == Init => IInv
<1> SUFFICES ASSUME Init PROVE IInv
  OBVIOUS
<1>1. /\ \A t \in Threads : scopes[t] = <<>> /\ Len(scopes[t]) = 0 /\ pc[t] = "idle"
      /\ scopes \in [Threads -> Seq(Modes)]
  BY EmptySeq DEF Init
<1>2. TypeOK
  BY <1>1, ConstantFacts DEF Init, TypeOK, Labels, Modes
<1>3. \A t \in Threads : ~Writing(t)
  BY <1>1 DEF Writing
<1>4. Cardinality(OpenScopes) = 0
  BY <1>1, <1>2, NoScopes
<1> QED
  BY <1>1, <1>2, <1>3, <1>4, ConstantFacts
  DEF Init, IInv, LabelsAgree, WriterKnown, EntersAlone, WriterAlone, Word, Entering

LEMMA LockStep ==
  ASSUME IInv, NEW t \in Threads, NEW mode \in Modes, Lock(t, mode)
  PROVE  IInv'
<1> USE DEF IInv, Lock, Goto
<1>1. TypeOK'
  BY DEF TypeOK, Labels
<1>2. LabelsAgree'
  BY SameScopes DEF TypeOK, Labels, LabelsAgree, WriterKnown
<1>3. WriterKnown' /\ WriterAlone'
  BY SameScopes DEF TypeOK, WriterKnown, WriterAlone
<1>4. EntersAlone' /\ Word'
  BY SameScopes DEF TypeOK, EntersAlone, Word, Entering
<1> QED
  BY <1>1, <1>2, <1>3, <1>4

LEMMA ReenterStep ==
  ASSUME IInv, NEW t \in Threads, Reenter(t)
  PROVE  IInv'
<1> USE DEF IInv, Reenter, Goto
<1> DEFINE mode == wanted[t]
<1>1. /\ TypeOK /\ mode \in Modes /\ Len(scopes[t]) < MaxDepth /\ Open(t, mode)
      /\ Writing(t) /\ pc[t] = "reenter"
  BY DEF TypeOK, LabelsAgree
<1>2. /\ scopes' \in [Threads -> Seq(Modes)]
      /\ \A u \in Threads : Len(scopes'[u]) <= MaxDepth
      /\ \A u \in Threads \ {t} : scopes'[u] = scopes[u]
      /\ Len(scopes'[t]) = Len(scopes[t]) + 1
      /\ \A i \in 1..Len(scopes[t]) : scopes'[t][i] = scopes[t][i]
      /\ Cardinality(OpenScopes') = Cardinality(OpenScopes) + 1
  BY <1>1, OpenFacts
<1>3. \A u \in Threads : (Writing(u)' <=> Writing(u))
  BY <1>1, WritingAfterOpen
<1>4. /\ \A u \in Threads : Len(scopes[u]) \in Nat
      /\ scopes[t] # <<>> /\ Len(scopes[t]) >= 1
      /\ Cardinality(OpenScopes) \in Nat
  BY <1>1, LenNat, WritersHaveScopes, OpenFinite DEF TypeOK
<1>5. TypeOK'
  <2>1. lock' \in Nat /\ pc' \in [Threads -> Labels]
    BY DEF TypeOK, Labels
  <2> QED
    BY <1>2, <2>1 DEF TypeOK
<1>6. LabelsAgree'
  BY <1>1, <1>2, <1>3 DEF TypeOK, LabelsAgree
<1>7. WriterKnown' /\ WriterAlone'
  <2>1. scopes'[t][1] = scopes[t][1]
    BY <1>2, <1>4
  <2> QED
    BY <1>1, <1>2, <1>3, <1>4, <2>1 DEF TypeOK, WriterKnown, WriterAlone
<1>8. /\ \A u \in Threads : ~Entering(u) /\ ~Entering(u)'
      /\ lock = WriterBit + Cardinality(OpenScopes)
  BY <1>1, <1>4 DEF TypeOK, EntersAlone, Word, Entering
<1>9. EntersAlone'
  BY <1>8 DEF EntersAlone, Entering
<1>10. Word'
  <2>1. lock' = WriterBit + Cardinality(OpenScopes')
    BY <1>2, <1>4, <1>8, ConstantFacts
  <2> QED
    BY <1>1, <1>3, <1>8, <2>1 DEF Word, Entering
<1> QED
  BY <1>5, <1>6, <1>7, <1>9, <1>10

LEMMA SeizeReadStep ==
  ASSUME IInv, NEW t \in Threads, SeizeRead(t)
  PROVE  IInv'
<1> USE DEF IInv, SeizeRead, Goto
<1>1. /\ TypeOK /\ "read" \in Modes /\ Len(scopes[t]) < MaxDepth /\ Open(t, "read")
      /\ ~Writing(t) /\ pc[t] = "spin"
  BY DEF TypeOK, LabelsAgree, Modes
<1>2. /\ scopes' \in [Threads -> Seq(Modes)]
      /\ \A u \in Threads : Len(scopes'[u]) <= MaxDepth
      /\ \A u \in Threads \ {t} : scopes'[u] = scopes[u]
      /\ Cardinality(OpenScopes') = Cardinality(OpenScopes) + 1
  BY <1>1, OpenFacts
<1>3. Cardinality(OpenScopes) \in Nat
  BY OpenFinite
<1>4. \A u \in Threads : ~Writing(u) /\ ~Entering(u)
  BY <1>3, ConstantFacts DEF Word
<1>5. \A u \in Threads : ~Writing(u)'
  BY <1>1, <1>4, WritingAfterOpen
<1>6. TypeOK'
  <2>1. lock' \in Nat /\ pc' \in [Threads -> Labels]
    BY DEF TypeOK, Labels
  <2> QED
    BY <1>2, <2>1 DEF TypeOK
<1>7. LabelsAgree'
  BY <1>1, <1>2, <1>4, <1>5 DEF TypeOK, LabelsAgree
<1>8. WriterKnown' /\ WriterAlone'
  BY <1>1, <1>4, <1>5 DEF TypeOK, WriterKnown, WriterAlone
<1>9. EntersAlone' /\ Word'
  BY <1>1, <1>2, <1>3, <1>4, <1>5 DEF TypeOK, EntersAlone, Word, Entering
<1> QED
  BY <1>6, <1>7, <1>8, <1>9

LEMMA SeizeWriteStep ==
  ASSUME IInv, NEW t \in Threads, SeizeWrite(t)
  PROVE  IInv'
<1> USE DEF IInv, SeizeWrite, Goto
<1>1. Cardinality(OpenScopes) \in Nat
  BY OpenFinite
<1>2. \A u \in Threads : ~Writing(u) /\ ~Entering(u)
  BY <1>1, ConstantFacts DEF Word
<1>3. \A u \in Threads : scopes[u] = <<>>
  BY <1>2, NoScopes DEF Word
<1>4. TypeOK'
  BY ConstantFacts DEF TypeOK, Labels
<1>5. LabelsAgree'
  BY <1>2, SameScopes DEF TypeOK, LabelsAgree
<1>6. WriterKnown' /\ WriterAlone'
  BY <1>2, SameScopes DEF TypeOK, WriterKnown, WriterAlone
<1>7. EntersAlone' /\ Word'
  BY <1>2, <1>3, SameScopes DEF TypeOK, EntersAlone, Word, Entering
<1> QED
  BY <1>4, <1>5, <1>6, <1>7

LEMMA PublishStep ==
  ASSUME IInv, NEW t \in Threads, Publish(t)
  PROVE  IInv'
<1> USE DEF IInv, Publish, Goto
<1>1. /\ TypeOK /\ Open(t, "write") /\ "write" \in Modes
      /\ pc[t] = "publish" /\ lock = WriterBit + 1
      /\ \A u \in Threads : scopes[u] = <<>> /\ (u # t => ~Entering(u))
  BY DEF EntersAlone, Entering, Word, Modes
<1>2. /\ \A u \in Threads : Len(scopes[u]) = 0 /\ ~Writing(u)
      /\ Cardinality(OpenScopes) = 0
  <2>1. Cardinality(OpenScopes) = 0
    BY <1>1, NoScopes
  <2>2. \A u \in Threads : Len(scopes[u]) = 0
    BY <1>1, EmptySeq
  <2> QED
    BY <2>1, <2>2 DEF Writing
<1>3. /\ scopes' \in [Threads -> Seq(Modes)]
      /\ \A u \in Threads : Len(scopes'[u]) <= MaxDepth
      /\ \A u \in Threads \ {t} : scopes'[u] = scopes[u]
      /\ scopes'[t][1] = "write"
      /\ Cardinality(OpenScopes') = 1
  BY <1>1, <1>2, OpenFacts, ConstantFacts
<1>4. Writing(t)' /\ \A u \in Threads \ {t} : ~Writing(u)'
  BY <1>1, <1>2, WritingAfterOpen, ConstantFacts
<1>5. TypeOK'
  BY <1>3 DEF TypeOK, Labels
<1>6. LabelsAgree'
  BY <1>1, <1>2, <1>3, <1>4 DEF TypeOK, LabelsAgree
<1>7. WriterKnown' /\ WriterAlone'
  BY <1>1, <1>3, <1>4 DEF TypeOK, WriterKnown, WriterAlone
<1>8. EntersAlone' /\ Word'
  BY <1>1, <1>3, <1>4, ConstantFacts DEF TypeOK, EntersAlone, Word, Entering
<1> QED
  BY <1>5, <1>6, <1>7, <1>8

LEMMA GiveUpStep ==
  ASSUME IInv, NEW t \in Threads, GiveUp(t)
  PROVE  IInv'
<1> USE DEF IInv, GiveUp, Goto
<1>1. TypeOK'
  BY DEF TypeOK, Labels
<1>2. LabelsAgree'
  BY SameScopes DEF TypeOK, LabelsAgree
<1>3. WriterKnown' /\ WriterAlone'
  BY SameScopes DEF TypeOK, WriterKnown, WriterAlone
<1>4. EntersAlone' /\ Word'
  BY SameScopes DEF TypeOK, EntersAlone, Word, Entering
<1> QED
  BY <1>1, <1>2, <1>3, <1>4

\* The two readings of unlock_write(): nothing but its own scope is left, or
\* scopes it nests are.
LEMMA UnlockWriteTestStep ==
  ASSUME IInv, NEW t \in Threads, UnlockWriteTest(t)
  PROVE  IInv'
<1> USE DEF IInv, UnlockWriteTest, Leaving, Goto
<1>1. /\ pc[t] = "idle" /\ scopes[t] # <<>> /\ Len(scopes[t]) \in Nat \ {0}
      /\ scopes[t][Len(scopes[t])] = "write"
  BY LenNat DEF TypeOK, Last
<1>2. Writing(t)
  BY <1>1 DEF Writing
<1>3. /\ \A u \in Threads \ {t} : scopes[u] = <<>>
      /\ lock = WriterBit + Cardinality(OpenScopes)
  BY <1>2 DEF WriterAlone, Word
<1>4. lock = WriterBit + 1 <=> Len(scopes[t]) = 1
  BY <1>1, <1>3, LastScope, OpenFinite, ConstantFacts
<1>5. TypeOK'
  BY DEF TypeOK, Labels
<1>6. LabelsAgree'
  <2>1. /\ Len(scopes[t]) # 1 => Len(scopes[t]) > 1
        /\ UNCHANGED scopes
    <3>1. \A n \in Nat \ {0} : n # 1 => n > 1
      OBVIOUS
    <3> QED
      BY <1>1, <3>1
  <2>2. \/ pc' = [pc EXCEPT ![t] = "disown"] /\ Len(scopes[t]) = 1
        \/ pc' = [pc EXCEPT ![t] = "countdown"] /\ Len(scopes[t]) > 1
    BY <1>4, <2>1
  <2> QED
    BY <1>2, <2>1, <2>2, SameScopes DEF TypeOK, LabelsAgree
<1>7. WriterKnown' /\ WriterAlone'
  BY <1>1, SameScopes DEF TypeOK, WriterKnown, WriterAlone
<1>8. EntersAlone' /\ Word'
  BY <1>1, SameScopes DEF TypeOK, EntersAlone, Word, Entering
<1> QED
  BY <1>5, <1>6, <1>7, <1>8

LEMMA DisownStep ==
  ASSUME IInv, NEW t \in Threads, Disown(t)
  PROVE  IInv'
<1> USE DEF IInv, Disown, Goto
<1>1. Writing(t) /\ scopes[t] # <<>>
  BY WritersHaveScopes DEF LabelsAgree
<1>2. \A u \in Threads \ {t} : ~Writing(u)
  BY <1>1, WritersHaveScopes DEF WriterAlone
<1>3. TypeOK'
  BY DEF TypeOK, Labels
<1>4. LabelsAgree'
  BY <1>1, SameScopes DEF TypeOK, LabelsAgree
<1>5. WriterKnown' /\ WriterAlone'
  BY <1>1, <1>2, SameScopes, ConstantFacts DEF TypeOK, WriterKnown, WriterAlone
<1>6. EntersAlone' /\ Word'
  BY SameScopes DEF TypeOK, EntersAlone, Word, Entering
<1> QED
  BY <1>3, <1>4, <1>5, <1>6

LEMMA FreeStep ==
  ASSUME IInv, NEW t \in Threads, Free(t)
  PROVE  IInv'
<1> USE DEF IInv, Free, Goto
<1>1. /\ Writing(t) /\ Len(scopes[t]) = 1 /\ scopes[t] # <<>>
      /\ pc[t] = "free" /\ Close(t)
  BY WritersHaveScopes DEF LabelsAgree
<1>2. \A u \in Threads \ {t} : scopes[u] = <<>> /\ ~Writing(u)
  BY <1>1, WritersHaveScopes DEF WriterAlone
<1>3. Cardinality(OpenScopes) = 1
  BY <1>1, <1>2, LastScope
<1>4. /\ scopes' \in [Threads -> Seq(Modes)]
      /\ \A u \in Threads : Len(scopes'[u]) <= MaxDepth
      /\ \A u \in Threads \ {t} : scopes'[u] = scopes[u]
      /\ Cardinality(OpenScopes') = 0
  BY <1>1, <1>3, CloseFacts
<1>5. \A u \in Threads : ~Writing(u)' /\ ~Entering(u)
  <2>1. ~(Len(scopes[t]) > 1) /\ (Writing(t) => scopes[t][1] = "write")
    BY <1>1 DEF WriterKnown
  <2>2. \A u \in Threads : ~Writing(u)'
    BY <1>1, <1>2, <2>1, WritingAfterClose
  <2>3. \A u \in Threads : ~Entering(u)
    BY <1>1 DEF EntersAlone
  <2> QED
    BY <2>2, <2>3
<1>6. TypeOK'
  BY <1>4 DEF TypeOK, Labels
<1>7. LabelsAgree'
  BY <1>1, <1>2, <1>4, <1>5 DEF TypeOK, LabelsAgree
<1>8. WriterKnown' /\ WriterAlone'
  BY <1>1, <1>2, <1>5 DEF TypeOK, WriterKnown, WriterAlone
<1>9. EntersAlone' /\ Word'
  BY <1>1, <1>4, <1>5 DEF TypeOK, EntersAlone, Word, Entering
<1> QED
  BY <1>6, <1>7, <1>8, <1>9

\* --lock, in unlock_read() and in the second branch of unlock_write(): a
\* writer is left with its outer scopes, a reader may be left with none.
LEMMA DecrementStep ==
  ASSUME IInv, NEW t \in Threads, scopes[t] # <<>>, Close(t), lock' = lock - 1,
         pc[t] \in {"idle", "countdown"}, Writing(t) => Len(scopes[t]) > 1,
         pc' = [pc EXCEPT ![t] = "idle"], UNCHANGED <<writerThread, wanted>>
  PROVE  IInv'
<1> USE DEF IInv
<1>1. /\ scopes' \in [Threads -> Seq(Modes)]
      /\ \A u \in Threads : Len(scopes'[u]) <= MaxDepth
      /\ \A u \in Threads \ {t} : scopes'[u] = scopes[u]
      /\ Len(scopes'[t]) = Len(scopes[t]) - 1
      /\ \A i \in 1..(Len(scopes[t]) - 1) : scopes'[t][i] = scopes[t][i]
      /\ Cardinality(OpenScopes) > 0
      /\ Cardinality(OpenScopes') = Cardinality(OpenScopes) - 1
  BY CloseFacts
<1>2. \A u \in Threads : (Writing(u)' <=> Writing(u))
  BY WritingAfterClose DEF WriterKnown
<1>3. Cardinality(OpenScopes) \in Nat /\ \A u \in Threads : Len(scopes[u]) \in Nat
  BY OpenFinite, LenNat DEF TypeOK
<1>4. /\ \A u \in Threads : ~Entering(u) /\ ~Entering(u)'
      /\ \A u \in Threads : Writing(u) => lock = WriterBit + Cardinality(OpenScopes)
      /\ (\A u \in Threads : ~Writing(u)) => lock = Cardinality(OpenScopes)
  BY DEF TypeOK, EntersAlone, Word, Entering
<1>5. TypeOK'
  <2>1. lock' \in Nat
    BY <1>1, <1>3, <1>4, ConstantFacts
  <2>2. pc' \in [Threads -> Labels]
    BY DEF TypeOK, Labels
  <2> QED
    BY <1>1, <2>1, <2>2 DEF TypeOK
<1>6. LabelsAgree'
  BY <1>1, <1>2, <1>3 DEF TypeOK, LabelsAgree
<1>7. WriterKnown'
  <2>1. Writing(t) => scopes'[t][1] = scopes[t][1]
    BY <1>1, <1>3
  <2> QED
    BY <1>1, <1>2, <2>1 DEF TypeOK, WriterKnown
<1>8. WriterAlone'
  BY <1>1, <1>2 DEF WriterAlone
<1>9. EntersAlone'
  BY <1>4 DEF EntersAlone
<1>10. Word'
  <2>1. \A u \in Threads : Writing(u)' => lock' = WriterBit + Cardinality(OpenScopes')
    BY <1>1, <1>2, <1>3, <1>4, ConstantFacts
  <2>2. (\A u \in Threads : ~Writing(u)') => lock' = Cardinality(OpenScopes')
    BY <1>1, <1>2, <1>4
  <2> QED
    BY <1>4, <2>1, <2>2 DEF Word
<1> QED
  BY <1>5, <1>6, <1>7, <1>8, <1>9, <1>10

LEMMA UnlockReadStep ==
  ASSUME IInv, NEW t \in Threads, UnlockRead(t)
  PROVE  IInv'
<1>1. /\ scopes[t] # <<>> /\ Close(t) /\ lock' = lock - 1 /\ pc[t] = "idle"
      /\ UNCHANGED <<writerThread, wanted, pc>> /\ scopes[t][Len(scopes[t])] = "read"
  BY DEF UnlockRead, Leaving, Last
<1>2. pc' = [pc EXCEPT ![t] = "idle"]
  BY <1>1 DEF IInv, TypeOK
<1>3. Writing(t) => Len(scopes[t]) > 1
  <2>1. Len(scopes[t]) \in Nat \ {0}
    BY <1>1, LenNat DEF IInv, TypeOK
  <2>2. Writing(t) => scopes[t][1] = "write"
    BY DEF IInv, WriterKnown
  <2> QED
    BY <1>1, <2>1, <2>2
<1> QED
  BY <1>1, <1>2, <1>3, DecrementStep

LEMMA CountDownStep ==
  ASSUME IInv, NEW t \in Threads, CountDown(t)
  PROVE  IInv'
<1>1. pc[t] = "countdown" /\ Writing(t) /\ Len(scopes[t]) > 1 /\ scopes[t] # <<>>
  BY WritersHaveScopes DEF CountDown, IInv, LabelsAgree
<1> QED
  BY <1>1, DecrementStep DEF CountDown, Goto

LEMMA NextIInv == IInv /\ [Next]_vars => IInv'
<1> SUFFICES ASSUME IInv, [Next]_vars PROVE IInv'
  OBVIOUS
<1>1. ASSUME NEW t \in Threads, Step(t) PROVE IInv'
  BY <1>1, LockStep, ReenterStep, SeizeReadStep, SeizeWriteStep, PublishStep,
     GiveUpStep, UnlockReadStep, UnlockWriteTestStep, DisownStep, FreeStep,
     CountDownStep DEF Step, Take
<1>2. CASE UNCHANGED vars
  BY <1>2, SameScopes
  DEF vars, IInv, TypeOK, LabelsAgree, WriterKnown, EntersAlone, WriterAlone, Word, Entering
<1> QED
  BY <1>1, <1>2 DEF Next

LEMMA SpecIInv == Spec => []IInv
<1>1. Init => IInv
  BY InitIInv
<1>2. IInv /\ [Next]_vars => IInv'
  BY NextIInv
<1> QED
  BY <1>1, <1>2, PTL DEF Spec

-----------------------------------------------------------------------------
(* The theorems.                                                           *)

\* The state of the lock and of its callers always has its type: no unlock
\* takes the word below zero.
THEOREM TypeCorrect == Spec => []TypeOK
<1>1. IInv => TypeOK
  BY DEF IInv
<1> QED
  BY <1>1, SpecIInv, PTL

\* Between lock_write() and its unlock_write() no other thread has a scope of
\* either kind, however the writer nests its own.
THEOREM WriterIsAlone == Spec => []WriterAlone
<1>1. IInv => WriterAlone
  BY DEF IInv
<1> QED
  BY <1>1, SpecIInv, PTL

\* No writer waits for the lock it holds itself.
THEOREM WriterNeverWaits == Spec => []WriterReenters
<1>1. IInv => WriterReenters
  BY DEF IInv, LabelsAgree, WriterReenters
<1> QED
  BY <1>1, SpecIInv, PTL

\* The word counts the open scopes exactly, so a lock that everyone has left
\* is free again.
THEOREM WordCounts == Spec => []WordExact
<1>1. ASSUME IInv PROVE WordExact
  <2> DEFINE entering == {t \in Threads : pc[t] = "publish"}
             writing == {t \in Threads : Writing(t)} \cup entering
  <2> USE <1>1 DEF IInv
  <2>1. CASE writing = {}
    <3>1. lock = Cardinality(OpenScopes)
      BY <2>1 DEF Word, Entering
    <3>2. entering = {} /\ Cardinality(entering) = 0
      BY <2>1, FS_EmptySet
    <3> QED
      BY <2>1, <3>1, <3>2, OpenFinite DEF WordExact
  <2>2. ASSUME NEW t \in Threads, Entering(t) PROVE WordExact
    <3>1. entering = {t}
      BY <2>2 DEF EntersAlone, Entering
    <3>2. Cardinality(entering) = 1
      BY <3>1, FS_Singleton
    <3>3. Cardinality(OpenScopes) = 0
      BY <2>2, NoScopes DEF EntersAlone
    <3>4. writing # {}
      BY <3>1
    <3>5. lock = WriterBit + 1
      BY <2>2 DEF Word
    <3> HIDE DEF entering, writing
    <3>6. lock = Cardinality(OpenScopes) + Cardinality(entering)
                     + (IF writing = {} THEN 0 ELSE WriterBit)
      BY <3>2, <3>3, <3>4, <3>5, ConstantFacts
    <3> QED
      BY <3>6 DEF WordExact, entering, writing
  <2>3. ASSUME NEW t \in Threads, Writing(t) PROVE WordExact
    <3>1. entering = {}
      BY <2>3, WritersHaveScopes DEF EntersAlone, Entering
    <3>2. Cardinality(entering) = 0
      BY <3>1, FS_EmptySet
    <3>3. writing # {} /\ lock = WriterBit + Cardinality(OpenScopes)
      BY <2>3 DEF Word
    <3> HIDE DEF entering, writing
    <3>4. lock = Cardinality(OpenScopes) + Cardinality(entering)
                     + (IF writing = {} THEN 0 ELSE WriterBit)
      BY <3>2, <3>3, OpenFinite, ConstantFacts
    <3> QED
      BY <3>4 DEF WordExact, entering, writing
  <2> QED
    BY <2>1, <2>2, <2>3 DEF Entering
<1> QED
  BY <1>1, SpecIInv, PTL

\* Every step of a caller is a step of SharedMutex: it opens a scope when the
\* others leave room for it, closes its innermost, or is invisible.
LEMMA StepsOfMutex ==
  ASSUME IInv, [Next]_vars
  PROVE  [Shared!SharedNext]_scopes
<1> USE DEF IInv
<1>1. ASSUME NEW t \in Threads, Writing(t) PROVE Shared!Writes(t)
  BY <1>1 DEF Writing, Shared!Writes
<1>2. ASSUME NEW t \in Threads, ~Writing(t) PROVE ~Shared!Writes(t)
  BY <1>2 DEF Writing, Shared!Writes
<1>3. ASSUME NEW t \in Threads, Reenter(t) PROVE Shared!SharedNext
  <2>1. /\ Writing(t) /\ Len(scopes[t]) < MaxDepth /\ wanted[t] \in Modes
        /\ \A u \in Threads \ {t} : scopes[u] = <<>> /\ ~Writing(u)
    BY <1>3, WritersHaveScopes DEF Reenter, LabelsAgree, WriterAlone, TypeOK
  <2>2. Shared!EnterRead(t) \/ Shared!EnterWrite(t)
    BY <1>1, <1>2, <1>3, <2>1
    DEF Reenter, Open, Modes, Shared!EnterRead, Shared!EnterWrite
  <2> QED
    BY <2>2 DEF Shared!SharedNext
<1>4. ASSUME NEW t \in Threads, SeizeRead(t) PROVE Shared!SharedNext
  <2>1. \A u \in Threads : ~Writing(u)
    BY <1>4, OpenFinite, ConstantFacts DEF SeizeRead, Word
  <2>2. Shared!EnterRead(t)
    BY <1>2, <1>4, <2>1 DEF SeizeRead, LabelsAgree, Open, Shared!EnterRead
  <2> QED
    BY <2>2 DEF Shared!SharedNext
<1>5. ASSUME NEW t \in Threads, Publish(t) PROVE Shared!SharedNext
  <2>1. \A u \in Threads : scopes[u] = <<>>
    BY <1>5 DEF Publish, EntersAlone, Entering
  <2>2. Len(scopes[t]) < MaxDepth
    BY <2>1, EmptySeq, ConstantFacts
  <2>3. Shared!EnterWrite(t)
    BY <1>5, <2>1, <2>2 DEF Publish, Open, Shared!EnterWrite
  <2> QED
    BY <2>3 DEF Shared!SharedNext
<1>6. ASSUME NEW t \in Threads, UnlockRead(t) \/ Free(t) \/ CountDown(t)
      PROVE  Shared!SharedNext
  <2>1. scopes[t] # <<>> /\ Close(t)
    BY <1>6, WritersHaveScopes
    DEF UnlockRead, Leaving, Free, CountDown, LabelsAgree
  <2>2. Shared!Leave(t)
    BY <2>1 DEF Close, Front, Shared!Leave
  <2> QED
    BY <2>2 DEF Shared!SharedNext
<1>7. ASSUME NEW t \in Threads,
             \/ \E mode \in Modes : Lock(t, mode)
             \/ SeizeWrite(t) \/ GiveUp(t) \/ UnlockWriteTest(t) \/ Disown(t)
      PROVE  UNCHANGED scopes
  BY <1>7 DEF Lock, SeizeWrite, GiveUp, UnlockWriteTest, Disown
<1> QED
  BY <1>3, <1>4, <1>5, <1>6, <1>7 DEF Next, Step, Take, vars

\* BSReadWriteLock, with the steps inside its functions, implements the
\* shared mutex the extra data lists rely on.
THEOREM Refines == Spec => ImplementsShared
<1>1. Init => Shared!SharedInit
  BY DEF Init, Shared!SharedInit
<1>2. IInv /\ [Next]_vars => [Shared!SharedNext]_scopes
  BY StepsOfMutex
<1> QED
  BY <1>1, <1>2, SpecIInv, PTL DEF Spec, ImplementsShared, Shared!SharedSpec
=============================================================================
