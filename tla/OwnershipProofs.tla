-------------------------- MODULE OwnershipProofs ---------------------------
(***************************************************************************)
(* Every count is exact and every lifetime ends with the last reference,   *)
(* for any number of threads, pointers and objects and any width of a      *)
(* count.  First the smart pointers, then the compare-and-swap loops, then *)
(* the Papyrus values, each by an invariant of its own, then the three.    *)
(***************************************************************************)
EXTENDS Ownership, FiniteSetTheorems, SequenceTheorems, WellFoundedInduction, TLAPS

Places == {"idle", "detach", "null", "free", "load", "store", "clear", "attach", "write", "release"}

Calls == [op : {"none", "make", "copy", "move", "reset to", "reset"},
          lhs : Slots \cup {NULL}, rhs : Slots \cup {NULL},
          toLhs : SUBSET Slots, toRhs : SUBSET Slots, raw : Objects \cup {NULL}]

PointersFit ==
    /\ library \in Libraries
    /\ ptr \in [Slots -> Objects \cup {NULL}]
    /\ count \in [Objects -> Nat]
    /\ alive \subseteq made /\ made \subseteq Objects
    /\ call \in [Threads -> Calls]
    /\ at \in [Threads -> Places]
    /\ dying \in [Threads -> Seq(Objects)]
    /\ sum \in [Threads -> Nat]
    /\ undefined \in BOOLEAN
    /\ \A s \in Slots : ptr[s] \in made \cup {NULL}
    /\ \A t \in Threads : call[t].raw \in made \cup {NULL}

\* The accesses each call makes.
PlacesOf(op) ==
    CASE op = "none" -> {"idle"}
      [] op = "make" -> {"attach", "write", "release"}
      [] op = "copy" -> {"detach", "null", "free", "load", "attach", "write"}
      [] op = "move" -> {"detach", "null", "free", "load", "clear"}
      [] op = "reset to" -> {"detach", "null", "free", "store", "attach", "write"}
      [] op = "reset" -> {"detach", "null", "free"}

Mine(t) == LocalsOf[t] \cup {Member(o) : o \in Objects}

CallFits(t) ==
    /\ at[t] \in PlacesOf(call[t].op)
    /\ at[t] = "idle" => call[t] = NoCall
    /\ at[t] # "idle" => t \in Users[library] /\ Named(t) \subseteq Mine(t)
    /\ call[t].lhs \notin call[t].toLhs /\ call[t].rhs \notin call[t].toRhs
    /\ call[t].op \in {"copy", "move", "reset to"} => call[t].lhs # call[t].rhs
    /\ call[t].op \in {"make", "reset"} => call[t].lhs = call[t].rhs
    /\ dying[t] # <<>> => at[t] \in {"detach", "null", "free"}
    /\ at[t] = "free" => dying[t] # <<>>
    /\ at[t] \in {"write", "release"} => library = "scaleform"
    /\ at[t] \in {"load", "store"} => ptr[call[t].lhs] = NULL

\* No pointer that a call may change is named by another thread.
NoneShared ==
    \A t, u \in Threads : t # u => Changed(t) \cap Named(u) \subseteq {NULL}

\* An object being destroyed has no count; no thread but the one destroying it
\* works on its pointer once that is being detached; it is destroyed once.
DyingFits(t) ==
    \A i \in DOMAIN dying[t] :
        /\ dying[t][i] \in alive /\ count[dying[t][i]] = 0
        /\ \A j \in DOMAIN dying[t] : dying[t][i] = dying[t][j] => i = j
        /\ \A u \in Threads \ {t} :
             /\ \A j \in DOMAIN dying[u] : dying[t][i] # dying[u][j]
             /\ i < Len(dying[t]) \/ at[t] # "detach" => Member(dying[t][i]) \notin Operands(u)

PointersAlive == \A s \in Slots : Settled(s) => ptr[s] \in alive \cup {NULL}

BornOrDying ==
    \A o \in alive : count[o] = 0 =>
        Destroyers(o) # {} \/ \E t \in Threads : call[t].op = "make" /\ call[t].raw = o

\* The objects that lhs and the pointers followed to it are in are kept by those
\* followed, or after a move from one of these by lhs.
LhsHeld(t) ==
    \A o \in Objects : Member(o) \in {call[t].lhs} \cup call[t].toLhs =>
        \E s \in Owners(o) : s \in call[t].toLhs \/ (s = call[t].lhs /\ at[t] = "clear")

\* So are the objects on the way to rhs, but for an assignment through itself.
RhsHeld(t) ==
    \A o \in Objects : Member(o) \in {call[t].rhs} \cup call[t].toRhs /\ ~ThroughSelf(t) =>
        \E s \in Owners(o) : s \in call[t].toRhs

\* What is to be attached is still referred to by the right-hand side.
ValueHeld(t) ==
    /\ call[t].op = "copy" /\ at[t] \in {"attach", "write"} =>
         Settled(call[t].rhs) /\ ptr[call[t].lhs] = ptr[call[t].rhs]
    /\ call[t].op = "reset to" /\ ~ThroughSelf(t) =>
         Settled(call[t].rhs) /\ ptr[call[t].rhs] = call[t].raw
    /\ call[t].op = "reset to" /\ at[t] \in {"attach", "write"} => ptr[call[t].lhs] = call[t].raw

\* A new object has one pointer until it is attached.
NewFits(t) ==
    call[t].op = "make" =>
        /\ call[t].raw \in alive /\ ptr[call[t].lhs] = call[t].raw
        /\ Destroyers(call[t].raw) = {}
        /\ at[t] \in {"attach", "write"} =>
             /\ \A s \in Slots : ptr[s] = call[t].raw => s = call[t].lhs
             /\ \A u \in Threads \ {t} : call[u].raw # call[t].raw

SumFits(t) == at[t] = "write" => ptr[call[t].lhs] # NULL /\ sum[t] = count[ptr[call[t].lhs]] + 1

PointersInv ==
    /\ PointersFit
    /\ \A t \in Threads : CallFits(t)
    /\ NoneShared
    /\ \A t \in Threads : DyingFits(t)
    /\ PointersAlive
    /\ PointersCounted
    /\ BornOrDying
    /\ \A t \in Threads : LhsHeld(t) /\ RhsHeld(t) /\ ValueHeld(t) /\ NewFits(t) /\ SumFits(t)

-----------------------------------------------------------------------------
\* Sets of numbers have a least member.
Below == {ss \in Nat \X Nat : ss[1] < ss[2]}

LEMMA LeastOf ==
  ASSUME NEW S, S \subseteq Nat, S # {}
  PROVE  \E x \in S : \A y \in S : x <= y
<1>1. Below = OpToRel(<, Nat)
  BY DEF OpToRel, Below
<1>2. PICK x \in S : \A y \in S : <<y, x>> \notin Below
  BY <1>1, WFMin, NatLessThanWellFounded
<1>3. ASSUME NEW y \in S PROVE x <= y
  <2>1. x \in Nat /\ y \in Nat /\ ~(y < x)
    BY <1>2 DEF Below
  <2> QED
    BY <2>1
<1> QED
  BY <1>3

(***************************************************************************)
(* The pointers and the objects.                                           *)
(***************************************************************************)
LEMMA SlotFacts ==
  ASSUME ConstantsFit
  PROVE  /\ IsFiniteSet(Slots) /\ NULL \notin Slots
         /\ \A o \in Objects : Member(o) \in Slots
         /\ \A o, v : Member(o) = Member(v) => o = v
         /\ \A t \in Threads : LocalsOf[t] \subseteq Slots
         /\ \A t \in Threads, o \in Objects : Member(o) \notin LocalsOf[t]
         /\ \A t, u \in Threads : t # u => LocalsOf[t] \cap LocalsOf[u] = {}
         /\ \A t \in Threads : Mine(t) \subseteq Slots
         /\ \A l \in Libraries : Users[l] \subseteq Threads
<1>1. IsFiniteSet(Locals)
  <2>1. [t \in Threads |-> LocalsOf[t]] \in Surjection(Threads, {LocalsOf[t] : t \in Threads})
    BY DEF Surjection
  <2>2. IsFiniteSet({LocalsOf[t] : t \in Threads})
    BY <2>1, FS_Surjection DEF ConstantsFit
  <2>3. \A t \in Threads : IsFiniteSet(LocalsOf[t])
    BY DEF ConstantsFit
  <2> QED
    BY <2>2, <2>3, FS_UNION DEF Locals
<1>2. IsFiniteSet({Member(o) : o \in Objects})
  <2>1. [o \in Objects |-> Member(o)] \in Surjection(Objects, {Member(o) : o \in Objects})
    BY DEF Surjection
  <2> QED
    BY <2>1, FS_Surjection DEF ConstantsFit
<1>3. IsFiniteSet(Slots)
  BY <1>1, <1>2, FS_Union DEF Slots
<1>4. \A o, v : Member(o) = Member(v) => o = v
  BY DEF Member
<1>5. \A t \in Threads : LocalsOf[t] \subseteq Locals
  BY DEF Locals
<1>6. \A l \in Libraries : Users[l] \subseteq Threads
  BY DEF Threads
<1> QED
  BY <1>3, <1>4, <1>5, <1>6 DEF ConstantsFit, Slots, Mine

\* Pushing an object on a stack, and taking the last one off.
LEMMA Pushed ==
  ASSUME NEW st \in Seq(Objects), NEW o \in Objects
  PROVE  /\ Append(st, o) \in Seq(Objects) /\ Append(st, o) # <<>>
         /\ Len(Append(st, o)) = Len(st) + 1
         /\ \A i \in 1..Len(st) : Append(st, o)[i] = st[i]
         /\ Append(st, o)[Len(st) + 1] = o
         /\ DOMAIN st = 1..Len(st) /\ DOMAIN Append(st, o) = 1..(Len(st) + 1)
         /\ Len(st) \in Nat
BY AppendProperties, LenProperties

LEMMA Popped ==
  ASSUME NEW st \in Seq(Objects), st # <<>>, NEW less, less = SubSeq(st, 1, Len(st) - 1)
  PROVE  /\ less \in Seq(Objects) /\ Len(less) = Len(st) - 1
         /\ \A i \in 1..(Len(st) - 1) : less[i] = st[i]
         /\ DOMAIN st = 1..Len(st) /\ DOMAIN less = 1..(Len(st) - 1)
         /\ Len(st) \in Nat \ {0}
         /\ st[Len(st)] \in Objects
<1>1. Len(st) \in Nat /\ DOMAIN st = 1..Len(st) /\ Len(st) # 0
  BY LenProperties, EmptySeq
<1>2. /\ less \in Seq(Objects)
      /\ Len(less) = IF 1 <= Len(st) - 1 THEN Len(st) - 1 - 1 + 1 ELSE 0
      /\ \A i \in 1..(Len(st) - 1 - 1 + 1) : less[i] = st[1 + i - 1]
  <2>1. \A i \in 1..(Len(st) - 1) : i \in 1..Len(st)
    BY <1>1
  <2>2. 1 \in 1..(Len(st) + 1) /\ Len(st) - 1 \in 1-1..Len(st)
    BY <1>1
  <2> QED
    BY <1>1, <2>1, <2>2, SubSeqProperties
<1> QED
  BY <1>1, <1>2, LenProperties


-----------------------------------------------------------------------------
(***************************************************************************)
(* What a call is changing, and who else is not.                           *)
(***************************************************************************)
Flux(t) == Dropped(t) \cup Raised(t)

LEMMA DyingTypes ==
  ASSUME PointersInv, NEW t \in Threads
  PROVE  /\ dying[t] \in Seq(Objects) /\ DOMAIN dying[t] = 1..Len(dying[t]) /\ Len(dying[t]) \in Nat
         /\ \A i \in DOMAIN dying[t] : dying[t][i] \in Objects
         /\ dying[t] = <<>> <=> Len(dying[t]) = 0
<1>1. dying[t] \in Seq(Objects)
  BY DEF PointersInv, PointersFit
<1> QED
  BY <1>1, LenProperties, EmptySeq

LEMMA CallTypes ==
  ASSUME ConstantsFit, PointersInv, NEW t \in Threads
  PROVE  /\ at[t] = "idle" => call[t] = NoCall /\ dying[t] = <<>>
         /\ at[t] # "idle" => /\ call[t].lhs \in Slots /\ call[t].rhs \in Slots
                              /\ call[t].lhs \in Mine(t) /\ call[t].rhs \in Mine(t)
                              /\ Named(t) \subseteq Mine(t) /\ Named(t) \subseteq Slots
                              /\ call[t].op # "none" /\ t \in Users[library]
         /\ at[t] = "clear" => call[t].op = "move"
         /\ call[t] \in Calls
         /\ ptr \in [Slots -> Objects \cup {NULL}]
<1>1. CallFits(t) /\ call[t] \in Calls /\ at[t] \in PlacesOf(call[t].op)
  BY DEF PointersInv, PointersFit, CallFits
<1>2. at[t] # "idle" => call[t].op # "none"
  BY <1>1 DEF PlacesOf
<1>3. at[t] = "clear" => call[t].op = "move"
  <2>1. call[t].op \in {"none", "make", "copy", "move", "reset to", "reset"}
    BY <1>1 DEF Calls
  <2> QED
    BY <1>1, <2>1 DEF PlacesOf
<1>4. at[t] # "idle" => /\ t \in Users[library] /\ Named(t) \subseteq Mine(t)
                        /\ call[t].lhs \in Named(t) /\ call[t].rhs \in Named(t)
  BY <1>1 DEF CallFits, Named, Operands
<1>5. Mine(t) \subseteq Slots
  BY SlotFacts
<1>6. at[t] = "idle" => call[t] = NoCall /\ dying[t] = <<>>
  BY <1>1 DEF CallFits
<1>7. ptr \in [Slots -> Objects \cup {NULL}]
  BY DEF PointersInv, PointersFit
<1>8. at[t] # "idle" => Named(t) \subseteq Slots
  BY <1>4, <1>5
<1> QED
  BY <1>1, <1>2, <1>3, <1>4, <1>5, <1>6, <1>7, <1>8

\* What a call works on does not change while it is in.
LEMMA SameCall ==
  ASSUME NEW t, call'[t] = call[t]
  PROVE  /\ Operands(t)' = Operands(t) /\ Changed(t)' = Changed(t) /\ Named(t)' = Named(t)
         /\ Mine(t)' = Mine(t) /\ (ThroughSelf(t)' <=> ThroughSelf(t))
<1>1. Operands(t)' = Operands(t)
  BY DEF Operands
<1> QED
  BY <1>1 DEF Named, Changed, Mine, ThroughSelf

\* A pointer in flux is one the call changes, or inside an object it destroys.
LEMMA FluxWhere ==
  ASSUME ConstantsFit, PointersInv, NEW u \in Threads, NEW s \in Flux(u)
  PROVE  /\ s \in Slots /\ at[u] # "idle"
         /\ \/ s \in Changed(u)
            \/ \E i \in DOMAIN dying[u] : /\ s = Member(dying[u][i])
                                          /\ i < Len(dying[u]) \/ at[u] # "detach"
<1>1. Len(dying[u]) \in Nat /\ DOMAIN dying[u] = 1..Len(dying[u])
      /\ (dying[u] = <<>> <=> Len(dying[u]) = 0)
  BY DyingTypes
<1>2. at[u] = "idle" => dying[u] = <<>>
  BY CallTypes
<1>3. CASE s \in Raised(u)
  <2>1. at[u] = "clear" => call[u].op = "move"
    BY CallTypes
  <2> QED
    BY <1>3, <2>1 DEF Raised, Changed, Operands
<1>4. CASE s \in Dropped(u)
  <2> DEFINE last == IF at[u] = "null" THEN Len(dying[u]) ELSE Len(dying[u]) - 1
  <2>1. s \in Slots /\ ((last >= 0 /\ s = call[u].lhs) \/ \E i \in 1..last : s = Member(dying[u][i]))
    BY <1>4 DEF Dropped
  <2>2. last >= 0 => at[u] # "idle"
    BY <1>1, <1>2
  <2>3. \A i \in 1..last : /\ i \in DOMAIN dying[u] /\ last >= 0
                           /\ i < Len(dying[u]) \/ at[u] # "detach"
    BY <1>1
  <2> HIDE DEF last
  <2> QED
    BY <2>1, <2>2, <2>3 DEF Changed, Operands
<1> QED
  BY <1>3, <1>4 DEF Flux

\* The object a settled pointer refers to exists, has a count, and nobody is
\* destroying it.
LEMMA SettledKeeps ==
  ASSUME ConstantsFit, PointersInv, NEW s \in Slots, Settled(s), ptr[s] # NULL
  PROVE  /\ ptr[s] \in Objects /\ ptr[s] \in alive /\ Destroyers(ptr[s]) = {}
         /\ count[ptr[s]] \in Nat /\ count[ptr[s]] > 0
         /\ s \in Owners(ptr[s])
<1> DEFINE o == ptr[s]
<1>1. o \in alive /\ o \in Objects /\ count[o] \in Nat
  BY DEF PointersInv, PointersAlive, PointersFit
<1>2. s \in Owners(o)
  BY DEF Owners
<1>3. IsFiniteSet(Owners(o)) /\ IsFiniteSet(Releasing(o))
  <2>1. Owners(o) \subseteq Slots /\ Releasing(o) \subseteq Threads
    BY DEF Owners, Releasing
  <2> QED
    BY <2>1, SlotFacts, FS_Subset DEF ConstantsFit
<1>4. Cardinality(Owners(o)) \in Nat \ {0} /\ Cardinality(Releasing(o)) \in Nat
  BY <1>2, <1>3, FS_CardinalityType, FS_EmptySet
<1>5. count[o] = Cardinality(Owners(o)) + Cardinality(Releasing(o))
  BY <1>1 DEF PointersInv, PointersCounted
<1>6. count[o] > 0
  BY <1>4, <1>5
<1>7. ASSUME NEW u \in Threads, NEW i \in DOMAIN dying[u], dying[u][i] = o
      PROVE  FALSE
  BY <1>6, <1>7 DEF PointersInv, DyingFits
<1> QED
  BY <1>1, <1>2, <1>6, <1>7 DEF Destroyers

\* The pointers a thread has of its own are settled unless it changes them itself.
LEMMA OwnSettled ==
  ASSUME ConstantsFit, PointersInv, NEW t \in Threads, NEW s \in LocalsOf[t], s \notin Flux(t)
  PROVE  Settled(s) /\ s \in Slots
<1>1. s \in Slots
  BY SlotFacts
<1>2. ASSUME NEW u \in Threads, s \in Flux(u)
      PROVE  FALSE
  <2>1. u # t /\ at[u] # "idle"
    BY <1>2, FluxWhere
  <2>2. s \in Named(u)
    <3>1. \A i \in DOMAIN dying[u] : s # Member(dying[u][i])
      BY SlotFacts, DyingTypes
    <3> QED
      BY <1>2, <3>1, FluxWhere DEF Changed, Named, Operands
  <2>3. s \in Mine(u)
    BY <2>1, <2>2, CallTypes
  <2> QED
    BY <2>1, <2>3, SlotFacts DEF Mine
<1> QED
  BY <1>1, <1>2 DEF Settled, Flux

LEMMA IdleSettled ==
  ASSUME ConstantsFit, PointersInv, NEW t \in Threads, at[t] = "idle"
  PROVE  Flux(t) = {} /\ \A s \in LocalsOf[t] : Settled(s) /\ s \in Slots
<1>1. Flux(t) = {}
  BY FluxWhere
<1> QED
  BY <1>1, OwnSettled

\* What a call relies on: but for an assignment through itself, the pointers
\* followed to the right-hand side too.
Kept(t) == {call[t].lhs} \cup call[t].toLhs
           \cup (IF ThroughSelf(t) THEN {} ELSE {call[t].rhs} \cup call[t].toRhs)
Held(t) == Kept(t) \cup Operands(t)

LEMMA HeldAre ==
  ASSUME NEW t
  PROVE  /\ Operands(t) \subseteq Held(t) /\ Held(t) \subseteq Named(t) /\ Kept(t) \subseteq Held(t)
         /\ Changed(t) \subseteq Operands(t) /\ Operands(t) \subseteq Named(t)
         /\ call[t].lhs \in Changed(t) /\ call[t].lhs \in Kept(t)
         /\ call[t].op = "move" => call[t].rhs \in Changed(t)
         /\ ~ThroughSelf(t) => call[t].rhs \in Kept(t)
         /\ Held(t) \subseteq Kept(t) \cup {call[t].rhs}
BY DEF Held, Kept, Operands, Named, Changed

\* The objects those pointers are in exist, and nobody is destroying them.
LEMMA KeptNotDying ==
  ASSUME ConstantsFit, PointersInv, NEW t \in Threads, NEW o \in Objects, Member(o) \in Kept(t)
  PROVE  Destroyers(o) = {} /\ o \in alive
<1>1. PICK s \in Owners(o) : TRUE
  <2>1. CASE Member(o) \in {call[t].lhs} \cup call[t].toLhs
    BY <2>1 DEF PointersInv, LhsHeld
  <2>2. CASE Member(o) \notin {call[t].lhs} \cup call[t].toLhs
    <3>1. ~ThroughSelf(t) /\ Member(o) \in {call[t].rhs} \cup call[t].toRhs
      BY <2>2 DEF Kept
    <3> QED
      BY <3>1 DEF PointersInv, RhsHeld
  <2> QED
    BY <2>1, <2>2
<1>2. s \in Slots /\ Settled(s) /\ ptr[s] = o
  BY DEF Owners
<1>3. o # NULL
  BY DEF ConstantsFit
<1> QED
  BY <1>2, <1>3, SettledKeeps

\* The pointers inside the objects a thread destroys are not its operand.
LEMMA LhsNotDying ==
  ASSUME ConstantsFit, PointersInv, NEW t \in Threads, NEW o \in Objects, call[t].lhs = Member(o)
  PROVE  Destroyers(o) = {} /\ o \in alive
BY KeptNotDying DEF Kept

LEMMA RhsNotDying ==
  ASSUME ConstantsFit, PointersInv, NEW t \in Threads, NEW o \in Objects, call[t].rhs = Member(o), ~ThroughSelf(t)
  PROVE  Destroyers(o) = {} /\ o \in alive
BY KeptNotDying DEF Kept

\* A pointer that no other thread has, is working on or relies on.
Apart(t, s) == \A u \in Threads \ {t} : s \notin LocalsOf[u] \cup Held(u) \cup Flux(u)

LEMMA OperandApart ==
  ASSUME ConstantsFit, PointersInv, NEW t \in Threads, at[t] # "idle", NEW s \in Changed(t),
         \A o \in Objects : s = Member(o) => Destroyers(o) = {}
  PROVE  Apart(t, s) /\ s \in Slots
<1>1. s \in Mine(t) /\ s \in Slots /\ s # NULL
  BY CallTypes, SlotFacts, HeldAre
<1>2. ASSUME NEW u \in Threads \ {t} PROVE s \notin LocalsOf[u] \cup Held(u) \cup Flux(u)
  <2>1. s \notin LocalsOf[u]
    BY <1>1, SlotFacts DEF Mine
  <2>2. s \notin Named(u)
    BY <1>1 DEF PointersInv, NoneShared
  <2>3. s \notin Flux(u)
    <3>1. SUFFICES ASSUME s \in Flux(u) PROVE FALSE
      OBVIOUS
    <3>2. PICK i \in DOMAIN dying[u] : s = Member(dying[u][i])
      BY <2>2, <3>1, FluxWhere, HeldAre
    <3>3. dying[u][i] \in Objects
      BY DyingTypes
    <3> QED
      BY <3>2, <3>3 DEF Destroyers
  <2> QED
    BY <2>1, <2>2, <2>3, HeldAre
<1> QED
  BY <1>1, <1>2 DEF Apart

LEMMA LhsApart ==
  ASSUME ConstantsFit, PointersInv, NEW t \in Threads, at[t] # "idle"
  PROVE  Apart(t, call[t].lhs) /\ call[t].lhs \in Slots
<1>1. \A o \in Objects : call[t].lhs = Member(o) => Destroyers(o) = {}
  BY LhsNotDying
<1> QED
  BY <1>1, OperandApart, HeldAre

\* When the right-hand side is accessed, the object it is in is not being destroyed:
\* no other thread changes it then.
LEMMA RhsAlone ==
  ASSUME ConstantsFit, PointersInv, NEW t \in Threads, at[t] # "idle",
         ~ThroughSelf(t) \/ (~Bad(t) /\ at[t] \in {"load", "clear"})
  PROVE  /\ call[t].rhs \in Slots
         /\ \A u \in Threads \ {t} : call[t].rhs \notin Changed(u) \cup Flux(u)
         /\ call[t].op = "move" => Apart(t, call[t].rhs)
<1>1. ASSUME NEW o \in Objects, call[t].rhs = Member(o) PROVE Destroyers(o) = {}
  <2>1. CASE ~ThroughSelf(t)
    BY <1>1, <2>1, RhsNotDying
  <2>2. CASE ~Bad(t) /\ at[t] \in {"load", "clear"}
    BY <1>1, <2>2 DEF Bad, Touched
  <2> QED
    BY <2>1, <2>2
<1>2. call[t].rhs \in Slots /\ call[t].rhs # NULL /\ call[t].rhs \in Named(t)
  BY CallTypes, SlotFacts DEF Named, Operands
<1>3. ASSUME NEW u \in Threads \ {t} PROVE call[t].rhs \notin Changed(u) \cup Flux(u)
  <2>1. call[t].rhs \notin Changed(u)
    BY <1>2 DEF PointersInv, NoneShared
  <2>2. SUFFICES ASSUME call[t].rhs \in Flux(u) PROVE FALSE
    BY <2>1
  <2>3. PICK i \in DOMAIN dying[u] : call[t].rhs = Member(dying[u][i])
    BY <2>1, <2>2, FluxWhere
  <2>4. dying[u][i] \in Objects
    BY DyingTypes
  <2> QED
    BY <1>1, <2>3, <2>4 DEF Destroyers
<1> QED
  BY <1>1, <1>2, <1>3, OperandApart, HeldAre

LEMMA SlotApart ==
  ASSUME ConstantsFit, PointersInv, NEW t \in Threads,
         at[t] = "null" \/ (at[t] = "detach" /\ ~Bad(t))
  PROVE  Apart(t, Slot(t)) /\ Slot(t) \in Slots
<1>1. CASE dying[t] = <<>>
  BY <1>1, LhsApart DEF Slot
<1>2. CASE dying[t] # <<>>
  <2> DEFINE n == Len(dying[t])
             o == dying[t][n]
  <2>1. n \in DOMAIN dying[t] /\ o \in Objects /\ Slot(t) = Member(o)
    BY <1>2, DyingTypes DEF Slot, Innermost
  <2>4. \A u \in Threads : Slot(t) \notin Kept(u)
    BY <2>1, KeptNotDying DEF Destroyers
  <2>2. ASSUME NEW u \in Threads \ {t} PROVE Slot(t) \notin LocalsOf[u] \cup Held(u) \cup Flux(u)
    <3>1. Slot(t) \notin LocalsOf[u]
      BY <2>1, SlotFacts
    <3>2. Slot(t) \notin Held(u)
      <4>1. CASE at[t] = "null"
        <5>1. Slot(t) \notin Operands(u)
          BY <2>1, <4>1 DEF PointersInv, DyingFits
        <5> QED
          BY <2>4, <5>1 DEF Held
      <4>2. CASE at[t] = "detach" /\ ~Bad(t)
        <5>1. Slot(t) \notin Operands(u)
          BY <1>2, <2>1, <4>2 DEF Bad, Innermost
        <5> QED
          BY <2>4, <5>1 DEF Held
      <4> QED
        BY <4>1, <4>2
    <3>3. Slot(t) \notin Flux(u)
      <4>1. SUFFICES ASSUME Slot(t) \in Flux(u) PROVE FALSE
        OBVIOUS
      <4>2. PICK i \in DOMAIN dying[u] : Slot(t) = Member(dying[u][i])
        BY <3>2, <4>1, FluxWhere, HeldAre
      <4>3. o = dying[u][i]
        BY <2>1, <4>2, SlotFacts
      <4> QED
        BY <2>1, <4>3 DEF PointersInv, DyingFits
    <3> QED
      BY <3>1, <3>2, <3>3
  <2> QED
    BY <2>1, <2>2, SlotFacts DEF Apart
<1> QED
  BY <1>1, <1>2

-----------------------------------------------------------------------------
(***************************************************************************)
(* A step of a thread t changes the pointers of a set C at most, and these *)
(* are apart from the other threads.                                       *)
(***************************************************************************)
Only(t, C) ==
    /\ C \subseteq Slots /\ \A s \in C : Apart(t, s)
    /\ ptr' \in [Slots -> Objects \cup {NULL}]
    /\ library' = library
    /\ \A s \in Slots \ C : ptr'[s] = ptr[s] /\ (s \in Flux(t)' <=> s \in Flux(t))
    /\ \A u \in Threads \ {t} :
         call'[u] = call[u] /\ at'[u] = at[u] /\ dying'[u] = dying[u] /\ sum'[u] = sum[u]

LEMMA FluxElsewhere ==
  ASSUME NEW t \in Threads, NEW C, Only(t, C), NEW u \in Threads \ {t}
  PROVE  /\ Flux(u)' = Flux(u) /\ Named(u)' = Named(u) /\ (ThroughSelf(u)' <=> ThroughSelf(u))
         /\ Operands(u)' = Operands(u) /\ Changed(u)' = Changed(u)
<1>1. call'[u] = call[u] /\ at'[u] = at[u] /\ dying'[u] = dying[u]
  BY DEF Only
<1>2. Flux(u)' = Flux(u)
  BY <1>1 DEF Flux, Dropped, Raised
<1> QED
  BY <1>1, <1>2, SameCall

\* The other pointers are as settled as before; those of C are if t says so.
LEMMA SettledAfter ==
  ASSUME ConstantsFit, PointersInv, NEW t \in Threads, NEW C, Only(t, C), NEW s \in Slots
  PROVE  /\ s \notin C => ptr'[s] = ptr[s] /\ (Settled(s)' <=> Settled(s))
         /\ s \in C => (Settled(s)' <=> s \notin Flux(t)') /\ (Settled(s) <=> s \notin Flux(t))
<1>1. \A u \in Threads \ {t} : Flux(u)' = Flux(u)
  BY FluxElsewhere
<1>2. Settled(s) <=> \A u \in Threads : s \notin Flux(u)
  BY DEF Settled, Flux
<1>3. Settled(s)' <=> \A u \in Threads : s \notin Flux(u)'
  BY DEF Settled, Flux
<1>4. CASE s \notin C
  BY <1>1, <1>2, <1>3, <1>4 DEF Only
<1>5. CASE s \in C
  <2>1. \A u \in Threads \ {t} : s \notin Flux(u)
    BY <1>5 DEF Only, Apart
  <2> QED
    BY <1>1, <1>2, <1>3, <1>5, <2>1
<1> QED
  BY <1>4, <1>5

LEMMA OwnersAfter ==
  ASSUME ConstantsFit, PointersInv, NEW t \in Threads, NEW C, Only(t, C), NEW o
  PROVE  Owners(o)' = (Owners(o) \ C) \cup {s \in C : ptr'[s] = o /\ s \notin Flux(t)'}
<1>1. ASSUME NEW s \in Slots
      PROVE  s \in Owners(o)' <=> s \in (Owners(o) \ C) \cup {v \in C : ptr'[v] = o /\ v \notin Flux(t)'}
  <2>1. s \in Owners(o)' <=> ptr'[s] = o /\ Settled(s)'
    BY DEF Owners
  <2>2. s \in Owners(o) <=> ptr[s] = o /\ Settled(s)
    BY DEF Owners
  <2> QED
    BY <2>1, <2>2, SettledAfter
<1>2. Owners(o)' \subseteq Slots /\ Owners(o) \subseteq Slots /\ C \subseteq Slots
  BY DEF Owners, Only
<1> QED
  BY <1>1, <1>2

-----------------------------------------------------------------------------
(***************************************************************************)
(* What such a step leaves true of the other threads.                      *)
(***************************************************************************)
LEMMA OthersHeld ==
  ASSUME ConstantsFit, PointersInv, NEW t \in Users[library], NEW C, Only(t, C), NEW u \in Threads \ {t}
  PROVE  CallFits(u)' /\ LhsHeld(u)' /\ RhsHeld(u)' /\ ValueHeld(u)' /\ SumFits(u)'
<1>0. t \in Threads
  BY SlotFacts DEF PointersInv, PointersFit
<1>1. /\ CallFits(u) /\ LhsHeld(u) /\ RhsHeld(u) /\ ValueHeld(u)
      /\ call'[u] = call[u] /\ at'[u] = at[u] /\ dying'[u] = dying[u] /\ sum'[u] = sum[u]
      /\ library' = library
  BY DEF PointersInv, Only
<1>2. ASSUME NEW s \in Slots, s \in LocalsOf[u] \cup Held(u)
      PROVE  s \notin C /\ ptr'[s] = ptr[s] /\ (Settled(s)' <=> Settled(s))
             /\ \A o : s \in Owners(o) => s \in Owners(o)'
  <2>1. s \notin C
    BY <1>2 DEF Only, Apart
  <2>2. ptr'[s] = ptr[s] /\ (Settled(s)' <=> Settled(s))
    BY <1>0, <2>1, SettledAfter
  <2>3. \A o : s \in Owners(o) => s \in Owners(o)'
    BY <2>2 DEF Owners
  <2> QED
    BY <2>1, <2>2, <2>3
<1>3. at[u] # "idle" => call[u].lhs \in Slots /\ call[u].rhs \in Slots
  BY CallTypes
<1>4. CallFits(u)'
  <2>1. at[u] \in {"load", "store"} => ptr'[call[u].lhs] = ptr[call[u].lhs]
    BY <1>2, <1>3, HeldAre
  <2>2. Named(u)' = Named(u)
    BY <1>0, FluxElsewhere
  <2> QED
    BY <1>1, <2>1, <2>2 DEF CallFits, PlacesOf, Mine
<1>5. LhsHeld(u)'
  <2> SUFFICES ASSUME NEW o \in Objects, Member(o) \in {call[u].lhs} \cup call[u].toLhs
               PROVE  \E s \in Owners(o)' : s \in call[u].toLhs \/ (s = call[u].lhs /\ at[u] = "clear")
    BY <1>1 DEF LhsHeld
  <2>1. PICK s \in Owners(o) : s \in call[u].toLhs \/ (s = call[u].lhs /\ at[u] = "clear")
    BY DEF PointersInv, LhsHeld
  <2>2. s \in Slots
    BY DEF Owners
  <2> QED
    BY <1>2, <2>1, <2>2 DEF Held, Kept
<1>6. RhsHeld(u)'
  <2> SUFFICES ASSUME NEW o \in Objects, Member(o) \in {call[u].rhs} \cup call[u].toRhs, ~ThroughSelf(u)
               PROVE  \E s \in Owners(o)' : s \in call[u].toRhs
    BY <1>0, <1>1, FluxElsewhere DEF RhsHeld
  <2>1. PICK s \in Owners(o) : s \in call[u].toRhs
    BY DEF PointersInv, RhsHeld
  <2>2. s \in Slots
    BY DEF Owners
  <2> QED
    BY <1>2, <2>1, <2>2 DEF Held, Kept
<1>7. ValueHeld(u)'
  <2>0. PICK r : r = call[u].rhs
    OBVIOUS
  <2>1. at[u] # "idle" => /\ ptr'[call[u].lhs] = ptr[call[u].lhs]
                          /\ ptr'[r] = ptr[r]
                          /\ Settled(r)' <=> Settled(r)
    BY <1>2, <1>3, <2>0 DEF Held, Operands
  <2>2. call[u].op # "none" => at[u] # "idle"
    BY CallTypes DEF NoCall
  <2>3. ThroughSelf(u)' <=> ThroughSelf(u)
    BY <1>0, FluxElsewhere
  <2>4. /\ call[u].op = "copy" /\ at[u] \in {"attach", "write"} =>
             Settled(r) /\ ptr[call[u].lhs] = ptr[r]
        /\ call[u].op = "reset to" /\ ~ThroughSelf(u) => Settled(r) /\ ptr[r] = call[u].raw
        /\ call[u].op = "reset to" /\ at[u] \in {"attach", "write"} => ptr[call[u].lhs] = call[u].raw
    BY <1>1, <2>0 DEF ValueHeld
  <2> QED
    BY <1>1, <2>0, <2>1, <2>2, <2>3, <2>4 DEF ValueHeld, Settled
<1>8. SumFits(u)'
  <2>1. ASSUME at[u] = "write" PROVE FALSE
    <3>1. library = "scaleform" /\ u \in Users["scaleform"] /\ t \in Users["scaleform"]
      BY <2>1, CallTypes DEF PointersInv, CallFits
    <3> QED
      BY <3>1 DEF ConstantsFit, PointersInv, PointersFit
  <2> QED
    BY <1>1, <2>1 DEF SumFits
<1> QED
  BY <1>4, <1>5, <1>6, <1>7, <1>8

\* The objects a thread may get hold of: its own new one, one nobody has made, what
\* a pointer refers to that no other thread works on.
Reached(t, x) ==
    \/ x = call[t].raw \/ x \notin made
    \/ \E s \in Slots : ptr[s] = x /\ \A u \in Threads \ {t} : s \notin Changed(u)

\* The step destroys no object but one it was destroying, leaves the counts of such
\* objects alone, lets only objects it can reach die, names pointers that nobody
\* changes, changes pointers that nobody names, and stores what it can reach.
Gentle(t, C) ==
    /\ \A x \in alive : x \notin alive' => t \in Destroyers(x)
    /\ \A x \in alive : Destroyers(x) # {} => count'[x] = count[x]
    /\ \A i \in DOMAIN dying'[t] :
         \/ \E j \in DOMAIN dying[t] : dying'[t][i] = dying[t][j]
         \/ Destroyers(dying'[t][i]) = {} /\ Reached(t, dying'[t][i])
    /\ \A u \in Threads \ {t} : /\ Changed(t)' \cap Named(u) \subseteq {NULL}
                                 /\ Changed(u) \cap Named(t)' \subseteq {NULL}
    /\ \A o \in Objects : Member(o) \in Operands(t)' => Member(o) \in Operands(t) \/ Destroyers(o) = {}
    /\ call'[t].raw = NULL \/ Reached(t, call'[t].raw)
    /\ \A s \in C : ptr'[s] = NULL \/ Reached(t, ptr'[s])

LEMMA OthersDying ==
  ASSUME ConstantsFit, PointersInv, NEW t \in Users[library], NEW C, Only(t, C), Gentle(t, C), NEW u \in Threads \ {t}
  PROVE  DyingFits(u)'
<1>0. t \in Threads
  BY SlotFacts DEF PointersInv, PointersFit
<1>1. dying'[u] = dying[u] /\ at'[u] = at[u]
  BY DEF Only
<1> SUFFICES ASSUME NEW i \in DOMAIN dying[u]
             PROVE  /\ dying[u][i] \in alive' /\ count'[dying[u][i]] = 0
                    /\ \A j \in DOMAIN dying[u] : dying[u][i] = dying[u][j] => i = j
                    /\ \A w \in Threads \ {u} :
                         /\ \A j \in DOMAIN dying'[w] : dying[u][i] # dying'[w][j]
                         /\ i < Len(dying[u]) \/ at[u] # "detach" => Member(dying[u][i]) \notin Operands(w)'
  BY <1>1 DEF DyingFits
<1> DEFINE d == dying[u][i]
<1>2. /\ d \in alive /\ count[d] = 0 /\ d \in Objects
      /\ \A j \in DOMAIN dying[u] : d = dying[u][j] => i = j
      /\ \A w \in Threads \ {u} :
           /\ \A j \in DOMAIN dying[w] : d # dying[w][j]
           /\ i < Len(dying[u]) \/ at[u] # "detach" => Member(d) \notin Operands(w)
  BY DyingTypes DEF PointersInv, DyingFits
<1>3. u \in Destroyers(d) /\ t \notin Destroyers(d)
  BY <1>0, <1>2 DEF Destroyers
<1>4. d \in alive' /\ count'[d] = 0
  BY <1>2, <1>3 DEF Gentle
<1>5. ASSUME NEW w \in Threads \ {u}
      PROVE  /\ \A j \in DOMAIN dying'[w] : d # dying'[w][j]
             /\ i < Len(dying[u]) \/ at[u] # "detach" => Member(d) \notin Operands(w)'
  <2>1. CASE w = t
    <3>1. \A j \in DOMAIN dying'[t] : d # dying'[t][j]
      BY <1>0, <1>2, <1>3 DEF Gentle
    <3>2. i < Len(dying[u]) \/ at[u] # "detach" => Member(d) \notin Operands(t)'
      BY <1>0, <1>2, <1>3 DEF Gentle
    <3> QED
      BY <2>1, <3>1, <3>2
  <2>2. CASE w # t
    <3>1. dying'[w] = dying[w] /\ Operands(w)' = Operands(w)
      BY <1>0, <2>2, FluxElsewhere DEF Only
    <3> QED
      BY <1>2, <3>1
  <2> QED
    BY <2>1, <2>2
<1> QED
  BY <1>2, <1>4, <1>5

LEMMA OthersNew ==
  ASSUME ConstantsFit, PointersInv, NEW t \in Users[library], NEW C, Only(t, C), Gentle(t, C), NEW u \in Threads \ {t}
  PROVE  NewFits(u)'
<1>0. t \in Threads
  BY SlotFacts DEF PointersInv, PointersFit
<1>1. call'[u] = call[u] /\ at'[u] = at[u]
  BY DEF Only
<1>x. PICK x : x = call[u].raw
  OBVIOUS
<1> SUFFICES ASSUME call[u].op = "make"
             PROVE  /\ x \in alive' /\ ptr'[call[u].lhs] = x
                    /\ Destroyers(x)' = {}
                    /\ \A s \in Slots : ptr'[s] = x => s = call[u].lhs
                    /\ \A w \in Threads \ {u} : call'[w].raw # x
  BY <1>1, <1>x DEF NewFits, Destroyers
<1>2. at[u] \in {"attach", "write"}
  <2>1. at[u] \in {"attach", "write", "release"} /\ (at[u] = "release" => library = "scaleform")
    BY DEF PointersInv, CallFits, PlacesOf
  <2>2. at[u] # "release"
    <3>1. SUFFICES ASSUME at[u] = "release" PROVE FALSE
      OBVIOUS
    <3>2. library = "scaleform" /\ u \in Users["scaleform"] /\ t \in Users["scaleform"]
      BY <2>1, <3>1, CallTypes
    <3> QED
      BY <3>2 DEF ConstantsFit, PointersInv, PointersFit
  <2> QED
    BY <2>1, <2>2
<1>3. /\ x \in alive /\ x \in made /\ ptr[call[u].lhs] = x /\ Destroyers(x) = {} /\ x # NULL
      /\ \A s \in Slots : ptr[s] = x => s = call[u].lhs
      /\ \A w \in Threads \ {u} : call[w].raw # x
  BY <1>x, <1>2 DEF PointersInv, NewFits, PointersFit, ConstantsFit, Destroyers
<1>4. ~Reached(t, x)
  BY <1>0, <1>3, HeldAre DEF Reached
<1>5. call[u].lhs \in Slots /\ call[u].lhs \notin C
  BY <1>2, CallTypes, HeldAre DEF Only, Apart
<1>6. x \in alive' /\ ptr'[call[u].lhs] = x
  BY <1>3, <1>5 DEF Gentle, Only
<1>7. Destroyers(x)' = {}
  <2>1. ASSUME NEW w \in Threads, NEW i \in DOMAIN dying'[w], dying'[w][i] = x PROVE FALSE
    <3>1. CASE w = t
      BY <1>0, <1>3, <1>4, <2>1, <3>1 DEF Gentle, Destroyers
    <3>2. CASE w # t
      BY <1>3, <2>1, <3>2 DEF Only, Destroyers
    <3> QED
      BY <3>1, <3>2
  <2> QED
    BY <2>1 DEF Destroyers
<1>8. ASSUME NEW s \in Slots, ptr'[s] = x PROVE s = call[u].lhs
  BY <1>3, <1>4, <1>8 DEF Gentle, Only
<1>9. ASSUME NEW w \in Threads \ {u} PROVE call'[w].raw # x
  BY <1>3, <1>4 DEF Gentle, Only
<1> QED
  BY <1>6, <1>7, <1>8, <1>9

-----------------------------------------------------------------------------
(***************************************************************************)
(* What it leaves true of all, given what it does to its own.              *)
(***************************************************************************)
LEMMA SharedAfter ==
  ASSUME ConstantsFit, PointersInv, NEW t \in Users[library], NEW C, Only(t, C), Gentle(t, C)
  PROVE  NoneShared'
<1>0. t \in Threads
  BY SlotFacts DEF PointersInv, PointersFit
<1>1. \A u \in Threads \ {t} : Named(u)' = Named(u) /\ Changed(u)' = Changed(u)
  BY <1>0, FluxElsewhere
<1>2. ASSUME NEW u \in Threads, NEW w \in Threads, u # w
      PROVE  Changed(u)' \cap Named(w)' \subseteq {NULL}
  <2>1. CASE u = t
    BY <1>1, <1>2, <2>1 DEF Gentle
  <2>2. CASE w = t
    BY <1>1, <1>2, <2>2 DEF Gentle
  <2>3. CASE u # t /\ w # t
    BY <1>1, <1>2, <2>3 DEF PointersInv, NoneShared
  <2> QED
    BY <2>1, <2>2, <2>3
<1> QED
  BY <1>2 DEF NoneShared

LEMMA AliveAfter ==
  ASSUME ConstantsFit, PointersInv, NEW t \in Users[library], NEW C, Only(t, C), Gentle(t, C),
         \A s \in C : s \notin Flux(t)' => ptr'[s] \in alive' \cup {NULL}
  PROVE  PointersAlive'
<1>0. t \in Threads
  BY SlotFacts DEF PointersInv, PointersFit
<1>1. ASSUME NEW s \in Slots, Settled(s)' PROVE ptr'[s] \in alive' \cup {NULL}
  <2>1. CASE s \in C
    BY <1>0, <1>1, <2>1, SettledAfter
  <2>2. CASE s \notin C
    <3>1. Settled(s) /\ ptr'[s] = ptr[s]
      BY <1>0, <1>1, <2>2, SettledAfter
    <3>2. ptr[s] # NULL => ptr[s] \in alive /\ Destroyers(ptr[s]) = {}
      BY <3>1, SettledKeeps
    <3> QED
      BY <3>1, <3>2 DEF Gentle
  <2> QED
    BY <2>1, <2>2
<1> QED
  BY <1>1 DEF PointersAlive

LEMMA BornAfter ==
  ASSUME ConstantsFit, PointersInv, NEW t \in Users[library], NEW C, Only(t, C),
         \A o \in alive' : count'[o] = 0 =>
            \/ o \in alive /\ count[o] = 0 /\ (t \in Destroyers(o) => t \in Destroyers(o)')
                 /\ (call[t].op = "make" /\ call[t].raw = o =>
                        call'[t].op = "make" /\ call'[t].raw = o)
            \/ t \in Destroyers(o)'
            \/ call'[t].op = "make" /\ call'[t].raw = o
  PROVE  BornOrDying'
<1>0. t \in Threads
  BY SlotFacts DEF PointersInv, PointersFit
<1>1. ASSUME NEW o \in alive', count'[o] = 0
      PROVE  Destroyers(o)' # {} \/ \E u \in Threads : call'[u].op = "make" /\ call'[u].raw = o
  <2>1. CASE t \in Destroyers(o)' \/ (call'[t].op = "make" /\ call'[t].raw = o)
    BY <1>0, <2>1
  <2>2. CASE /\ o \in alive /\ count[o] = 0 /\ (t \in Destroyers(o) => t \in Destroyers(o)')
             /\ (call[t].op = "make" /\ call[t].raw = o => call'[t].op = "make" /\ call'[t].raw = o)
    <3>1. Destroyers(o) # {} \/ \E u \in Threads : call[u].op = "make" /\ call[u].raw = o
      BY <2>2 DEF PointersInv, BornOrDying
    <3>2. \A u \in Threads \ {t} : call'[u] = call[u] /\ (u \in Destroyers(o) => u \in Destroyers(o)')
      BY DEF Only, Destroyers
    <3> QED
      BY <1>0, <2>2, <3>1, <3>2 DEF Destroyers
  <2> QED
    BY <1>1, <2>1, <2>2
<1> QED
  BY <1>1 DEF BornOrDying

OwnFits(t) ==
    /\ CallFits(t) /\ DyingFits(t)
    /\ LhsHeld(t) /\ RhsHeld(t) /\ ValueHeld(t) /\ NewFits(t) /\ SumFits(t)

LEMMA Assembled ==
  ASSUME ConstantsFit, PointersInv, NEW t \in Users[library], NEW C, Only(t, C), Gentle(t, C),
         PointersFit', OwnFits(t)', PointersAlive', PointersCounted', BornOrDying'
  PROVE  PointersInv'
<1>1. \A u \in Threads \ {t} :
          CallFits(u)' /\ LhsHeld(u)' /\ RhsHeld(u)' /\ ValueHeld(u)' /\ SumFits(u)'
  BY OthersHeld
<1>2. \A u \in Threads \ {t} : DyingFits(u)' /\ NewFits(u)'
  BY OthersDying, OthersNew
<1>3. NoneShared'
  BY SharedAfter
<1> QED
  BY <1>1, <1>2, <1>3 DEF PointersInv, OwnFits

\* A call that has ended has nothing more to hold.
LEMMA Ended ==
  ASSUME ConstantsFit, NEW t \in Threads, at'[t] = "idle", call'[t] = NoCall, dying'[t] = <<>>
  PROVE  OwnFits(t)' /\ Named(t)' = {NULL} /\ Flux(t)' = {}
<1>1. \A o \in Objects : NULL # Member(o)
  BY SlotFacts
<1>2. Len(dying'[t]) = 0 /\ DOMAIN dying'[t] = {}
  OBVIOUS
<1>3. CallFits(t)'
  <2>1. {} = call'[t].toLhs /\ {} = call'[t].toRhs
    BY DEF NoCall
  <2> QED
    BY <2>1 DEF CallFits, NoCall, PlacesOf
<1>4. DyingFits(t)'
  BY <1>2 DEF DyingFits
<1>5. LhsHeld(t)' /\ RhsHeld(t)' /\ ValueHeld(t)' /\ NewFits(t)' /\ SumFits(t)'
  BY <1>1 DEF LhsHeld, RhsHeld, ValueHeld, NewFits, SumFits, NoCall
<1>6. Named(t)' = {NULL}
  BY DEF Named, Operands, NoCall
<1>7. Flux(t)' = {}
  BY <1>2 DEF Flux, Dropped, Raised
<1> QED
  BY <1>3, <1>4, <1>5, <1>6, <1>7 DEF OwnFits

\* The counts stay exact where nobody's owners and counts change.
LEMMA CountsSame ==
  ASSUME PointersInv,
         \A o \in alive' : /\ o \in alive /\ count'[o] = count[o]
                           /\ Owners(o)' = Owners(o) /\ Releasing(o)' = Releasing(o)
  PROVE  PointersCounted'
BY DEF PointersInv, PointersCounted

LEMMA ReleasingSame ==
  ASSUME NEW t \in Threads, NEW C, Only(t, C), NEW o,
         call'[t].op = "make" /\ call'[t].raw = o <=> call[t].op = "make" /\ call[t].raw = o
  PROVE  Releasing(o)' = Releasing(o)
BY DEF Only, Releasing

LEMMA EmptyStack ==
  ASSUME NEW st, st = <<>>
  PROVE  Len(st) = 0 /\ DOMAIN st = {}
OBVIOUS

LEMMA CountFacts ==
  ASSUME ConstantsFit, PointersInv, NEW o \in alive
  PROVE  /\ o \in Objects /\ o # NULL /\ count[o] \in Nat
         /\ IsFiniteSet(Owners(o)) /\ IsFiniteSet(Releasing(o))
         /\ Cardinality(Owners(o)) \in Nat /\ Cardinality(Releasing(o)) \in Nat
         /\ count[o] = Cardinality(Owners(o)) + Cardinality(Releasing(o))
<1>1. IsFiniteSet(Owners(o)) /\ IsFiniteSet(Releasing(o))
  <2>1. Owners(o) \subseteq Slots /\ Releasing(o) \subseteq Threads
    BY DEF Owners, Releasing
  <2> QED
    BY <2>1, SlotFacts, FS_Subset DEF ConstantsFit
<1> QED
  BY <1>1, FS_CardinalityType DEF PointersInv, PointersFit, PointersCounted, ConstantsFit

-----------------------------------------------------------------------------
(***************************************************************************)
(* A call begins.                                                          *)
(***************************************************************************)

\* The pointers on a route are settled, and the objects they are in are kept by
\* those before them: the first on the route that was not would be inside an object
\* that a settled one refers to.
LEMMA RouteFacts ==
  ASSUME ConstantsFit, PointersInv, NEW t \in Threads, at[t] = "idle", NEW r \in Usable(t)
  PROVE  /\ r.to \in Slots /\ r.to \in Mine(t) /\ r.to # NULL /\ Settled(r.to) /\ r.to \notin r.by
         /\ r.by \subseteq Slots /\ r.by \subseteq Mine(t)
         /\ \A u \in Threads \ {t} : r.to \notin Changed(u) /\ r.by \cap Changed(u) = {}
         /\ \A o \in Objects : Member(o) \in {r.to} \cup r.by =>
                Destroyers(o) = {} /\ \E v \in r.by : v \in Owners(o)
<1>1. PICK p \in LocalsOf[t], trail \in Trails : Follows(p, trail) /\ r = Route(p, trail)
  BY DEF Usable
<1>2. PICK n \in Nat : trail \in [1..n -> Objects]
  <2>1. PICK n \in 0..Cardinality(Objects) : trail \in [1..n -> Objects]
    BY DEF Trails
  <2>2. n \in Nat
    BY FS_CardinalityType DEF ConstantsFit
  <2> QED
    BY <2>1, <2>2
<1>3. Len(trail) = n /\ DOMAIN trail = 1..n
  BY <1>2
<1> DEFINE S(i) == Stop(p, trail, i)
<1>4. S(0) = p /\ \A i \in 1..n : S(i) = Member(trail[i]) /\ trail[i] \in Objects
  BY <1>2 DEF Stop
<1>5. \A i \in 0..n : S(i) \in Slots /\ S(i) \in Mine(t) /\ S(i) # NULL
  <2>1. p \in Slots /\ p \in Mine(t) /\ p # NULL
    BY SlotFacts DEF Mine
  <2>2. \A o \in Objects : Member(o) \in Slots /\ Member(o) \in Mine(t) /\ Member(o) # NULL
    BY SlotFacts DEF Mine
  <2>3. \A i \in 0..n : i = 0 \/ i \in 1..n
    OBVIOUS
  <2> HIDE DEF S
  <2> QED
    BY <1>4, <2>1, <2>2, <2>3
<1>6. \A i \in 1..n : ptr[S(i - 1)] = trail[i]
  BY <1>1, <1>3 DEF Follows
<1>7. \A i, j \in 0..n : S(i) = S(j) => i = j
  <2>1. \A i, j \in 1..n : trail[i] = trail[j] => i = j
    BY <1>3 DEF Trails
  <2>2. \A o \in Objects : Member(o) # p
    BY SlotFacts
  <2>3. \A i \in 0..n : i = 0 \/ i \in 1..n
    OBVIOUS
  <2>4. \A o, v : Member(o) = Member(v) => o = v
    BY SlotFacts
  <2> HIDE DEF S
  <2> QED
    BY <1>4, <2>1, <2>2, <2>3, <2>4
<1>8. r.to = S(n) /\ r.by = {S(i) : i \in 0..(n - 1)}
  BY <1>1, <1>3 DEF Route
<1>9. \A i \in 0..n : S(i) \in {r.to} \cup r.by
  <2>1. \A i \in 0..n : i = n \/ i \in 0..(n - 1)
    BY <1>2
  <2> HIDE DEF S
  <2> QED
    BY <1>8, <2>1
<1>10. \A u \in Threads \ {t} : \A i \in 0..n : S(i) \notin Changed(u)
  <2>1. \A u \in Threads \ {t} : (r.by \cup {r.to}) \cap Changed(u) = {}
    BY DEF Usable
  <2> HIDE DEF S
  <2> QED
    BY <1>9, <2>1
<1> HIDE DEF S
<1>11. ASSUME NEW i \in 1..n, Settled(S(i - 1))
       PROVE  Destroyers(trail[i]) = {} /\ S(i - 1) \in Owners(trail[i])
  <2>1. i - 1 \in 0..n
    BY <1>2
  <2>2. S(i - 1) \in Slots /\ ptr[S(i - 1)] = trail[i] /\ trail[i] \in Objects /\ trail[i] # NULL
    BY <1>4, <1>5, <1>6, <2>1 DEF ConstantsFit
  <2> QED
    BY <1>11, <2>2, SettledKeeps
<1>12. \A i \in 0..n : Settled(S(i))
  <2> DEFINE B == {i \in 0..n : ~Settled(S(i))}
  <2>1. SUFFICES ASSUME B # {} PROVE FALSE
    OBVIOUS
  <2>2. B \subseteq Nat
    OBVIOUS
  <2>3. PICK m \in B : \A j \in B : m <= j
    BY <2>1, <2>2, LeastOf
  <2>4. m # 0
    BY <1>4, <2>3, IdleSettled
  <2>5. m \in 1..n /\ m - 1 \in 0..n /\ m - 1 \notin B
    BY <1>2, <2>3, <2>4
  <2>6. Destroyers(trail[m]) = {} /\ S(m) = Member(trail[m])
    BY <1>4, <1>11, <2>5
  <2>7. ASSUME NEW u \in Threads, S(m) \in Flux(u) PROVE FALSE
    <3>1. u # t
      BY <2>7, IdleSettled
    <3>2. S(m) \notin Changed(u)
      BY <1>10, <2>3, <3>1
    <3>3. PICK i \in DOMAIN dying[u] : S(m) = Member(dying[u][i])
      BY <2>7, <3>2, FluxWhere
    <3>4. dying[u][i] = trail[m]
      BY <2>6, <3>3, SlotFacts
    <3> QED
      BY <2>6, <3>4 DEF Destroyers
  <2>8. Settled(S(m))
    BY <2>7 DEF Settled, Flux
  <2> QED
    BY <2>3, <2>8
<1>13. ASSUME NEW o \in Objects, NEW i \in 0..n, Member(o) = S(i)
       PROVE  Destroyers(o) = {} /\ \E v \in r.by : v \in Owners(o)
  <2>1. i # 0
    BY <1>4, <1>13, SlotFacts
  <2>2. i \in 1..n /\ i - 1 \in 0..n /\ i - 1 \in 0..(n - 1)
    BY <1>2, <2>1
  <2>3. o = trail[i]
    BY <1>4, <1>13, <2>2, SlotFacts
  <2>4. Destroyers(o) = {} /\ S(i - 1) \in Owners(o)
    BY <1>11, <1>12, <2>2, <2>3
  <2>5. S(i - 1) \in r.by
    BY <1>8, <2>2
  <2> QED
    BY <2>4, <2>5
<1>14. n \in 0..n /\ \A i \in 0..(n - 1) : i \in 0..n /\ i # n
  BY <1>2
<1>15. r.to \in Slots /\ r.to \in Mine(t) /\ r.to # NULL /\ Settled(r.to) /\ r.to \notin r.by
  BY <1>5, <1>7, <1>8, <1>12, <1>14
<1>16. r.by \subseteq Slots /\ r.by \subseteq Mine(t)
  BY <1>5, <1>8, <1>14
<1>17. ASSUME NEW u \in Threads \ {t} PROVE r.to \notin Changed(u) /\ r.by \cap Changed(u) = {}
  BY <1>8, <1>10, <1>14
<1>18. ASSUME NEW o \in Objects, Member(o) \in {r.to} \cup r.by
       PROVE  Destroyers(o) = {} /\ \E v \in r.by : v \in Owners(o)
  <2>1. PICK i \in 0..n : Member(o) = S(i)
    BY <1>8, <1>14, <1>18
  <2> QED
    BY <1>13, <2>1
<1> QED
  BY <1>15, <1>16, <1>17, <1>18

LEMMA ChangeableFacts ==
  ASSUME ConstantsFit, PointersInv, NEW t \in Threads, at[t] = "idle", NEW r \in Changeable(t)
  PROVE  /\ r \in Usable(t) /\ Apart(t, r.to)
         /\ \A u \in Threads \ {t} : r.to \notin Named(u)
<1>1. r \in Usable(t) /\ \A u \in Threads \ {t} : r.to \notin Named(u)
  BY DEF Changeable
<1>2. r.to \in Slots /\ r.to \in Mine(t) /\ Settled(r.to)
  BY <1>1, RouteFacts
<1>3. ASSUME NEW u \in Threads \ {t} PROVE r.to \notin LocalsOf[u] \cup Held(u) \cup Flux(u)
  <2>1. r.to \notin LocalsOf[u]
    BY <1>2, SlotFacts DEF Mine
  <2>2. r.to \notin Flux(u)
    BY <1>2 DEF Settled, Flux
  <2> QED
    BY <1>1, <2>1, <2>2, HeldAre
<1> QED
  BY <1>1, <1>3 DEF Apart

\* A call of copy, move or reset changes nothing yet.
LEMMA AssignStep ==
  ASSUME ConstantsFit, PointersInv, NEW t \in Users[library], Copy(t) \/ Move(t) \/ ResetTo(t) \/ Reset(t)
  PROVE  PointersInv'
<1>0. t \in Threads
  BY SlotFacts DEF PointersInv, PointersFit
<1>1. PICK lr, rr, op, raw :
        /\ lr \in Changeable(t) /\ rr \in Usable(t) /\ (op = "move" => rr \in Changeable(t))
        /\ op \in {"copy", "move", "reset to", "reset"} /\ raw \in Objects \cup {NULL}
        /\ Assign(t, op, lr, rr, raw)
        /\ op = "reset" => lr = rr
        /\ op # "reset" => lr.to # rr.to
        /\ raw = IF op = "reset to" THEN ptr[rr.to] ELSE NULL
  <2>1. \A r \in Usable(t) : at[t] = "idle" => r.to \in Slots
    BY <1>0, RouteFacts
  <2>2. \A s \in Slots : ptr[s] \in Objects \cup {NULL}
    BY DEF PointersInv, PointersFit
  <2>0. Changeable(t) \subseteq Usable(t)
    BY DEF Changeable
  <2>3. CASE Copy(t)
    BY <2>3 DEF Copy
  <2>4. CASE Move(t)
    BY <2>0, <2>4 DEF Move
  <2>5. CASE ResetTo(t)
    <3>1. PICK l \in Changeable(t), r \in Usable(t) :
             ptr[l.to] # ptr[r.to] /\ Assign(t, "reset to", l, r, ptr[r.to])
      BY <2>5 DEF ResetTo
    <3>2. ptr[r.to] \in Objects \cup {NULL}
      BY <2>1, <2>2, <3>1 DEF Assign, Begin
    <3> QED
      BY <3>1, <3>2
  <2>6. CASE Reset(t)
    BY <2>0, <2>6 DEF Reset
  <2> QED
    BY <2>3, <2>4, <2>5, <2>6
<1>a. PICK l, r, L, R : l = lr.to /\ L = lr.by /\ r = rr.to /\ R = rr.by
  OBVIOUS
<1>2. PICK new : new = [op |-> op, lhs |-> l, rhs |-> r, toLhs |-> L, toRhs |-> R, raw |-> raw]
  OBVIOUS
<1>3. /\ at[t] = "idle" /\ call' = [call EXCEPT ![t] = new] /\ at' = [at EXCEPT ![t] = "detach"]
      /\ library' = library /\ ptr' = ptr /\ count' = count /\ alive' = alive /\ made' = made
      /\ dying' = dying /\ sum' = sum /\ undefined' = undefined
  BY <1>1, <1>a, <1>2 DEF Assign, Begin
<1>4. /\ call'[t].op = op /\ call'[t].lhs = l /\ call'[t].rhs = r
      /\ call'[t].toLhs = L /\ call'[t].toRhs = R /\ call'[t].raw = raw /\ at'[t] = "detach"
      /\ call[t].op = "none" /\ call[t].lhs = NULL /\ call[t].rhs = NULL
      /\ call[t].toLhs = {} /\ call[t].toRhs = {}
      /\ dying'[t] = <<>> /\ dying[t] = <<>>
      /\ \A u \in Threads \ {t} : call'[u] = call[u] /\ at'[u] = at[u]
  <2>1. call'[t] = new /\ at'[t] = "detach" /\ \A u \in Threads \ {t} : call'[u] = call[u] /\ at'[u] = at[u]
    BY <1>0, <1>3 DEF PointersInv, PointersFit
  <2>2. call[t] = NoCall /\ dying[t] = <<>>
    BY <1>0, <1>3, CallTypes
  <2>3. /\ call[t].op = "none" /\ call[t].lhs = NULL /\ call[t].rhs = NULL
        /\ call[t].toLhs = {} /\ call[t].toRhs = {}
    BY <2>2 DEF NoCall
  <2>4. /\ call'[t].op = op /\ call'[t].lhs = l /\ call'[t].rhs = r
        /\ call'[t].toLhs = L /\ call'[t].toRhs = R /\ call'[t].raw = raw
    BY <1>2, <2>1
  <2> QED
    BY <1>3, <2>1, <2>2, <2>3, <2>4
<1>5. /\ l \in Slots /\ r \in Slots /\ l \in Mine(t) /\ r \in Mine(t) /\ Settled(l) /\ Settled(r)
      /\ L \subseteq Slots /\ R \subseteq Slots /\ L \subseteq Mine(t) /\ R \subseteq Mine(t)
      /\ l \notin L /\ r \notin R
      /\ \A o \in Objects : Member(o) \in {l} \cup L =>
            Destroyers(o) = {} /\ \E p \in L : p \in Owners(o)
      /\ \A o \in Objects : Member(o) \in {r} \cup R =>
            Destroyers(o) = {} /\ \E p \in R : p \in Owners(o)
  <2>1. lr \in Usable(t) /\ rr \in Usable(t)
    BY <1>1 DEF Changeable
  <2> QED
    BY <1>0, <1>a, <1>3, <2>1, RouteFacts
<1>b. \A u \in Threads \ {t} :
         /\ l \notin Named(u) /\ (op = "move" => r \notin Named(u))
         /\ l \notin Changed(u) /\ r \notin Changed(u)
         /\ L \cap Changed(u) = {} /\ R \cap Changed(u) = {}
  <2>1. lr \in Usable(t) /\ rr \in Usable(t)
    BY <1>1 DEF Changeable
  <2>2. \A u \in Threads \ {t} : l \notin Named(u) /\ (op = "move" => r \notin Named(u))
    BY <1>0, <1>1, <1>a, <1>3, ChangeableFacts
  <2> QED
    BY <1>0, <1>a, <1>3, <2>1, <2>2, RouteFacts
<1>6. Flux(t)' = {} /\ Flux(t) = {}
  <2>1. Len(dying'[t]) = 0
    BY <1>4, EmptyStack
  <2> QED
    BY <1>0, <1>3, <1>4, <2>1, IdleSettled DEF Flux, Dropped, Raised
<1>c. PICK C : C = {}
  OBVIOUS
<1>7. Only(t, C)
  BY <1>c, <1>3, <1>4, <1>6 DEF Only, PointersInv, PointersFit
<1>8. /\ Named(t)' = {l, r} \cup L \cup R /\ Operands(t)' = {l, r}
      /\ Changed(t)' = IF op = "move" THEN {l, r} ELSE {l}
  BY <1>4 DEF Named, Operands, Changed
<1>9. Gentle(t, C)
  <2>1. raw = NULL \/ Reached(t, raw)
    BY <1>1, <1>a, <1>5, <1>b DEF Reached
  <2>2. ASSUME NEW u \in Threads \ {t}
        PROVE  /\ Changed(t)' \cap Named(u) \subseteq {NULL}
               /\ Changed(u) \cap Named(t)' \subseteq {NULL}
    BY <1>8, <1>b
  <2>3. \A o \in Objects : Member(o) \in Operands(t)' => Destroyers(o) = {}
    BY <1>5, <1>8
  <2> QED
    BY <1>c, <1>3, <1>4, <2>1, <2>2, <2>3, EmptyStack DEF Gentle
<1>10. /\ \A s \in Slots : Settled(s)' <=> Settled(s)
       /\ \A o : Owners(o)' = Owners(o)
       /\ \A o : Releasing(o)' = Releasing(o)
  <2>1. \A o : Owners(o)' = Owners(o)
    BY <1>0, <1>c, <1>7, OwnersAfter
  <2>2. \A o : Releasing(o)' = Releasing(o)
    <3>1. call'[t].op # "make" /\ call[t].op # "make"
      BY <1>1, <1>4
    <3> QED
      BY <1>0, <1>7, <3>1, ReleasingSame
  <2> QED
    BY <1>0, <1>c, <1>7, <2>1, <2>2, SettledAfter
<1>11. PointersFit'
  <2>1. new \in Calls
    BY <1>1, <1>2, <1>5 DEF Calls, PointersInv, PointersFit
  <2>2. raw \in made \cup {NULL}
    BY <1>1, <1>a, <1>5 DEF PointersInv, PointersFit
  <2>3. \A u \in Threads : call'[u].raw \in made' \cup {NULL}
    <3>1. \A u \in Threads : call[u].raw \in made \cup {NULL}
      BY DEF PointersInv, PointersFit
    <3> QED
      BY <1>3, <1>4, <2>2, <3>1
  <2> QED
    BY <1>3, <2>1, <2>3 DEF PointersInv, PointersFit, Places
<1>12. OwnFits(t)'
  <2>1. CallFits(t)'
    <3>1. /\ t \in Users[library'] /\ (op = "reset" => l = r) /\ (op # "reset" => l # r)
          /\ op \in {"copy", "move", "reset to", "reset"}
      BY <1>1, <1>a, <1>3
    <3>2. "detach" \in PlacesOf(op)
      BY <3>1 DEF PlacesOf
    <3>3. Named(t)' \subseteq Mine(t)'
      BY <1>5, <1>8 DEF Mine
    <3> QED
      BY <1>4, <1>5, <3>1, <3>2, <3>3 DEF CallFits
  <2>2. DyingFits(t)'
    <3>1. DOMAIN dying'[t] = {}
      BY <1>4, EmptyStack
    <3> QED
      BY <3>1 DEF DyingFits
  <2>3. LhsHeld(t)'
    BY <1>4, <1>5, <1>10 DEF LhsHeld
  <2>4. RhsHeld(t)'
    BY <1>4, <1>5, <1>10 DEF RhsHeld
  <2>5. ValueHeld(t)'
    <3>1. op = "reset to" => Settled(r)' /\ ptr'[r] = raw
      BY <1>1, <1>a, <1>3, <1>5, <1>10
    <3> QED
      BY <1>4, <3>1 DEF ValueHeld, Settled
  <2>6. NewFits(t)' /\ SumFits(t)'
    BY <1>1, <1>4 DEF NewFits, SumFits
  <2> QED
    BY <2>1, <2>2, <2>3, <2>4, <2>5, <2>6 DEF OwnFits
<1>13. PointersAlive'
  BY <1>c, <1>7, <1>9, AliveAfter
<1>14. PointersCounted'
  BY <1>3, <1>10, CountsSame
<1>15. BornOrDying'
  <2>1. \A o : t \in Destroyers(o) => t \in Destroyers(o)'
    BY <1>3 DEF Destroyers
  <2>2. call[t].op # "make"
    BY <1>4
  <2> QED
    BY <1>3, <1>7, <2>1, <2>2, BornAfter
<1> QED
  BY <1>7, <1>9, <1>11, <1>12, <1>13, <1>14, <1>15, Assembled

-----------------------------------------------------------------------------
(***************************************************************************)
(* An access: where the call goes on, and what is then in flux.            *)
(***************************************************************************)
LEMMA NoCallFields ==
  /\ NoCall.op = "none" /\ NoCall.lhs = NULL /\ NoCall.rhs = NULL
  /\ NoCall.toLhs = {} /\ NoCall.toRhs = {} /\ NoCall.raw = NULL
  /\ NoCall \in Calls
BY DEF NoCall, Calls

LEMMA AccessFacts ==
  ASSUME ConstantsFit, PointersInv, NEW t \in Users[library], at[t] # "idle"
  PROVE  /\ t \in Threads /\ library \in Libraries
         /\ call[t].lhs \in Slots /\ call[t].rhs \in Slots
         /\ call[t].lhs # NULL /\ call[t].rhs # NULL
         /\ call[t].op # "none" /\ at[t] \in PlacesOf(call[t].op)
         /\ CallFits(t) /\ DyingFits(t) /\ LhsHeld(t) /\ RhsHeld(t)
         /\ ValueHeld(t) /\ NewFits(t) /\ SumFits(t)
<1>1. t \in Threads /\ library \in Libraries
  BY SlotFacts DEF PointersInv, PointersFit
<1>2. /\ call[t].lhs \in Slots /\ call[t].rhs \in Slots /\ NULL \notin Slots
      /\ call[t].op # "none"
  BY <1>1, CallTypes, SlotFacts
<1>3. /\ CallFits(t) /\ DyingFits(t) /\ LhsHeld(t) /\ RhsHeld(t)
      /\ ValueHeld(t) /\ NewFits(t) /\ SumFits(t)
  BY <1>1 DEF PointersInv
<1>4. at[t] \in PlacesOf(call[t].op)
  BY <1>3 DEF CallFits
<1> QED
  BY <1>1, <1>2, <1>3, <1>4

LEMMA GoFacts ==
  ASSUME ConstantsFit, PointersInv, NEW t \in Threads, NEW next, Go(t, next)
  PROVE  /\ at'[t] = next /\ library' = library /\ made' = made /\ undefined' = undefined
         /\ next # "idle" => call'[t] = call[t]
         /\ next = "idle" => call'[t] = NoCall
         /\ \A u \in Threads \ {t} : call'[u] = call[u] /\ at'[u] = at[u]
         /\ call' \in [Threads -> Calls]
         /\ next \in Places => at' \in [Threads -> Places]
         /\ Named(t)' \subseteq Named(t) \cup {NULL}
         /\ Operands(t)' \subseteq Operands(t) \cup {NULL}
         /\ Changed(t)' \subseteq Changed(t) \cup {NULL}
         /\ call'[t].raw \in {call[t].raw, NULL}
         /\ \A u \in Threads : call'[u].raw \in made' \cup {NULL}
<1>r. \A u \in Threads : call[u].raw \in made \cup {NULL}
  BY DEF PointersInv, PointersFit
<1>1. call \in [Threads -> Calls] /\ at \in [Threads -> Places]
  BY DEF PointersInv, PointersFit
<1>2. NoCall \in Calls
  BY NoCallFields
<1>3. CASE next = "idle"
  <2>1. call' = [call EXCEPT ![t] = NoCall] /\ at' = [at EXCEPT ![t] = next]
    BY <1>3 DEF Go
  <2>2. call'[t] = NoCall
    BY <1>1, <2>1
  <2>3. /\ Named(t)' \subseteq Named(t) \cup {NULL} /\ call'[t].raw = NULL
        /\ Operands(t)' \subseteq Operands(t) \cup {NULL}
        /\ Changed(t)' \subseteq Changed(t) \cup {NULL}
    BY <2>2, NoCallFields DEF Named, Operands, Changed
  <2>4. call' \in [Threads -> Calls]
    BY <1>1, <1>2, <2>1
  <2>5. made' = made /\ \A u \in Threads \ {t} : call'[u] = call[u]
    BY <1>1, <2>1 DEF Go
  <2>6. \A u \in Threads : call'[u].raw \in made' \cup {NULL}
    BY <1>r, <2>3, <2>5
  <2> QED
    BY <1>1, <1>3, <2>1, <2>2, <2>3, <2>4, <2>6 DEF Go
<1>4. CASE next # "idle"
  <2>1. call' = call /\ at' = [at EXCEPT ![t] = next]
    BY <1>4 DEF Go
  <2> QED
    BY <1>1, <1>r, <1>4, <2>1 DEF Go, Named, Operands, Changed
<1> QED
  BY <1>3, <1>4

LEMMA GentleGo ==
  ASSUME ConstantsFit, PointersInv, NEW t \in Threads, NEW next, Go(t, next), NEW C,
         \A x \in alive : x \notin alive' => t \in Destroyers(x),
         \A x \in alive : Destroyers(x) # {} => count'[x] = count[x],
         \A i \in DOMAIN dying'[t] :
           \/ \E j \in DOMAIN dying[t] : dying'[t][i] = dying[t][j]
           \/ Destroyers(dying'[t][i]) = {} /\ Reached(t, dying'[t][i]),
         \A s \in C : ptr'[s] = NULL \/ Reached(t, ptr'[s])
  PROVE  Gentle(t, C)
<1>1. /\ Named(t)' \subseteq Named(t) \cup {NULL} /\ call'[t].raw \in {call[t].raw, NULL}
      /\ Operands(t)' \subseteq Operands(t) \cup {NULL} /\ Changed(t)' \subseteq Changed(t) \cup {NULL}
  BY GoFacts
<1>2. \A u \in Threads \ {t} : /\ Changed(t)' \cap Named(u) \subseteq {NULL}
                               /\ Changed(u) \cap Named(t)' \subseteq {NULL}
  BY <1>1 DEF PointersInv, NoneShared
<1>3. \A o \in Objects : Member(o) \in Operands(t)' => Member(o) \in Operands(t)
  BY <1>1, SlotFacts
<1>4. call'[t].raw = NULL \/ Reached(t, call'[t].raw)
  BY <1>1 DEF Reached
<1> QED
  BY <1>2, <1>3, <1>4 DEF Gentle

FluxOf(a, st, c) ==
    LET last == IF a = "null" THEN Len(st) ELSE Len(st) - 1
    IN  {s \in Slots : \/ last >= 0 /\ s = c.lhs
                       \/ \E i \in 1..last : s = Member(st[i])
                       \/ a \in {"attach", "write"} /\ s = c.lhs
                       \/ a = "clear" /\ s = c.rhs}

LEMMA FluxValue ==
  ASSUME NEW t \in Threads
  PROVE  /\ Flux(t) = FluxOf(at[t], dying[t], call[t])
         /\ Flux(t)' = FluxOf(at'[t], dying'[t], call'[t])
<1>1. Flux(t) = FluxOf(at[t], dying[t], call[t])
  BY DEF Flux, FluxOf, Dropped, Raised
<1>2. Flux(t)' = FluxOf(at'[t], dying'[t], call'[t])
  BY DEF Flux, FluxOf, Dropped, Raised
<1> QED
  BY <1>1, <1>2

LEMMA FluxOfEmpty ==
  ASSUME NEW a, NEW st, NEW c, st = <<>>
  PROVE  /\ a \in {"idle", "detach", "load", "store", "release"} => FluxOf(a, st, c) = {}
         /\ a \in {"null", "attach", "write"} /\ c.lhs \in Slots => FluxOf(a, st, c) = {c.lhs}
         /\ a = "clear" /\ c.rhs \in Slots => FluxOf(a, st, c) = {c.rhs}
<1>1. Len(st) = 0
  BY EmptyStack
<1> QED
  BY <1>1 DEF FluxOf

LEMMA FluxOfStack ==
  ASSUME NEW a, NEW st \in Seq(Objects), NEW c, st # <<>>, NEW s \in Slots,
         a \in {"detach", "null", "free"}
  PROVE  s \in FluxOf(a, st, c) <=>
            \/ s = c.lhs
            \/ \E i \in 1..(IF a = "null" THEN Len(st) ELSE Len(st) - 1) : s = Member(st[i])
<1>1. Len(st) \in Nat /\ Len(st) # 0
  BY EmptySeq, LenProperties
<1> QED
  BY <1>1 DEF FluxOf

\* The pointer being detached is neither of the thread's own while it works on one
\* inside an object, nor what it assigns from.
LEMMA SlotIs ==
  ASSUME ConstantsFit, PointersInv, NEW t \in Users[library], at[t] \in {"detach", "null"}
  PROVE  /\ Slot(t) \in Slots
         /\ dying[t] = <<>> => Slot(t) = call[t].lhs
         /\ dying[t] # <<>> => /\ Slot(t) = Member(dying[t][Len(dying[t])])
                               /\ Len(dying[t]) \in DOMAIN dying[t]
                               /\ dying[t][Len(dying[t])] \in Objects
                               /\ Slot(t) # call[t].lhs
         /\ call[t].op \in {"copy", "move", "reset to"} /\ ~ThroughSelf(t) => Slot(t) # call[t].rhs
         /\ \/ Slot(t) = call[t].lhs
            \/ \E o \in Objects : Slot(t) = Member(o) /\ t \in Destroyers(o)
<1>1. t \in Threads /\ call[t].lhs \in Slots /\ call[t].rhs \in Slots
      /\ (call[t].op \in {"copy", "move", "reset to"} => call[t].lhs # call[t].rhs)
  BY AccessFacts DEF CallFits
<1>2. CASE dying[t] = <<>>
  BY <1>1, <1>2 DEF Slot
<1>3. CASE dying[t] # <<>>
  <2>1. PICK d : d = dying[t][Len(dying[t])]
    OBVIOUS
  <2>2. Len(dying[t]) \in DOMAIN dying[t] /\ d \in Objects
    <3>1. Len(dying[t]) \in Nat /\ Len(dying[t]) # 0 /\ DOMAIN dying[t] = 1..Len(dying[t])
      BY <1>1, <1>3, DyingTypes
    <3>2. Len(dying[t]) \in DOMAIN dying[t]
      BY <3>1
    <3> QED
      BY <1>1, <2>1, <3>2, DyingTypes
  <2>3. Slot(t) = Member(d) /\ Slot(t) \in Slots
    BY <1>3, <2>1, <2>2, SlotFacts DEF Slot, Innermost
  <2>4. t \in Destroyers(d)
    BY <1>1, <2>1, <2>2 DEF Destroyers
  <2>5. Slot(t) # call[t].lhs
    BY <1>1, <2>2, <2>3, <2>4, LhsNotDying
  <2>6. ~ThroughSelf(t) => Slot(t) # call[t].rhs
    BY <1>1, <2>2, <2>3, <2>4, RhsNotDying
  <2> QED
    BY <1>3, <2>1, <2>2, <2>3, <2>4, <2>5, <2>6
<1> QED
  BY <1>2, <1>3

\* The objects the operands are in stay held.
LEMMA HeldAfter ==
  ASSUME ConstantsFit, PointersInv, NEW t \in Users[library], at[t] \notin {"idle", "clear"},
         NEW C, Only(t, C), call'[t] = call[t],
         \A s \in C : s = call[t].lhs \/ \E o \in Objects : s = Member(o) /\ t \in Destroyers(o)
  PROVE  LhsHeld(t)' /\ RhsHeld(t)'
<1>0. t \in Threads /\ CallFits(t)
  BY AccessFacts
<1>1. ASSUME NEW o, NEW s \in Owners(o), s \notin C
      PROVE  s \in Owners(o)'
  BY <1>0, <1>1, OwnersAfter
<1>2. ASSUME NEW s \in Kept(t), s # call[t].lhs
      PROVE  s \notin C
  BY <1>0, <1>2, KeptNotDying
<1>3. ASSUME NEW o \in Objects, Member(o) \in {call[t].lhs} \cup call[t].toLhs
      PROVE  \E s \in Owners(o)' : s \in call[t].toLhs
  <2>1. PICK s \in Owners(o) : s \in call[t].toLhs
    BY <1>0, <1>3 DEF PointersInv, LhsHeld
  <2>2. s \notin C
    BY <1>0, <1>2, <2>1 DEF Kept, CallFits
  <2> QED
    BY <1>1, <2>1, <2>2
<1>4. ASSUME NEW o \in Objects, Member(o) \in {call[t].rhs} \cup call[t].toRhs, ~ThroughSelf(t)
      PROVE  \E s \in Owners(o)' : s \in call[t].toRhs
  <2>1. PICK s \in Owners(o) : s \in call[t].toRhs
    BY <1>0, <1>4 DEF PointersInv, RhsHeld
  <2>2. s \notin C
    BY <1>2, <1>4, <2>1 DEF Kept, ThroughSelf
  <2> QED
    BY <1>1, <2>1, <2>2
<1>5. ThroughSelf(t)' <=> ThroughSelf(t)
  BY DEF ThroughSelf
<1> QED
  BY <1>3, <1>4, <1>5 DEF LhsHeld, RhsHeld

LEMMA ValueKept ==
  ASSUME ConstantsFit, PointersInv, NEW t \in Users[library], at[t] # "idle",
         NEW C, Only(t, C), call'[t] = call[t], at'[t] \notin {"attach", "write"},
         call[t].op = "reset to" /\ ~ThroughSelf(t) => call[t].rhs \notin C
  PROVE  ValueHeld(t)'
<1>1. PICK r : r = call[t].rhs
  OBVIOUS
<1>2. t \in Threads /\ r \in Slots /\ ValueHeld(t)
  BY <1>1, AccessFacts
<1>3. ThroughSelf(t)' <=> ThroughSelf(t)
  BY DEF ThroughSelf
<1>4. r \notin C => ptr'[r] = ptr[r] /\ (Settled(r)' <=> Settled(r))
  BY <1>2, SettledAfter
<1>5. call[t].op = "reset to" /\ ~ThroughSelf(t) => Settled(r)' /\ ptr'[r] = call[t].raw
  BY <1>1, <1>2, <1>4 DEF ValueHeld
<1> QED
  BY <1>1, <1>3, <1>5 DEF ValueHeld, Settled

LEMMA DyingKept ==
  ASSUME ConstantsFit, PointersInv, NEW t \in Users[library], at[t] # "idle", ~Bad(t),
         NEW C, Only(t, C), dying'[t] = dying[t],
         \A i \in DOMAIN dying[t] : dying[t][i] \in alive' /\ count'[dying[t][i]] = 0
  PROVE  DyingFits(t)'
<1>0. t \in Threads /\ DyingFits(t)
  BY AccessFacts
<1> SUFFICES ASSUME NEW i \in DOMAIN dying[t], NEW u \in Threads \ {t}
             PROVE  /\ dying[t][i] \in alive' /\ count'[dying[t][i]] = 0
                    /\ \A j \in DOMAIN dying[t] : dying[t][i] = dying[t][j] => i = j
                    /\ \A j \in DOMAIN dying'[u] : dying[t][i] # dying'[u][j]
                    /\ Member(dying[t][i]) \notin Operands(u)'
  <2>1. DOMAIN dying[t] = DOMAIN dying'[t]
    OBVIOUS
  <2>2. \A i \in DOMAIN dying[t] : /\ dying[t][i] \in alive' /\ count'[dying[t][i]] = 0
                                  /\ \A j \in DOMAIN dying[t] : dying[t][i] = dying[t][j] => i = j
    BY <1>0 DEF DyingFits
  <2> QED
    BY <2>1, <2>2 DEF DyingFits
<1>1. dying'[u] = dying[u] /\ Operands(u)' = Operands(u)
  BY <1>0, FluxElsewhere DEF Only
<1>2. Member(dying[t][i]) \notin Operands(u)
  <2>1. CASE i < Len(dying[t]) \/ at[t] # "detach"
    BY <1>0, <2>1 DEF DyingFits
  <2>2. CASE ~(i < Len(dying[t])) /\ at[t] = "detach"
    <3>1. i = Len(dying[t]) /\ dying[t] # <<>>
      BY <1>0, <2>2, DyingTypes
    <3> QED
      BY <2>2, <3>1 DEF Bad, Innermost
  <2> QED
    BY <2>1, <2>2
<1> QED
  BY <1>0, <1>1, <1>2 DEF DyingFits

-----------------------------------------------------------------------------
(***************************************************************************)
(* The pointer is null: what its call, or the destructor, does next.       *)
(***************************************************************************)
LEMMA EmptiedIs ==
  ASSUME ConstantsFit, PointersInv, NEW t \in Users[library], at[t] \in {"detach", "null"}
  PROVE  /\ dying[t] # <<>> => Emptied(t) = "free" /\ "free" \in PlacesOf(call[t].op)
         /\ dying[t] = <<>> /\ call[t].op \in {"copy", "move"} =>
                Emptied(t) = "load" /\ "load" \in PlacesOf(call[t].op)
         /\ dying[t] = <<>> /\ call[t].op = "reset to" =>
                Emptied(t) = "store" /\ "store" \in PlacesOf(call[t].op)
         /\ dying[t] = <<>> /\ call[t].op \notin {"copy", "move", "reset to"} => Emptied(t) = "idle"
<1>1. at[t] \in PlacesOf(call[t].op) /\ call[t].op # "none" /\ call[t] \in Calls
  BY AccessFacts, CallTypes
<1>2. call[t].op \in {"copy", "move", "reset to", "reset"}
  <2>1. call[t].op \in {"make", "copy", "move", "reset to", "reset"}
    BY <1>1 DEF Calls
  <2>2. call[t].op # "make"
    BY <1>1 DEF PlacesOf
  <2> QED
    BY <2>1, <2>2
<1>3. \A op \in {"copy", "move", "reset to", "reset"} : "free" \in PlacesOf(op)
  BY DEF PlacesOf
<1>4. "load" \in PlacesOf("copy") /\ "load" \in PlacesOf("move") /\ "store" \in PlacesOf("reset to")
  BY DEF PlacesOf
<1> QED
  BY <1>2, <1>3, <1>4 DEF Emptied

LEMMA EmptyStep ==
  ASSUME ConstantsFit, PointersInv, NEW t \in Users[library], at[t] \in {"detach", "null"}, ~Bad(t),
         at[t] = "detach" => ptr[Slot(t)] = NULL,
         ptr' = [ptr EXCEPT ![Slot(t)] = NULL], Go(t, Emptied(t)),
         UNCHANGED <<count, alive, dying, sum>>
  PROVE  PointersInv'
<1>0. t \in Threads /\ Slot(t) \in Slots /\ at[t] # "idle"
  BY AccessFacts, SlotIs
<1>1. PICK s : s = Slot(t)
  OBVIOUS
<1>2. PICK next : next = Emptied(t)
  OBVIOUS
<1>3. PICK C : C = {s}
  OBVIOUS
<1>4. /\ ptr' \in [Slots -> Objects \cup {NULL}] /\ ptr'[s] = NULL
      /\ \A p \in Slots : p # s => ptr'[p] = ptr[p]
  BY <1>0, <1>1 DEF PointersInv, PointersFit
<1>5. /\ at'[t] = next /\ library' = library /\ made' = made /\ undefined' = undefined
      /\ next # "idle" => call'[t] = call[t]
      /\ next = "idle" => call'[t] = NoCall
      /\ \A u \in Threads \ {t} : call'[u] = call[u] /\ at'[u] = at[u]
      /\ call' \in [Threads -> Calls]
      /\ next \in Places => at' \in [Threads -> Places]
      /\ \A u \in Threads : call'[u].raw \in made' \cup {NULL}
  BY <1>0, <1>2, GoFacts
<1>6. /\ dying[t] # <<>> => next = "free" /\ "free" \in PlacesOf(call[t].op)
      /\ dying[t] = <<>> /\ call[t].op \in {"copy", "move"} =>
             next = "load" /\ "load" \in PlacesOf(call[t].op)
      /\ dying[t] = <<>> /\ call[t].op = "reset to" =>
             next = "store" /\ "store" \in PlacesOf(call[t].op)
      /\ dying[t] = <<>> /\ call[t].op \notin {"copy", "move", "reset to"} => next = "idle"
  BY <1>2, EmptiedIs
<1>7. next \in {"free", "load", "store", "idle"} /\ (dying[t] = <<>> => next # "free")
  BY <1>6
<1>8. \A p \in Slots : p \in Flux(t)' <=> p \in Flux(t) /\ p # s
  <2>1. CASE dying[t] = <<>>
    <3>1. FluxOf(next, dying'[t], call'[t]) = {}
      BY <1>7, <2>1, FluxOfEmpty
    <3>2. Flux(t) \subseteq {s}
      <4>1. s = call[t].lhs /\ s \in Slots
        BY <1>0, <1>1, <2>1, SlotIs
      <4> QED
        BY <1>0, <2>1, <4>1, FluxValue, FluxOfEmpty
    <3> QED
      BY <1>0, <1>5, <3>1, <3>2, FluxValue
  <2>2. CASE dying[t] # <<>>
    <3>1. PICK st : st = dying[t]
      OBVIOUS
    <3>2. PICK n : n = Len(st)
      OBVIOUS
    <3>3. /\ st \in Seq(Objects) /\ n \in Nat /\ n # 0 /\ DOMAIN st = 1..n
          /\ s = Member(st[n]) /\ s # call[t].lhs /\ st[n] \in Objects
          /\ next = "free" /\ call'[t] = call[t] /\ dying'[t] = st
      BY <1>0, <1>1, <1>5, <1>6, <2>2, <3>1, <3>2, DyingTypes, SlotIs
    <3>4. \A i \in 1..n : Member(st[i]) = s => i = n
      <4>1. \A i \in 1..n : Member(st[i]) = s => st[i] = st[n]
        BY <3>3, SlotFacts
      <4>2. \A i \in 1..n : st[i] = st[n] => i = n
        BY <1>0, <3>1, <3>3 DEF PointersInv, DyingFits
      <4> QED
        BY <4>1, <4>2
    <3>5. ASSUME NEW p \in Slots
          PROVE  p \in Flux(t)' <=> p = call[t].lhs \/ \E i \in 1..(n - 1) : p = Member(st[i])
      <4>1. p \in FluxOf("free", st, call[t]) <=> p = call[t].lhs \/ \E i \in 1..(n - 1) : p = Member(st[i])
        BY <2>2, <3>1, <3>2, <3>3, FluxOfStack
      <4> QED
        BY <1>0, <1>5, <3>3, <4>1, FluxValue
    <3>6. ASSUME NEW p \in Slots
          PROVE  p \in Flux(t) <=>
                   \/ p = call[t].lhs
                   \/ \E i \in 1..(IF at[t] = "null" THEN n ELSE n - 1) : p = Member(st[i])
      <4>1. p \in FluxOf(at[t], st, call[t]) <=>
                   \/ p = call[t].lhs
                   \/ \E i \in 1..(IF at[t] = "null" THEN Len(st) ELSE Len(st) - 1) : p = Member(st[i])
        BY <2>2, <3>1, <3>3, FluxOfStack
      <4> QED
        BY <1>0, <3>1, <3>2, <4>1, FluxValue
    <3>7. \A i \in 1..(n - 1) : i \in 1..n /\ i # n
      BY <3>3
    <3>8. \A i \in 1..n : i = n \/ i \in 1..(n - 1)
      BY <3>3
    <3> QED
      BY <3>3, <3>4, <3>5, <3>6, <3>7, <3>8
  <2> QED
    BY <2>1, <2>2
<1>9. Only(t, C)
  <2>1. \A p \in C : Apart(t, p)
    BY <1>0, <1>1, <1>3, SlotApart
  <2>2. \A u \in Threads \ {t} : dying'[u] = dying[u] /\ sum'[u] = sum[u]
    OBVIOUS
  <2> QED
    BY <1>0, <1>1, <1>3, <1>4, <1>5, <1>8, <2>1, <2>2 DEF Only
<1>10. Gentle(t, C)
  <2>1. \A p \in C : ptr'[p] = NULL
    BY <1>3, <1>4
  <2> QED
    BY <1>0, <1>2, <2>1, GentleGo
<1>11. \A o \in Objects : Owners(o)' = Owners(o)
  <2>1. ASSUME NEW o \in Objects PROVE Owners(o)' = Owners(o)
    <3>1. Owners(o)' = (Owners(o) \ C) \cup {p \in C : ptr'[p] = o /\ p \notin Flux(t)'}
      BY <1>0, <1>9, OwnersAfter
    <3>2. {p \in C : ptr'[p] = o /\ p \notin Flux(t)'} = {}
      BY <1>3, <1>4 DEF ConstantsFit
    <3>3. s \notin Owners(o)
      <4>1. CASE at[t] = "detach"
        BY <1>1, <4>1 DEF Owners, ConstantsFit
      <4>2. CASE at[t] = "null"
        <5>1. s \in Flux(t)
          <6>1. CASE dying[t] = <<>>
            <7>1. s = call[t].lhs /\ s \in Slots
              BY <1>0, <1>1, <6>1, SlotIs
            <7>2. FluxOf("null", dying[t], call[t]) = {s}
              BY <6>1, <7>1, FluxOfEmpty
            <7> QED
              BY <1>0, <4>2, <7>2, FluxValue
          <6>2. CASE dying[t] # <<>>
            <7>1. PICK n : n = Len(dying[t])
              OBVIOUS
            <7>2. s = Member(dying[t][n]) /\ n \in 1..n /\ dying[t] \in Seq(Objects) /\ s \in Slots
              BY <1>0, <1>1, <6>2, <7>1, SlotIs, DyingTypes
            <7>3. s \in FluxOf("null", dying[t], call[t])
              BY <6>2, <7>1, <7>2, FluxOfStack
            <7> QED
              BY <1>0, <4>2, <7>3, FluxValue
          <6> QED
            BY <6>1, <6>2
        <5> QED
          BY <1>0, <5>1 DEF Owners, Settled, Flux
      <4> QED
        BY <4>1, <4>2
    <3> QED
      BY <1>3, <3>1, <3>2, <3>3
  <2> QED
    BY <2>1
<1>12. PointersFit'
  <2>1. next \in Places
    BY <1>7 DEF Places
  <2>2. \A p \in Slots : ptr'[p] \in made' \cup {NULL}
    BY <1>4, <1>5 DEF PointersInv, PointersFit
  <2> QED
    BY <1>4, <1>5, <2>1, <2>2 DEF PointersInv, PointersFit
<1>13. OwnFits(t)'
  <2>1. CASE next = "idle"
    <3>1. dying'[t] = <<>>
      BY <1>6, <2>1
    <3> QED
      BY <1>0, <1>5, <2>1, <3>1, Ended
  <2>2. CASE next # "idle"
    <3>1. call'[t] = call[t] /\ at'[t] = next /\ dying'[t] = dying[t]
      BY <1>5, <2>2
    <3>2. CallFits(t)'
      <4>1. next \in {"load", "store"} => ptr'[call[t].lhs] = NULL
        <5>1. next \in {"load", "store"} => s = call[t].lhs
          BY <1>1, <1>6, SlotIs
        <5> QED
          BY <1>4, <5>1
      <4>2. next \in PlacesOf(call[t].op)
        BY <1>6, <2>2
      <4>3. CallFits(t)
        BY <1>0, AccessFacts
      <4>4. /\ dying[t] # <<>> => next = "free"
            /\ next = "free" => dying[t] # <<>>
            /\ next \notin {"write", "release"}
        BY <1>6, <1>7
      <4> QED
        BY <1>0, <1>5, <2>2, <3>1, <4>1, <4>2, <4>3, <4>4, SameCall DEF CallFits
    <3>3. DyingFits(t)'
      <4>1. \A i \in DOMAIN dying[t] : dying[t][i] \in alive' /\ count'[dying[t][i]] = 0
        BY <1>0 DEF PointersInv, DyingFits
      <4> QED
        BY <1>0, <1>9, <3>1, <4>1, DyingKept
    <3>4. LhsHeld(t)' /\ RhsHeld(t)'
      <4>1. \A p \in C : p = call[t].lhs \/ \E o \in Objects : p = Member(o) /\ t \in Destroyers(o)
        BY <1>1, <1>3, SlotIs
      <4> QED
        BY <1>0, <1>9, <3>1, <4>1, HeldAfter
    <3>5. ValueHeld(t)'
      <4>1. call[t].op = "reset to" /\ ~ThroughSelf(t) => call[t].rhs \notin C
        BY <1>1, <1>3, SlotIs
      <4>2. at'[t] \notin {"attach", "write"}
        BY <1>7, <3>1
      <4> QED
        BY <1>0, <1>9, <3>1, <4>1, <4>2, ValueKept
    <3>6. NewFits(t)' /\ SumFits(t)'
      <4>1. call[t].op # "make"
        <5>1. at[t] \in PlacesOf(call[t].op)
          BY <1>0, AccessFacts
        <5> QED
          BY <5>1 DEF PlacesOf
      <4>2. next # "write"
        BY <1>7
      <4> QED
        BY <3>1, <4>1, <4>2 DEF NewFits, SumFits
    <3> QED
      BY <3>2, <3>3, <3>4, <3>5, <3>6 DEF OwnFits
  <2> QED
    BY <2>1, <2>2
<1>14. PointersAlive'
  BY <1>3, <1>4, <1>9, <1>10, AliveAfter
<1>15. PointersCounted'
  <2>1. call[t].op # "make"
    <3>1. at[t] \in PlacesOf(call[t].op)
      BY <1>0, AccessFacts
    <3> QED
      BY <3>1 DEF PlacesOf
  <2>2. call'[t].op # "make"
    BY <1>5, <2>1, NoCallFields
  <2>3. \A o : Releasing(o)' = Releasing(o)
    BY <1>0, <1>9, <2>1, <2>2, ReleasingSame
  <2>4. \A o \in alive : o \in Objects
    BY DEF PointersInv, PointersFit
  <2> QED
    BY <1>11, <2>3, <2>4, CountsSame
<1>16. BornOrDying'
  <2>1. \A o : t \in Destroyers(o) => t \in Destroyers(o)'
    BY DEF Destroyers
  <2>2. call[t].op # "make"
    <3>1. at[t] \in PlacesOf(call[t].op)
      BY <1>0, AccessFacts
    <3> QED
      BY <3>1 DEF PlacesOf
  <2> QED
    BY <1>9, <2>1, <2>2, BornAfter
<1> QED
  BY <1>9, <1>10, <1>12, <1>13, <1>14, <1>15, <1>16, Assembled

-----------------------------------------------------------------------------
(***************************************************************************)
(* The count of what a pointer refers to is dropped.                       *)
(***************************************************************************)
LEMMA SlotSettled ==
  ASSUME ConstantsFit, PointersInv, NEW t \in Users[library], at[t] = "detach", ~Bad(t)
  PROVE  Slot(t) \notin Flux(t) /\ Settled(Slot(t))
<1>0. t \in Threads /\ Slot(t) \in Slots /\ Apart(t, Slot(t))
  BY AccessFacts, SlotIs, SlotApart
<1>1. Slot(t) \notin Flux(t)
  <2>1. CASE dying[t] = <<>>
    <3>1. FluxOf("detach", dying[t], call[t]) = {}
      BY <2>1, FluxOfEmpty
    <3> QED
      BY <1>0, <3>1, FluxValue
  <2>2. CASE dying[t] # <<>>
    <3>1. PICK st, s : st = dying[t] /\ s = Slot(t)
      OBVIOUS
    <3>2. PICK n : n = Len(st)
      OBVIOUS
    <3>3. /\ st \in Seq(Objects) /\ n \in Nat /\ n # 0 /\ DOMAIN st = 1..n /\ s \in Slots
          /\ s = Member(st[n]) /\ s # call[t].lhs /\ st[n] \in Objects
      BY <1>0, <2>2, <3>1, <3>2, DyingTypes, SlotIs
    <3>4. \A i \in 1..(n - 1) : i \in 1..n /\ i # n /\ n \in 1..n
      BY <3>3
    <3>5. \A i \in 1..(n - 1) : Member(st[i]) # s
      <4>1. \A i \in 1..(n - 1) : Member(st[i]) = s => st[i] = st[n]
        BY <3>3, SlotFacts
      <4>2. \A i \in 1..(n - 1) : st[i] # st[n]
        BY <1>0, <3>1, <3>3, <3>4 DEF PointersInv, DyingFits
      <4> QED
        BY <4>1, <4>2
    <3>6. s \notin FluxOf("detach", st, call[t])
      <4>1. s \in FluxOf("detach", st, call[t]) <=>
                s = call[t].lhs \/ \E i \in 1..(IF "detach" = "null" THEN Len(st) ELSE Len(st) - 1) : s = Member(st[i])
        BY <2>2, <3>1, <3>3, FluxOfStack
      <4> QED
        BY <3>2, <3>3, <3>5, <4>1
    <3> QED
      BY <1>0, <3>1, <3>6, FluxValue
  <2> QED
    BY <2>1, <2>2
<1> QED
  BY <1>0, <1>1 DEF Settled, Apart, Flux

\* Whether the object is then destroyed or not, the pointer is in flux.
LEMMA DroppedFlux ==
  ASSUME ConstantsFit, PointersInv, NEW t \in Users[library], at[t] = "detach", ~Bad(t),
         NEW o \in Objects, call'[t] = call[t],
         \/ at'[t] = "null" /\ dying'[t] = dying[t]
         \/ at'[t] = "detach" /\ dying'[t] = Append(dying[t], o),
         NEW p \in Slots
  PROVE  p \in Flux(t)' <=> p \in Flux(t) \/ p = Slot(t)
<1>0. t \in Threads /\ call[t].lhs \in Slots
  BY AccessFacts
<1>1. PICK st, s, c : st = dying[t] /\ s = Slot(t) /\ c = call[t]
  OBVIOUS
<1>2. PICK n : n = Len(st)
  OBVIOUS
<1>m. PICK more : more = Append(st, o)
  OBVIOUS
<1>3. /\ st \in Seq(Objects) /\ n \in Nat /\ s \in Slots /\ c.lhs \in Slots
      /\ more \in Seq(Objects) /\ more # <<>> /\ Len(more) = n + 1
      /\ \A i \in 1..n : more[i] = st[i]
  BY <1>0, <1>1, <1>2, <1>m, DyingTypes, SlotIs, Pushed
<1>4. /\ Flux(t) = FluxOf("detach", st, c)
      /\ \/ Flux(t)' = FluxOf("null", st, c)
         \/ Flux(t)' = FluxOf("detach", more, c)
  BY <1>0, <1>1, <1>m, FluxValue
<1>5. p \in FluxOf("detach", more, c) <=> p = c.lhs \/ \E i \in 1..n : p = Member(st[i])
  <2>1. p \in FluxOf("detach", more, c) <=>
           p = c.lhs \/ \E i \in 1..(IF "detach" = "null" THEN Len(more) ELSE Len(more) - 1) :
                            p = Member(more[i])
    BY <1>3, FluxOfStack
  <2>2. n + 1 - 1 = n
    BY <1>3
  <2> QED
    BY <1>3, <2>1, <2>2
<1>6. CASE st = <<>>
  <2>1. FluxOf("detach", st, c) = {} /\ FluxOf("null", st, c) = {c.lhs}
    BY <1>3, <1>6, FluxOfEmpty
  <2>2. s = c.lhs /\ n = 0
    BY <1>0, <1>1, <1>2, <1>6, SlotIs, EmptyStack
  <2>3. p \in FluxOf("detach", more, c) <=> p = c.lhs
    BY <1>5, <2>2
  <2> QED
    BY <1>1, <1>4, <2>1, <2>2, <2>3
<1>7. CASE st # <<>>
  <2>1. s = Member(st[n]) /\ n # 0
    BY <1>0, <1>1, <1>2, <1>7, SlotIs, DyingTypes
  <2>2. p \in FluxOf("null", st, c) <=> p = c.lhs \/ \E i \in 1..n : p = Member(st[i])
    <3>1. p \in FluxOf("null", st, c) <=>
             p = c.lhs \/ \E i \in 1..(IF "null" = "null" THEN Len(st) ELSE Len(st) - 1) : p = Member(st[i])
      BY <1>3, <1>7, FluxOfStack
    <3> QED
      BY <1>2, <3>1
  <2>3. p \in FluxOf("detach", st, c) <=> p = c.lhs \/ \E i \in 1..(n - 1) : p = Member(st[i])
    <3>1. p \in FluxOf("detach", st, c) <=>
             p = c.lhs \/ \E i \in 1..(IF "detach" = "null" THEN Len(st) ELSE Len(st) - 1) : p = Member(st[i])
      BY <1>3, <1>7, FluxOfStack
    <3> QED
      BY <1>2, <3>1
  <2>4. (\E i \in 1..n : p = Member(st[i])) <=> p = s \/ \E i \in 1..(n - 1) : p = Member(st[i])
    <3>1. n \in 1..n /\ (\A i \in 1..(n - 1) : i \in 1..n) /\ \A i \in 1..n : i = n \/ i \in 1..(n - 1)
      BY <1>3, <2>1
    <3> QED
      BY <2>1, <3>1
  <2> QED
    BY <1>1, <1>4, <1>5, <2>2, <2>3, <2>4
<1> QED
  BY <1>6, <1>7

LEMMA DropStep ==
  ASSUME ConstantsFit, PointersInv, NEW t \in Users[library], at[t] = "detach", ~Bad(t),
         ptr[Slot(t)] # NULL, Drop(t, ptr[Slot(t)], "null")
  PROVE  PointersInv'
<1>0. /\ t \in Threads /\ Slot(t) \in Slots /\ at[t] # "idle" /\ Apart(t, Slot(t))
      /\ Settled(Slot(t)) /\ Slot(t) \notin Flux(t)
  BY AccessFacts, SlotIs, SlotApart, SlotSettled
<1>1. PICK s, o, C, next : s = Slot(t) /\ o = ptr[s] /\ C = {s}
                        /\ next = IF count[o] = 1 THEN "detach" ELSE "null"
  OBVIOUS
<1>2. /\ o \in Objects /\ o \in alive /\ Destroyers(o) = {} /\ count[o] \in Nat /\ count[o] > 0
      /\ s \in Owners(o) /\ s \in Slots /\ o # NULL /\ Settled(s)
  BY <1>0, <1>1, SettledKeeps
<1>3. /\ count' = [count EXCEPT ![o] = count[o] - 1]
      /\ dying' = IF count[o] = 1 THEN [dying EXCEPT ![t] = Append(dying[t], o)] ELSE dying
      /\ Go(t, next)
      /\ ptr' = ptr /\ alive' = alive /\ sum' = sum
  BY <1>1 DEF Drop
<1>4. /\ at'[t] = next /\ library' = library /\ made' = made /\ undefined' = undefined
      /\ call'[t] = call[t]
      /\ \A u \in Threads \ {t} : call'[u] = call[u] /\ at'[u] = at[u]
      /\ call' \in [Threads -> Calls] /\ at' \in [Threads -> Places]
      /\ \A u \in Threads : call'[u].raw \in made' \cup {NULL}
  <2>1. next # "idle" /\ next \in Places
    BY <1>1 DEF Places
  <2> QED
    BY <1>0, <1>3, <2>1, GoFacts
<1>5. /\ \/ next = "null" /\ count[o] # 1 /\ dying'[t] = dying[t]
         \/ next = "detach" /\ count[o] = 1 /\ dying'[t] = Append(dying[t], o)
      /\ \A u \in Threads \ {t} : dying'[u] = dying[u]
      /\ dying' \in [Threads -> Seq(Objects)]
  <2>1. dying \in [Threads -> Seq(Objects)]
    BY DEF PointersInv, PointersFit
  <2>2. CASE count[o] = 1
    <3>1. Append(dying[t], o) \in Seq(Objects)
      BY <1>0, <1>2, DyingTypes, Pushed
    <3> QED
      BY <1>0, <1>1, <1>3, <2>1, <2>2, <3>1
  <2>3. CASE count[o] # 1
    BY <1>1, <1>3, <2>1, <2>3
  <2> QED
    BY <2>2, <2>3
<1>6. /\ count' \in [Objects -> Nat] /\ count'[o] = count[o] - 1
      /\ \A x \in Objects : x # o => count'[x] = count[x]
  <2>1. count \in [Objects -> Nat] /\ count[o] - 1 \in Nat
    BY <1>2 DEF PointersInv, PointersFit
  <2> QED
    BY <1>2, <1>3, <2>1
<1>7. \A p \in Slots : p \in Flux(t)' <=> p \in Flux(t) \/ p = s
  BY <1>1, <1>2, <1>4, <1>5, DroppedFlux
<1>8. Only(t, C)
  <2>1. \A p \in C : Apart(t, p)
    BY <1>0, <1>1
  <2>2. \A u \in Threads \ {t} : sum'[u] = sum[u]
    BY <1>3
  <2>3. ptr' \in [Slots -> Objects \cup {NULL}]
    BY <1>3 DEF PointersInv, PointersFit
  <2> QED
    BY <1>1, <1>2, <1>3, <1>4, <1>5, <1>7, <2>1, <2>2, <2>3 DEF Only
<1>9. \A x \in Objects : /\ x = o => Owners(x)' = Owners(x) \ {s}
                         /\ x # o => Owners(x)' = Owners(x)
  <2>1. ASSUME NEW x \in Objects PROVE Owners(x)' = Owners(x) \ {s}
    <3>1. Owners(x)' = (Owners(x) \ C) \cup {p \in C : ptr'[p] = x /\ p \notin Flux(t)'}
      BY <1>0, <1>8, OwnersAfter
    <3>2. \A p \in C : p \in Flux(t)'
      BY <1>1, <1>2, <1>7
    <3> QED
      BY <1>1, <3>1, <3>2
  <2>2. \A x \in Objects : x # o => s \notin Owners(x)
    BY <1>1 DEF Owners
  <2> QED
    BY <1>2, <2>1, <2>2
<1>10. /\ DOMAIN dying[t] = 1..Len(dying[t]) /\ Len(dying[t]) \in Nat
       /\ next = "detach" => /\ DOMAIN dying'[t] = 1..(Len(dying[t]) + 1)
                             /\ Len(dying'[t]) = Len(dying[t]) + 1
                             /\ \A i \in 1..Len(dying[t]) : dying'[t][i] = dying[t][i]
                             /\ dying'[t][Len(dying[t]) + 1] = o
  <2>1. DOMAIN dying[t] = 1..Len(dying[t]) /\ Len(dying[t]) \in Nat /\ dying[t] \in Seq(Objects)
    BY <1>0, DyingTypes
  <2>2. PICK st : st = dying[t]
    OBVIOUS
  <2>3. PICK more : more = Append(st, o)
    OBVIOUS
  <2>4. /\ DOMAIN more = 1..(Len(st) + 1) /\ Len(more) = Len(st) + 1
        /\ \A i \in 1..Len(st) : more[i] = st[i]
        /\ more[Len(st) + 1] = o
    BY <1>2, <2>1, <2>2, <2>3, Pushed
  <2>5. next = "detach" => dying'[t] = more
    BY <1>5, <2>2, <2>3
  <2> QED
    BY <2>1, <2>2, <2>4, <2>5
<1>11. \A i \in DOMAIN dying'[t] : \/ i \in DOMAIN dying[t] /\ dying'[t][i] = dying[t][i]
                                   \/ /\ next = "detach" /\ i = Len(dying[t]) + 1 /\ dying'[t][i] = o
                                      /\ i = Len(dying'[t])
  <2>1. CASE next = "null"
    BY <1>5, <2>1
  <2>2. CASE next = "detach"
    <3>1. \A i \in 1..(Len(dying[t]) + 1) : i \in 1..Len(dying[t]) \/ i = Len(dying[t]) + 1
      BY <1>10
    <3> QED
      BY <1>10, <2>2, <3>1
  <2> QED
    BY <1>5, <2>1, <2>2
<1>12. Gentle(t, C)
  <2>1. Reached(t, o)
    <3>1. \A u \in Threads \ {t} : s \notin Changed(u)
      BY <1>0, <1>1, HeldAre DEF Apart
    <3> QED
      BY <1>1, <1>2, <3>1 DEF Reached
  <2>2. \A x \in alive : Destroyers(x) # {} => count'[x] = count[x]
    BY <1>2, <1>6 DEF PointersInv, PointersFit
  <2>3. \A i \in DOMAIN dying'[t] :
           \/ \E j \in DOMAIN dying[t] : dying'[t][i] = dying[t][j]
           \/ Destroyers(dying'[t][i]) = {} /\ Reached(t, dying'[t][i])
    BY <1>2, <1>11, <2>1
  <2>4. \A p \in C : ptr'[p] = NULL \/ Reached(t, ptr'[p])
    BY <1>1, <1>3, <2>1
  <2> QED
    BY <1>0, <1>3, <2>2, <2>3, <2>4, GentleGo
<1>13. PointersFit'
  BY <1>3, <1>4, <1>5, <1>6 DEF PointersInv, PointersFit
<1>14. call[t].op \in {"copy", "move", "reset to", "reset"} /\ call[t].op # "make"
       /\ next \in PlacesOf(call[t].op)
  <2>1. at[t] \in PlacesOf(call[t].op) /\ call[t].op # "none" /\ call[t] \in Calls
    BY <1>0, AccessFacts, CallTypes
  <2>2. call[t].op \in {"make", "copy", "move", "reset to", "reset"}
    BY <2>1 DEF Calls
  <2>3. call[t].op # "make"
    BY <2>1 DEF PlacesOf
  <2>4. \A op \in {"copy", "move", "reset to", "reset"} : "null" \in PlacesOf(op) /\ "detach" \in PlacesOf(op)
    BY DEF PlacesOf
  <2> QED
    BY <1>5, <2>2, <2>3, <2>4
<1>15. OwnFits(t)'
  <2>1. CallFits(t)'
    <3>1. CallFits(t)
      BY <1>0, AccessFacts
    <3>2. next \in {"null", "detach"}
      BY <1>5
    <3> QED
      BY <1>0, <1>4, <1>14, <3>1, <3>2, SameCall DEF CallFits
  <2>2. DyingFits(t)'
    <3> SUFFICES ASSUME NEW i \in DOMAIN dying'[t]
                 PROVE  /\ dying'[t][i] \in alive' /\ count'[dying'[t][i]] = 0
                        /\ \A j \in DOMAIN dying'[t] : dying'[t][i] = dying'[t][j] => i = j
                        /\ \A u \in Threads \ {t} :
                             /\ \A j \in DOMAIN dying'[u] : dying'[t][i] # dying'[u][j]
                             /\ i < Len(dying'[t]) \/ at'[t] # "detach" => Member(dying'[t][i]) \notin Operands(u)'
      BY DEF DyingFits
    <3>1. \A u \in Threads \ {t} : dying'[u] = dying[u] /\ Operands(u)' = Operands(u)
      BY <1>0, <1>5, <1>8, FluxElsewhere
    <3>2. \A j \in DOMAIN dying[t] : dying[t][j] # o /\ dying[t][j] \in Objects
      BY <1>0, <1>2, DyingTypes DEF Destroyers
    <3>3. \A u \in Threads \ {t} : \A j \in DOMAIN dying[u] : dying[u][j] # o
      BY <1>2 DEF Destroyers
    <3>4. CASE i \in DOMAIN dying[t] /\ dying'[t][i] = dying[t][i]
      <4>1. PICK d : d = dying[t][i]
        OBVIOUS
      <4>2. /\ d \in alive /\ count[d] = 0 /\ d # o /\ d \in Objects
            /\ \A j \in DOMAIN dying[t] : d = dying[t][j] => i = j
            /\ \A u \in Threads \ {t} : \A j \in DOMAIN dying[u] : d # dying[u][j]
            /\ \A u \in Threads \ {t} : i < Len(dying[t]) => Member(d) \notin Operands(u)
        BY <1>0, <3>2, <3>4, <4>1 DEF PointersInv, DyingFits
      <4>3. \A u \in Threads \ {t} : Member(d) \notin Operands(u)
        <5>1. CASE i < Len(dying[t])
          BY <4>2, <5>1
        <5>2. CASE ~(i < Len(dying[t]))
          <6>1. i = Len(dying[t]) /\ dying[t] # <<>>
            BY <1>0, <1>10, <3>4, <5>2, DyingTypes
          <6> QED
            BY <4>1, <6>1 DEF Bad, Innermost
        <5> QED
          BY <5>1, <5>2
      <4>4. \A j \in DOMAIN dying'[t] : d = dying'[t][j] => i = j
        BY <1>11, <4>2
      <4> QED
        BY <1>3, <1>6, <3>1, <3>4, <4>1, <4>2, <4>3, <4>4
    <3>5. CASE next = "detach" /\ i = Len(dying[t]) + 1 /\ dying'[t][i] = o /\ i = Len(dying'[t])
      <4>1. count'[o] = 0
        BY <1>2, <1>5, <1>6, <3>5
      <4>2. \A j \in DOMAIN dying'[t] : o = dying'[t][j] => i = j
        BY <1>11, <3>2, <3>5
      <4>3. ~(i < Len(dying'[t])) /\ at'[t] = "detach"
        BY <1>4, <1>10, <3>5
      <4> QED
        BY <1>2, <1>3, <3>1, <3>3, <3>5, <4>1, <4>2, <4>3
    <3> QED
      BY <1>11, <3>4, <3>5
  <2>3. LhsHeld(t)' /\ RhsHeld(t)'
    <3>1. \A p \in C : p = call[t].lhs \/ \E x \in Objects : p = Member(x) /\ t \in Destroyers(x)
      BY <1>1, SlotIs
    <3> QED
      BY <1>0, <1>4, <1>8, <3>1, HeldAfter
  <2>4. ValueHeld(t)'
    <3>1. call[t].op = "reset to" /\ ~ThroughSelf(t) => call[t].rhs \notin C
      BY <1>1, SlotIs
    <3>2. at'[t] \notin {"attach", "write"}
      BY <1>4, <1>5
    <3> QED
      BY <1>0, <1>4, <1>8, <3>1, <3>2, ValueKept
  <2>5. NewFits(t)' /\ SumFits(t)'
    BY <1>4, <1>5, <1>14 DEF NewFits, SumFits
  <2> QED
    BY <2>1, <2>2, <2>3, <2>4, <2>5 DEF OwnFits
<1>16. PointersAlive'
  BY <1>1, <1>2, <1>7, <1>8, <1>12, AliveAfter
<1>17. PointersCounted'
  <2>1. \A x : Releasing(x)' = Releasing(x)
    BY <1>0, <1>4, <1>8, ReleasingSame
  <2>2. ASSUME NEW x \in alive PROVE count'[x] = Cardinality(Owners(x)') + Cardinality(Releasing(x)')
    <3>1. /\ x \in Objects /\ IsFiniteSet(Owners(x)) /\ Cardinality(Owners(x)) \in Nat
          /\ Cardinality(Releasing(x)) \in Nat
          /\ count[x] = Cardinality(Owners(x)) + Cardinality(Releasing(x))
      BY CountFacts
    <3>2. CASE x = o
      <4>1. Cardinality(Owners(x) \ {s}) = Cardinality(Owners(x)) - 1
        BY <1>2, <3>1, <3>2, FS_RemoveElement
      <4>2. Cardinality(Owners(x)') = Cardinality(Owners(x)) - 1
        BY <1>9, <3>1, <3>2, <4>1
      <4>3. count'[x] = count[x] - 1
        BY <1>6, <3>2
      <4> QED
        BY <2>1, <3>1, <4>2, <4>3
    <3>3. CASE x # o
      BY <1>6, <1>9, <2>1, <3>1, <3>3
    <3> QED
      BY <3>2, <3>3
  <2> QED
    BY <1>3, <2>2 DEF PointersCounted
<1>18. BornOrDying'
  <2>1. \A x : t \in Destroyers(x) => t \in Destroyers(x)'
    <3>1. \A i \in DOMAIN dying[t] : i \in DOMAIN dying'[t] /\ dying'[t][i] = dying[t][i]
      <4>1. \A i \in 1..Len(dying[t]) : i \in 1..(Len(dying[t]) + 1)
        BY <1>10
      <4> QED
        BY <1>5, <1>10, <4>1
    <3> QED
      BY <1>0, <3>1 DEF Destroyers
  <2>2. count'[o] = 0 => t \in Destroyers(o)'
    <3>1. count'[o] = 0 => next = "detach"
      BY <1>2, <1>5, <1>6
    <3>2. next = "detach" => \E i \in DOMAIN dying'[t] : dying'[t][i] = o
      BY <1>10
    <3> QED
      BY <1>0, <3>1, <3>2 DEF Destroyers
  <2>3. \A x \in alive : x \in Objects
    BY DEF PointersInv, PointersFit
  <2>4. \A x \in alive' : count'[x] = 0 =>
            \/ x \in alive /\ count[x] = 0
            \/ t \in Destroyers(x)'
    BY <1>3, <1>6, <2>2, <2>3
  <2> QED
    BY <1>4, <1>8, <2>1, <2>4, BornAfter
<1> QED
  BY <1>8, <1>12, <1>13, <1>15, <1>16, <1>17, <1>18, Assembled

-----------------------------------------------------------------------------
(***************************************************************************)
(* The destructor returns.                                                 *)
(***************************************************************************)

\* Taking the object off the stack puts the pointer it was dropped from where
\* "null" finds it.
LEMMA PoppedFlux ==
  ASSUME ConstantsFit, PointersInv, NEW t \in Users[library], at[t] = "free", dying[t] # <<>>,
         call'[t] = call[t], at'[t] = "null",
         dying'[t] = SubSeq(dying[t], 1, Len(dying[t]) - 1),
         NEW p \in Slots
  PROVE  p \in Flux(t)' <=> p \in Flux(t)
<1>0. t \in Threads /\ call[t].lhs \in Slots
  BY AccessFacts
<1>1. PICK st, c, n, less : st = dying[t] /\ c = call[t] /\ n = Len(st) /\ less = SubSeq(st, 1, n - 1)
  OBVIOUS
<1>2. /\ st \in Seq(Objects) /\ n \in Nat /\ n # 0 /\ c.lhs \in Slots /\ st # <<>>
  BY <1>0, <1>1, DyingTypes
<1>3. less \in Seq(Objects) /\ Len(less) = n - 1 /\ \A i \in 1..(n - 1) : less[i] = st[i]
  BY <1>1, <1>2, Popped
<1>4. Flux(t) = FluxOf("free", st, c) /\ Flux(t)' = FluxOf("null", less, c)
  BY <1>0, <1>1, FluxValue
<1>5. p \in FluxOf("free", st, c) <=> p = c.lhs \/ \E i \in 1..(n - 1) : p = Member(st[i])
  <2>1. p \in FluxOf("free", st, c) <=>
           p = c.lhs \/ \E i \in 1..(IF "free" = "null" THEN Len(st) ELSE Len(st) - 1) : p = Member(st[i])
    BY <1>2, FluxOfStack
  <2> QED
    BY <1>1, <2>1
<1>6. CASE less = <<>>
  <2>1. FluxOf("null", less, c) = {c.lhs}
    BY <1>2, <1>6, FluxOfEmpty
  <2>2. n - 1 = 0
    BY <1>3, <1>6, EmptyStack
  <2>3. p \in FluxOf("free", st, c) <=> p = c.lhs
    BY <1>5, <2>2
  <2> QED
    BY <1>4, <2>1, <2>3
<1>7. CASE less # <<>>
  <2>1. p \in FluxOf("null", less, c) <=>
           p = c.lhs \/ \E i \in 1..(IF "null" = "null" THEN Len(less) ELSE Len(less) - 1) : p = Member(less[i])
    BY <1>3, <1>7, FluxOfStack
  <2>2. p \in FluxOf("null", less, c) <=> p = c.lhs \/ \E i \in 1..(n - 1) : p = Member(st[i])
    BY <1>3, <2>1
  <2> QED
    BY <1>4, <1>5, <2>2
<1> QED
  BY <1>6, <1>7

LEMMA FreeStep ==
  ASSUME ConstantsFit, PointersInv, NEW t \in Users[library], Free(t)
  PROVE  PointersInv'
<1>0. t \in Threads /\ at[t] = "free" /\ at[t] # "idle" /\ ~Bad(t)
  <2>1. at[t] = "free" /\ ~Bad(t)
    BY DEF Free, Doing
  <2> QED
    BY <2>1, AccessFacts
<1>1. dying[t] # <<>> /\ CallFits(t) /\ DyingFits(t)
  BY <1>0, AccessFacts DEF CallFits
<1>2. PICK st, n, d, less, C : /\ st = dying[t] /\ n = Len(st) /\ d = st[n] /\ C = {}
                               /\ less = SubSeq(st, 1, n - 1)
  OBVIOUS
<1>3. /\ st \in Seq(Objects) /\ st # <<>>
      /\ less \in Seq(Objects) /\ Len(less) = n - 1 /\ \A i \in 1..(n - 1) : less[i] = st[i]
      /\ DOMAIN st = 1..n /\ DOMAIN less = 1..(n - 1) /\ n \in Nat \ {0} /\ d \in Objects
  <2>1. st \in Seq(Objects) /\ st # <<>>
    BY <1>0, <1>1, <1>2, DyingTypes
  <2> QED
    BY <1>2, <2>1, Popped
<1>4. call[t].op \in {"copy", "move", "reset to", "reset"} /\ call[t].op # "make"
      /\ "null" \in PlacesOf(call[t].op)
  <2>1. at[t] \in PlacesOf(call[t].op) /\ call[t].op # "none" /\ call[t] \in Calls
    BY <1>0, AccessFacts, CallTypes
  <2>2. call[t].op \in {"make", "copy", "move", "reset to", "reset"}
    BY <2>1 DEF Calls
  <2>3. call[t].op # "make"
    BY <1>0, <2>1 DEF PlacesOf
  <2>4. \A op \in {"copy", "move", "reset to", "reset"} : "null" \in PlacesOf(op)
    BY DEF PlacesOf
  <2> QED
    BY <2>2, <2>3, <2>4
<1>5. /\ alive' = alive \ {d} /\ dying' = [dying EXCEPT ![t] = less] /\ Go(t, "null")
      /\ ptr' = ptr /\ count' = count /\ sum' = sum
  BY <1>2, <1>4 DEF Free, Innermost
<1>6. /\ at'[t] = "null" /\ library' = library /\ made' = made /\ undefined' = undefined
      /\ call'[t] = call[t]
      /\ \A u \in Threads \ {t} : call'[u] = call[u] /\ at'[u] = at[u]
      /\ call' \in [Threads -> Calls] /\ at' \in [Threads -> Places]
      /\ \A u \in Threads : call'[u].raw \in made' \cup {NULL}
  <2>1. "null" # "idle" /\ "null" \in Places
    BY DEF Places
  <2>2. PICK next : next = "null"
    OBVIOUS
  <2> QED
    BY <1>0, <1>5, <2>1, <2>2, GoFacts
<1>7. /\ dying'[t] = less /\ \A u \in Threads \ {t} : dying'[u] = dying[u]
      /\ dying' \in [Threads -> Seq(Objects)]
  BY <1>0, <1>3, <1>5 DEF PointersInv, PointersFit
<1>8. \A p \in Slots : p \in Flux(t)' <=> p \in Flux(t)
  <2>1. dying'[t] = SubSeq(dying[t], 1, Len(dying[t]) - 1)
    BY <1>2, <1>7
  <2> QED
    BY <1>0, <1>1, <1>6, <2>1, PoppedFlux
<1>9. Only(t, C)
  <2>1. \A u \in Threads \ {t} : sum'[u] = sum[u]
    BY <1>5
  <2>2. ptr' \in [Slots -> Objects \cup {NULL}]
    BY <1>5 DEF PointersInv, PointersFit
  <2> QED
    BY <1>2, <1>5, <1>6, <1>7, <1>8, <2>1, <2>2 DEF Only
<1>10. \A o : Owners(o)' = Owners(o)
  <2>1. C = {}
    BY <1>2
  <2> QED
    BY <1>0, <1>9, <2>1, OwnersAfter
<1>11. n \in DOMAIN st /\ \A i \in DOMAIN less : i \in DOMAIN st /\ i < n /\ i # n /\ less[i] = st[i]
  BY <1>3
<1>12. \A i \in DOMAIN less : less[i] # d
  BY <1>1, <1>2, <1>11 DEF DyingFits
<1>13. Gentle(t, C)
  <2>1. t \in Destroyers(d)
    BY <1>0, <1>2, <1>11 DEF Destroyers
  <2>2. \A x \in alive : x \notin alive' => t \in Destroyers(x)
    BY <1>5, <2>1
  <2>3. \A i \in DOMAIN dying'[t] : \E j \in DOMAIN dying[t] : dying'[t][i] = dying[t][j]
    BY <1>2, <1>7, <1>11
  <2>4. PICK next : next = "null"
    OBVIOUS
  <2>5. Go(t, next)
    BY <1>5, <2>4
  <2> QED
    BY <1>0, <1>2, <1>5, <2>2, <2>3, <2>5, GentleGo
<1>14. PointersFit'
  BY <1>5, <1>6, <1>7 DEF PointersInv, PointersFit
<1>15. OwnFits(t)'
  <2>1. CallFits(t)'
    BY <1>0, <1>1, <1>4, <1>6, SameCall DEF CallFits
  <2>2. DyingFits(t)'
    <3> SUFFICES ASSUME NEW i \in DOMAIN less
                 PROVE  /\ less[i] \in alive' /\ count'[less[i]] = 0
                        /\ \A j \in DOMAIN less : less[i] = less[j] => i = j
                        /\ \A u \in Threads \ {t} :
                             /\ \A j \in DOMAIN dying'[u] : less[i] # dying'[u][j]
                             /\ Member(less[i]) \notin Operands(u)'
      BY <1>7 DEF DyingFits
    <3>1. \A u \in Threads \ {t} : dying'[u] = dying[u] /\ Operands(u)' = Operands(u)
      BY <1>0, <1>7, <1>9, FluxElsewhere
    <3>2. /\ st[i] \in alive /\ count[st[i]] = 0
          /\ \A j \in DOMAIN st : st[i] = st[j] => i = j
          /\ \A u \in Threads \ {t} :
               /\ \A j \in DOMAIN dying[u] : st[i] # dying[u][j]
               /\ Member(st[i]) \notin Operands(u)
      BY <1>0, <1>1, <1>2, <1>11 DEF DyingFits
    <3> QED
      BY <1>5, <1>11, <1>12, <3>1, <3>2
  <2>3. LhsHeld(t)' /\ RhsHeld(t)'
    BY <1>0, <1>2, <1>6, <1>9, HeldAfter
  <2>4. ValueHeld(t)'
    BY <1>0, <1>2, <1>6, <1>9, ValueKept
  <2>5. NewFits(t)' /\ SumFits(t)'
    BY <1>4, <1>6 DEF NewFits, SumFits
  <2> QED
    BY <2>1, <2>2, <2>3, <2>4, <2>5 DEF OwnFits
<1>16. PointersAlive'
  BY <1>2, <1>9, <1>13, AliveAfter
<1>17. PointersCounted'
  <2>1. \A x : Releasing(x)' = Releasing(x)
    BY <1>0, <1>6, <1>9, ReleasingSame
  <2> QED
    BY <1>5, <1>10, <2>1, CountsSame
<1>18. BornOrDying'
  <2>1. \A x \in alive' : t \in Destroyers(x) => t \in Destroyers(x)'
    <3> SUFFICES ASSUME NEW x \in alive', NEW i \in DOMAIN st, st[i] = x
                 PROVE  \E j \in DOMAIN less : less[j] = x
      BY <1>2, <1>7 DEF Destroyers
    <3>1. i # n
      BY <1>2, <1>5
    <3>2. i \in DOMAIN less
      BY <1>3, <3>1
    <3> QED
      BY <1>11, <3>2
  <2>2. \A x \in alive' : x \in alive
    BY <1>5
  <2> QED
    BY <1>5, <1>6, <1>9, <2>1, <2>2, BornAfter
<1> QED
  BY <1>9, <1>13, <1>14, <1>15, <1>16, <1>17, <1>18, Assembled

-----------------------------------------------------------------------------
(***************************************************************************)
(* The left-hand side takes the new value.                                 *)
(***************************************************************************)

\* Calls that are past the pointer they emptied destroy nothing.
LEMMA Later ==
  ASSUME ConstantsFit, PointersInv, NEW t \in Users[library],
         at[t] \in {"load", "store", "clear", "attach", "write", "release"}
  PROVE  /\ t \in Threads /\ dying[t] = <<>> /\ DOMAIN dying[t] = {} /\ CallFits(t)
         /\ call[t].lhs \in Slots /\ call[t].rhs \in Slots
         /\ at[t] = "load" => call[t].op \in {"copy", "move"}
         /\ at[t] = "store" => call[t].op = "reset to"
         /\ at[t] = "clear" => call[t].op = "move"
         /\ at[t] = "attach" => call[t].op \in {"make", "copy", "reset to"}
         /\ at[t] = "write" => call[t].op \in {"make", "copy", "reset to"} /\ library = "scaleform"
         /\ at[t] = "release" => call[t].op = "make" /\ library = "scaleform"
         /\ at[t] \in {"load", "store", "release"} => Flux(t) = {}
         /\ at[t] \in {"attach", "write"} => Flux(t) = {call[t].lhs}
         /\ at[t] = "clear" => Flux(t) = {call[t].rhs}
         /\ Apart(t, call[t].lhs)
<1>1. /\ t \in Threads /\ CallFits(t) /\ call[t].lhs \in Slots /\ call[t].rhs \in Slots
      /\ at[t] \in PlacesOf(call[t].op) /\ call[t].op # "none"
  BY AccessFacts
<1>2. dying[t] = <<>> /\ (at[t] \in {"write", "release"} => library = "scaleform")
  BY <1>1 DEF CallFits
<1>3. DOMAIN dying[t] = {}
  BY <1>2, EmptyStack
<1>4. call[t].op \in {"make", "copy", "move", "reset to", "reset"}
  BY <1>1, CallTypes DEF Calls
<1>5. /\ at[t] = "load" => call[t].op \in {"copy", "move"}
      /\ at[t] = "store" => call[t].op = "reset to"
      /\ at[t] = "clear" => call[t].op = "move"
      /\ at[t] = "attach" => call[t].op \in {"make", "copy", "reset to"}
      /\ at[t] = "write" => call[t].op \in {"make", "copy", "reset to"}
      /\ at[t] = "release" => call[t].op = "make"
  BY <1>1, <1>4 DEF PlacesOf
<1>6. Flux(t) = FluxOf(at[t], dying[t], call[t])
  BY <1>1, FluxValue
<1>7. at[t] \in {"load", "store", "release"} => Flux(t) = {}
  BY <1>2, <1>6, FluxOfEmpty
<1>8. at[t] \in {"attach", "write"} => Flux(t) = {call[t].lhs}
  BY <1>1, <1>2, <1>6, FluxOfEmpty
<1>9. at[t] = "clear" => Flux(t) = {call[t].rhs}
  BY <1>1, <1>2, <1>6, FluxOfEmpty
<1>10. Apart(t, call[t].lhs)
  BY <1>1, LhsApart
<1> QED
  BY <1>1, <1>2, <1>3, <1>5, <1>7, <1>8, <1>9, <1>10

LEMMA FluxThen ==
  ASSUME NEW t \in Threads, dying'[t] = <<>>
  PROVE  /\ at'[t] \in {"idle", "load", "store", "release"} => Flux(t)' = {}
         /\ at'[t] \in {"attach", "write"} /\ call'[t].lhs \in Slots => Flux(t)' = {call'[t].lhs}
         /\ at'[t] = "clear" /\ call'[t].rhs \in Slots => Flux(t)' = {call'[t].rhs}
<1>1. PICK a, st, c : a = at'[t] /\ st = dying'[t] /\ c = call'[t]
  OBVIOUS
<1>2. Flux(t)' = FluxOf(a, st, c) /\ st = <<>>
  BY <1>1, FluxValue
<1>3. /\ a \in {"idle", "load", "store", "release"} => FluxOf(a, st, c) = {}
      /\ a \in {"attach", "write"} /\ c.lhs \in Slots => FluxOf(a, st, c) = {c.lhs}
      /\ a = "clear" /\ c.rhs \in Slots => FluxOf(a, st, c) = {c.rhs}
  BY <1>2, FluxOfEmpty
<1> QED
  BY <1>1, <1>2, <1>3

LEMMA NoneDying ==
  ASSUME NEW t \in Threads, dying'[t] = <<>>
  PROVE  DyingFits(t)' /\ DOMAIN dying'[t] = {}
<1>1. DOMAIN dying'[t] = {}
  BY EmptyStack
<1> QED
  BY <1>1 DEF DyingFits

LEMMA RhsSettled ==
  ASSUME ConstantsFit, PointersInv, NEW t \in Users[library], at[t] = "load", ~Bad(t)
  PROVE  /\ Settled(call[t].rhs)
         /\ \A u \in Threads \ {t} : call[t].rhs \notin Changed(u)
         /\ call[t].op = "move" => Apart(t, call[t].rhs)
<1>1. t \in Threads /\ Flux(t) = {} /\ call[t].rhs \in Slots
  BY Later
<1> QED
  BY <1>1, RhsAlone DEF Settled, Flux

Takes(t, v) ==
    \/ at[t] = "load" /\ call[t].op = "copy" /\ v = ptr[call[t].rhs]
    \/ at[t] = "store" /\ call[t].op = "reset to" /\ v = call[t].raw

\* operator= of a copy, and reset(): the pointer is in flux until it is attached.
LEMMA TakeStep ==
  ASSUME ConstantsFit, PointersInv, NEW t \in Users[library], ~Bad(t), NEW v, Takes(t, v),
         SetPtr(call[t].lhs, v), Go(t, "attach")
  PROVE  PointersInv'
<1>0. /\ t \in Threads /\ dying[t] = <<>> /\ DOMAIN dying[t] = {} /\ CallFits(t)
      /\ call[t].lhs \in Slots /\ call[t].rhs \in Slots
      /\ Flux(t) = {} /\ Apart(t, call[t].lhs) /\ at[t] \in {"load", "store"}
  BY Later DEF Takes
<1>1. PICK l, r, C : l = call[t].lhs /\ r = call[t].rhs /\ C = {l}
  OBVIOUS
<1>2. /\ ptr' = [ptr EXCEPT ![l] = v] /\ count' = count /\ alive' = alive
      /\ dying' = dying /\ sum' = sum
  BY <1>1 DEF SetPtr
<1>3. /\ at'[t] = "attach" /\ library' = library /\ made' = made /\ undefined' = undefined
      /\ call'[t] = call[t]
      /\ \A u \in Threads \ {t} : call'[u] = call[u] /\ at'[u] = at[u]
      /\ call' \in [Threads -> Calls] /\ at' \in [Threads -> Places]
      /\ \A u \in Threads : call'[u].raw \in made' \cup {NULL}
  <2>1. PICK next : next = "attach"
    OBVIOUS
  <2>2. next # "idle" /\ next \in Places /\ Go(t, next)
    BY <2>1 DEF Places
  <2> QED
    BY <1>0, <2>1, <2>2, GoFacts
<1>4. l \in Slots /\ r \in Slots /\ l # r /\ ptr[l] = NULL
  BY <1>0, <1>1 DEF CallFits, Takes
<1>5. at[t] = "load" => Settled(r) /\ \A u \in Threads \ {t} : r \notin Changed(u)
  BY <1>1, RhsSettled
<1>6. /\ v = NULL \/ Reached(t, v)
      /\ v \in made \cup {NULL} /\ v \in Objects \cup {NULL}
  <2>1. CASE at[t] = "load"
    <3>1. v = ptr[r]
      BY <1>1, <2>1 DEF Takes
    <3>2. Reached(t, v)
      BY <1>4, <1>5, <2>1, <3>1 DEF Reached
    <3> QED
      BY <1>4, <3>1, <3>2 DEF PointersInv, PointersFit
  <2>2. CASE at[t] = "store"
    <3>1. v = call[t].raw /\ call[t].op = "reset to"
      BY <2>2 DEF Takes
    <3>2. Reached(t, v)
      BY <3>1 DEF Reached
    <3>4. v \in made \cup {NULL}
      BY <1>0, <3>1 DEF PointersInv, PointersFit
    <3> QED
      BY <3>2, <3>4 DEF PointersInv, PointersFit
  <2> QED
    BY <1>0, <2>1, <2>2
<1>7. /\ ptr' \in [Slots -> Objects \cup {NULL}] /\ ptr'[l] = v
      /\ \A p \in Slots : p # l => ptr'[p] = ptr[p]
  BY <1>2, <1>4, <1>6 DEF PointersInv, PointersFit
<1>8. Flux(t)' = {l}
  BY <1>0, <1>1, <1>2, <1>3, FluxThen
<1>9. Only(t, C)
  <2>1. \A p \in C : Apart(t, p)
    BY <1>0, <1>1
  <2>2. \A u \in Threads \ {t} : dying'[u] = dying[u] /\ sum'[u] = sum[u]
    BY <1>2
  <2>3. \A p \in Slots \ C : ptr'[p] = ptr[p] /\ (p \in Flux(t)' <=> p \in Flux(t))
    BY <1>0, <1>1, <1>7, <1>8
  <2> QED
    BY <1>1, <1>3, <1>4, <1>7, <2>1, <2>2, <2>3 DEF Only
<1>10. Gentle(t, C)
  <2>1. \A p \in C : ptr'[p] = NULL \/ Reached(t, ptr'[p])
    BY <1>1, <1>6, <1>7
  <2>2. DOMAIN dying'[t] = {}
    BY <1>0, <1>2, EmptyStack
  <2>3. PICK next : next = "attach"
    OBVIOUS
  <2>4. Go(t, next)
    BY <2>3
  <2> QED
    BY <1>0, <1>2, <2>1, <2>2, <2>4, GentleGo
<1>11. \A o \in Objects : Owners(o)' = Owners(o)
  <2>1. ASSUME NEW o \in Objects PROVE Owners(o)' = Owners(o)
    <3>1. Owners(o)' = (Owners(o) \ C) \cup {p \in C : ptr'[p] = o /\ p \notin Flux(t)'}
      <4>1. t \in Threads
        BY <1>0
      <4> QED
        BY <1>9, <4>1, OwnersAfter
    <3>2. {p \in C : ptr'[p] = o /\ p \notin Flux(t)'} = {}
      BY <1>1, <1>8
    <3>3. l \notin Owners(o)
      BY <1>4 DEF Owners, ConstantsFit
    <3> QED
      BY <1>1, <3>1, <3>2, <3>3
  <2> QED
    BY <2>1
<1>12. PointersFit'
  <2>1. \A p \in Slots : ptr'[p] \in made' \cup {NULL}
    BY <1>3, <1>6, <1>7 DEF PointersInv, PointersFit
  <2> QED
    BY <1>2, <1>3, <1>7, <2>1 DEF PointersInv, PointersFit
<1>13. OwnFits(t)'
  <2>1. CallFits(t)'
    <3>1. "attach" \in PlacesOf("copy") /\ "attach" \in PlacesOf("reset to")
      BY DEF PlacesOf
    <3>2. call[t].op \in {"copy", "reset to"}
      BY DEF Takes
    <3> QED
      BY <1>0, <1>2, <1>3, <3>1, <3>2, SameCall DEF CallFits
  <2>2. DyingFits(t)'
    BY <1>0, <1>2, NoneDying
  <2>3. LhsHeld(t)' /\ RhsHeld(t)'
    BY <1>0, <1>1, <1>3, <1>9, HeldAfter
  <2>4. ValueHeld(t)'
    <3>1. call[t].op = "copy" => Settled(r)' /\ ptr'[r] = v
      <4>1. ASSUME call[t].op = "copy" PROVE Settled(r) /\ ptr[r] = v
        BY <1>1, <1>5, <4>1 DEF Takes
      <4>2. r \notin C
        BY <1>1, <1>4
      <4> QED
        BY <1>0, <1>4, <1>7, <1>9, <4>1, <4>2, SettledAfter
    <3>2. call[t].op = "reset to" /\ ~ThroughSelf(t) => Settled(r)' /\ ptr'[r] = call[t].raw
      <4>1. ASSUME call[t].op = "reset to", ~ThroughSelf(t) PROVE Settled(r) /\ ptr[r] = call[t].raw
        BY <1>0, <1>1, <4>1 DEF PointersInv, ValueHeld
      <4>2. r \notin C
        BY <1>1, <1>4
      <4> QED
        BY <1>0, <1>4, <1>7, <1>9, <4>1, <4>2, SettledAfter
    <3>3. call[t].op = "reset to" => v = call[t].raw
      BY DEF Takes
    <3>4. ThroughSelf(t)' <=> ThroughSelf(t)
      BY <1>3 DEF ThroughSelf
    <3> QED
      BY <1>1, <1>3, <1>7, <3>1, <3>2, <3>3, <3>4 DEF ValueHeld, Settled
  <2>5. NewFits(t)' /\ SumFits(t)'
    BY <1>3 DEF NewFits, Takes, SumFits
  <2> QED
    BY <2>1, <2>2, <2>3, <2>4, <2>5 DEF OwnFits
<1>14. PointersAlive'
  BY <1>1, <1>8, <1>9, <1>10, AliveAfter
<1>15. PointersCounted'
  <2>1. \A x : Releasing(x)' = Releasing(x)
    BY <1>0, <1>3, <1>9, ReleasingSame
  <2>2. \A o \in alive : o \in Objects
    BY DEF PointersInv, PointersFit
  <2> QED
    BY <1>2, <1>11, <2>1, <2>2, CountsSame
<1>16. BornOrDying'
  <2>1. \A x : t \in Destroyers(x) => t \in Destroyers(x)'
    BY <1>2 DEF Destroyers
  <2> QED
    BY <1>2, <1>3, <1>9, <2>1, BornAfter
<1> QED
  BY <1>9, <1>10, <1>12, <1>13, <1>14, <1>15, <1>16, Assembled

\* operator= of a move: the two pointers own the object in turn.
MoveStarts(t) == at[t] = "load" /\ call[t].op = "move"

LEMMA MoveStep ==
  ASSUME ConstantsFit, PointersInv, NEW t \in Users[library], ~Bad(t), MoveStarts(t),
         SetPtr(call[t].lhs, ptr[call[t].rhs]), Go(t, "clear")
  PROVE  PointersInv'
<1>t. t \in Threads
  BY Later DEF MoveStarts
<1>0. /\ dying[t] = <<>> /\ CallFits(t)
      /\ call[t].lhs \in Slots /\ call[t].rhs \in Slots
      /\ Flux(t) = {} /\ Apart(t, call[t].lhs) /\ at[t] = "load"
  BY Later DEF MoveStarts
<1>1. PICK l, r, v, C : l = call[t].lhs /\ r = call[t].rhs /\ v = ptr[r] /\ C = {l, r}
  OBVIOUS
<1>2. /\ ptr' = [ptr EXCEPT ![l] = v] /\ count' = count /\ alive' = alive
      /\ dying' = dying /\ sum' = sum
  BY <1>1 DEF SetPtr
<1>3. /\ at'[t] = "clear" /\ library' = library /\ made' = made /\ undefined' = undefined
      /\ call'[t] = call[t]
      /\ \A u \in Threads \ {t} : call'[u] = call[u] /\ at'[u] = at[u]
      /\ call' \in [Threads -> Calls] /\ at' \in [Threads -> Places]
      /\ \A u \in Threads : call'[u].raw \in made' \cup {NULL}
  <2>1. PICK next : next = "clear"
    OBVIOUS
  <2>2. next # "idle" /\ next \in Places /\ Go(t, next)
    BY <2>1 DEF Places
  <2> QED
    BY <1>t, <2>1, <2>2, GoFacts
<1>4. l \in Slots /\ r \in Slots /\ l # r /\ ptr[l] = NULL
  BY <1>0, <1>1 DEF CallFits, MoveStarts
<1>5. Settled(r) /\ Apart(t, r) /\ \A u \in Threads \ {t} : r \notin Changed(u)
  BY <1>0, <1>1, RhsSettled DEF MoveStarts
<1>6. v \in made \cup {NULL} /\ v \in Objects \cup {NULL} /\ v \in alive \cup {NULL}
  BY <1>1, <1>4, <1>5 DEF PointersInv, PointersFit, PointersAlive
<1>7. /\ ptr' \in [Slots -> Objects \cup {NULL}] /\ ptr'[l] = v /\ ptr'[r] = v
      /\ \A p \in Slots : p # l => ptr'[p] = ptr[p]
  BY <1>1, <1>2, <1>4, <1>6 DEF PointersInv, PointersFit
<1>8. Flux(t)' = {r}
  BY <1>t, <1>0, <1>1, <1>2, <1>3, FluxThen
<1>9. Only(t, C)
  <2>1. \A p \in C : Apart(t, p)
    BY <1>0, <1>1, <1>5
  <2>2. \A u \in Threads \ {t} : dying'[u] = dying[u] /\ sum'[u] = sum[u]
    BY <1>2
  <2>3. \A p \in Slots \ C : ptr'[p] = ptr[p] /\ (p \in Flux(t)' <=> p \in Flux(t))
    BY <1>0, <1>1, <1>7, <1>8
  <2> QED
    BY <1>1, <1>3, <1>4, <1>7, <2>1, <2>2, <2>3 DEF Only
<1>10. Gentle(t, C)
  <2>1. \A p \in C : ptr'[p] = NULL \/ Reached(t, ptr'[p])
    BY <1>1, <1>4, <1>5, <1>7 DEF Reached
  <2>2. DOMAIN dying'[t] = {}
    BY <1>0, <1>2, EmptyStack
  <2>3. PICK next : next = "clear"
    OBVIOUS
  <2>4. Go(t, next)
    BY <2>3
  <2> QED
    BY <1>t, <1>2, <2>1, <2>2, <2>4, GentleGo
<1>11. ASSUME NEW o \in Objects
       PROVE  /\ o # v => Owners(o)' = Owners(o)
              /\ o = v => Owners(o)' = (Owners(o) \ {r}) \cup {l} /\ r \in Owners(o) /\ l \notin Owners(o)
  <2>1. Owners(o)' = (Owners(o) \ C) \cup {p \in C : ptr'[p] = o /\ p \notin Flux(t)'}
    BY <1>t, <1>9, OwnersAfter
  <2>2. l \notin Owners(o)
    BY <1>4 DEF Owners, ConstantsFit
  <2>3. r \in Owners(o) <=> o = v
    BY <1>1, <1>4, <1>5 DEF Owners
  <2>4. {p \in C : ptr'[p] = o /\ p \notin Flux(t)'} = IF o = v THEN {l} ELSE {}
    BY <1>1, <1>4, <1>7, <1>8
  <2> QED
    BY <1>1, <2>1, <2>2, <2>3, <2>4
<1>12. PointersFit'
  <2>1. \A p \in Slots : ptr'[p] \in made' \cup {NULL}
    BY <1>3, <1>6, <1>7 DEF PointersInv, PointersFit
  <2> QED
    BY <1>2, <1>3, <1>7, <2>1 DEF PointersInv, PointersFit
<1>13. OwnFits(t)'
  <2>1. CallFits(t)'
    <3>1. "clear" \in PlacesOf("move") /\ call[t].op = "move"
      BY DEF PlacesOf, MoveStarts
    <3> QED
      BY <1>0, <1>2, <1>3, <3>1, SameCall DEF CallFits
  <2>2. DyingFits(t)'
    BY <1>t, <1>0, <1>2, NoneDying
  <2>3. LhsHeld(t)'
    <3> SUFFICES ASSUME NEW o \in Objects, Member(o) \in {l} \cup call[t].toLhs
                 PROVE  \E s \in Owners(o)' : s \in call[t].toLhs \/ s = l
      BY <1>1, <1>3 DEF LhsHeld
    <3>1. PICK s \in Owners(o) : s \in call[t].toLhs
      BY <1>t, <1>0, <1>1 DEF PointersInv, LhsHeld
    <3>3. CASE s = r
      <4>1. o = v
        BY <1>1, <3>1, <3>3 DEF Owners
      <4> QED
        BY <1>11, <4>1
    <3>4. CASE s # r
      <4>1. s \in Owners(o)'
        BY <1>11, <3>1, <3>4
      <4> QED
        BY <3>1, <4>1
    <3> QED
      BY <3>3, <3>4
  <2>4. RhsHeld(t)'
    <3>1. ThroughSelf(t)' <=> ThroughSelf(t)
      BY <1>3 DEF ThroughSelf
    <3> SUFFICES ASSUME NEW o \in Objects, Member(o) \in {r} \cup call[t].toRhs, ~ThroughSelf(t)
                 PROVE  \E s \in Owners(o)' : s \in call[t].toRhs
      BY <1>1, <1>3, <3>1 DEF RhsHeld
    <3>2. PICK s \in Owners(o) : s \in call[t].toRhs
      BY <1>t, <1>1 DEF PointersInv, RhsHeld
    <3>3. s # r
      BY <1>0, <1>1, <3>2 DEF CallFits
    <3>4. s \in Owners(o)'
      BY <1>11, <3>2, <3>3
    <3> QED
      BY <3>2, <3>4
  <2>5. ValueHeld(t)' /\ NewFits(t)' /\ SumFits(t)'
    BY <1>3 DEF ValueHeld, NewFits, SumFits, MoveStarts
  <2> QED
    BY <2>1, <2>2, <2>3, <2>4, <2>5 DEF OwnFits
<1>14. PointersAlive'
  <2>1. \A p \in C : p \notin Flux(t)' => ptr'[p] \in alive' \cup {NULL}
    BY <1>1, <1>2, <1>6, <1>7, <1>8
  <2> QED
    BY <1>9, <1>10, <2>1, AliveAfter
<1>15. PointersCounted'
  <2>1. \A x : Releasing(x)' = Releasing(x)
    BY <1>t, <1>3, <1>9, ReleasingSame
  <2>2. ASSUME NEW o \in alive PROVE count'[o] = Cardinality(Owners(o)') + Cardinality(Releasing(o)')
    <3>1. /\ o \in Objects /\ IsFiniteSet(Owners(o)) /\ Cardinality(Owners(o)) \in Nat
          /\ count[o] = Cardinality(Owners(o)) + Cardinality(Releasing(o))
      BY CountFacts
    <3>2. Cardinality(Owners(o)') = Cardinality(Owners(o))
      <4>1. CASE o = v
        <5>1. PICK O : O = Owners(o) \ {r}
          OBVIOUS
        <5>2. /\ Owners(o)' = O \cup {l} /\ r \in Owners(o) /\ l \notin O
          BY <1>11, <3>1, <4>1, <5>1
        <5>3. IsFiniteSet(O) /\ Cardinality(O) = Cardinality(Owners(o)) - 1
          BY <3>1, <5>1, <5>2, FS_RemoveElement
        <5>4. Cardinality(O \cup {l}) = Cardinality(O) + 1
          BY <5>2, <5>3, FS_AddElement
        <5>5. Cardinality(O \cup {l}) = Cardinality(Owners(o))
          BY <3>1, <5>3, <5>4
        <5> QED
          BY <5>2, <5>5
      <4>2. CASE o # v
        BY <1>11, <3>1, <4>2
      <4> QED
        BY <4>1, <4>2
    <3> QED
      BY <1>2, <2>1, <3>1, <3>2
  <2> QED
    BY <1>2, <2>2 DEF PointersCounted
<1>16. BornOrDying'
  <2>1. \A x : t \in Destroyers(x) => t \in Destroyers(x)'
    BY <1>2 DEF Destroyers
  <2> QED
    BY <1>2, <1>3, <1>9, <2>1, BornAfter
<1> QED
  BY <1>9, <1>10, <1>12, <1>13, <1>14, <1>15, <1>16, Assembled

LEMMA ClearStep ==
  ASSUME ConstantsFit, PointersInv, NEW t \in Users[library], ~Bad(t), at[t] = "clear",
         SetPtr(call[t].rhs, NULL), Go(t, "idle")
  PROVE  PointersInv'
<1>t. t \in Threads
  BY Later
<1>0. /\ dying[t] = <<>> /\ call[t].rhs \in Slots /\ Flux(t) = {call[t].rhs}
      /\ call[t].op # "make"
  BY Later
<1>1. PICK r, C : r = call[t].rhs /\ C = {r}
  OBVIOUS
<1>2. /\ ptr' = [ptr EXCEPT ![r] = NULL] /\ count' = count /\ alive' = alive
      /\ dying' = dying /\ sum' = sum
  BY <1>1 DEF SetPtr
<1>3. /\ at'[t] = "idle" /\ library' = library /\ made' = made /\ undefined' = undefined
      /\ call'[t] = NoCall
      /\ \A u \in Threads \ {t} : call'[u] = call[u] /\ at'[u] = at[u]
      /\ call' \in [Threads -> Calls] /\ at' \in [Threads -> Places]
      /\ \A u \in Threads : call'[u].raw \in made' \cup {NULL}
  <2>1. PICK next : next = "idle"
    OBVIOUS
  <2>2. next = "idle" /\ next \in Places /\ Go(t, next)
    BY <2>1 DEF Places
  <2> QED
    BY <1>t, <2>1, <2>2, GoFacts
<1>4. /\ ptr' \in [Slots -> Objects \cup {NULL}] /\ ptr'[r] = NULL
      /\ \A p \in Slots : p # r => ptr'[p] = ptr[p]
  BY <1>0, <1>1, <1>2 DEF PointersInv, PointersFit
<1>5. OwnFits(t)' /\ Flux(t)' = {}
  BY <1>t, <1>0, <1>2, <1>3, Ended
<1>6. Only(t, C)
  <2>1. Apart(t, r)
    <3>1. call[t].op = "move"
      BY <1>t, CallTypes
    <3> QED
      BY <1>t, <1>1, <3>1, RhsAlone
  <2>2. \A u \in Threads \ {t} : dying'[u] = dying[u] /\ sum'[u] = sum[u]
    BY <1>2
  <2>3. \A p \in Slots \ C : ptr'[p] = ptr[p] /\ (p \in Flux(t)' <=> p \in Flux(t))
    BY <1>0, <1>1, <1>4, <1>5
  <2> QED
    BY <1>0, <1>1, <1>3, <1>4, <2>1, <2>2, <2>3 DEF Only
<1>7. Gentle(t, C)
  <2>1. \A p \in C : ptr'[p] = NULL
    BY <1>1, <1>4
  <2>2. DOMAIN dying'[t] = {}
    BY <1>0, <1>2, EmptyStack
  <2>3. PICK next : next = "idle"
    OBVIOUS
  <2>4. Go(t, next)
    BY <2>3
  <2> QED
    BY <1>t, <1>2, <2>1, <2>2, <2>4, GentleGo
<1>8. ASSUME NEW o \in Objects PROVE Owners(o)' = Owners(o)
  <2>1. Owners(o)' = (Owners(o) \ C) \cup {p \in C : ptr'[p] = o /\ p \notin Flux(t)'}
    BY <1>t, <1>6, OwnersAfter
  <2>2. r \notin Owners(o)
    <3>1. r \in Flux(t)
      BY <1>0, <1>1
    <3> QED
      BY <1>t, <3>1 DEF Owners, Settled, Flux
  <2>3. {p \in C : ptr'[p] = o /\ p \notin Flux(t)'} = {}
    BY <1>1, <1>4 DEF ConstantsFit
  <2> QED
    BY <1>1, <2>1, <2>2, <2>3
<1>9. PointersFit'
  <2>1. \A p \in Slots : ptr'[p] \in made' \cup {NULL}
    BY <1>3, <1>4 DEF PointersInv, PointersFit
  <2> QED
    BY <1>2, <1>3, <1>4, <2>1 DEF PointersInv, PointersFit
<1>10. PointersAlive'
  BY <1>1, <1>4, <1>6, <1>7, AliveAfter
<1>11. call'[t].op # "make"
  BY <1>3, NoCallFields
<1>12. PointersCounted'
  <2>1. \A x : Releasing(x)' = Releasing(x)
    BY <1>t, <1>0, <1>6, <1>11, ReleasingSame
  <2>2. \A o \in alive : o \in Objects
    BY DEF PointersInv, PointersFit
  <2> QED
    BY <1>2, <1>8, <2>1, <2>2, CountsSame
<1>13. BornOrDying'
  <2>1. \A x : t \in Destroyers(x) => t \in Destroyers(x)'
    BY <1>2 DEF Destroyers
  <2> QED
    BY <1>0, <1>2, <1>6, <2>1, BornAfter
<1> QED
  BY <1>5, <1>6, <1>7, <1>9, <1>10, <1>12, <1>13, Assembled

-----------------------------------------------------------------------------
(***************************************************************************)
(* The new value is attached.                                              *)
(***************************************************************************)
LEMMA AttachIs ==
  ASSUME ConstantsFit, PointersInv, NEW t \in Users[library], at[t] \in {"attach", "write"}
  PROVE  /\ Attached(t) = "idle" \/ Attached(t) = "release"
         /\ Attached(t) = "release" => call[t].op = "make" /\ library = "scaleform"
         /\ Attached(t) = "idle" => call[t].op # "make" \/ library = "bethesda"
         /\ call[t].op = "make" => ptr[call[t].lhs] # NULL /\ call[t].raw = ptr[call[t].lhs]
<1>1. library \in {"bethesda", "scaleform"}
  BY DEF PointersInv, PointersFit, ConstantsFit
<1>2. call[t].op = "make" => call[t].raw \in alive /\ ptr[call[t].lhs] = call[t].raw
  BY AccessFacts DEF NewFits
<1>3. NULL \notin alive
  BY DEF PointersInv, PointersFit, ConstantsFit
<1> QED
  BY <1>1, <1>2, <1>3 DEF Attached

\* What is attached exists, unless the access is stale.
LEMMA ValueAlive ==
  ASSUME ConstantsFit, PointersInv, NEW t \in Users[library], at[t] \in {"attach", "write"}, ~Bad(t),
         ptr[call[t].lhs] # NULL
  PROVE  /\ ptr[call[t].lhs] \in Objects /\ ptr[call[t].lhs] \in alive
         /\ Destroyers(ptr[call[t].lhs]) = {}
         /\ \A u \in Threads \ {t} : call[t].lhs \notin Held(u)
         /\ Reached(t, ptr[call[t].lhs])
<1>1. t \in Threads /\ call[t].lhs \in Slots /\ Apart(t, call[t].lhs)
  BY Later
<1>2. ptr[call[t].lhs] \in Objects
  BY <1>1 DEF PointersInv, PointersFit
<1>3. ptr[call[t].lhs] \in Touched(t)
  BY <1>2 DEF Touched
<1> QED
  BY <1>1, <1>2, <1>3, HeldAre DEF Bad, Apart, Reached

LEMMA NothingAttached ==
  ASSUME ConstantsFit, PointersInv, NEW t \in Users[library], at[t] = "attach",
         ptr[call[t].lhs] = NULL, Go(t, Attached(t)),
         UNCHANGED <<ptr, count, alive, dying, sum>>
  PROVE  PointersInv'
<1>t. t \in Threads
  BY Later
<1>0. /\ dying[t] = <<>> /\ call[t].lhs \in Slots /\ Flux(t) = {call[t].lhs}
      /\ Apart(t, call[t].lhs)
  BY Later
<1>n. call[t].op # "make" /\ Attached(t) = "idle"
  BY AttachIs
<1>1. PICK l, C : l = call[t].lhs /\ C = {l}
  OBVIOUS
<1>3. /\ at'[t] = "idle" /\ library' = library /\ made' = made /\ undefined' = undefined
      /\ call'[t] = NoCall
      /\ \A u \in Threads \ {t} : call'[u] = call[u] /\ at'[u] = at[u]
      /\ call' \in [Threads -> Calls] /\ at' \in [Threads -> Places]
      /\ \A u \in Threads : call'[u].raw \in made' \cup {NULL}
  <2>1. PICK next : next = Attached(t)
    OBVIOUS
  <2>2. next = "idle" /\ next \in Places /\ Go(t, next)
    BY <1>n, <2>1 DEF Places
  <2> QED
    BY <1>t, <2>1, <2>2, GoFacts
<1>4. ptr' \in [Slots -> Objects \cup {NULL}] /\ ptr'[l] = NULL
  BY <1>1 DEF PointersInv, PointersFit
<1>5. OwnFits(t)' /\ Flux(t)' = {}
  BY <1>t, <1>0, <1>3, Ended
<1>6. Only(t, C)
  <2>3. \A p \in Slots \ C : ptr'[p] = ptr[p] /\ (p \in Flux(t)' <=> p \in Flux(t))
    BY <1>0, <1>1, <1>5
  <2> QED
    BY <1>0, <1>1, <1>3, <1>4, <2>3 DEF Only
<1>7. Gentle(t, C)
  <2>1. \A p \in C : ptr'[p] = NULL
    BY <1>1, <1>4
  <2>2. DOMAIN dying'[t] = {}
    BY <1>0, EmptyStack
  <2>3. PICK next : next = Attached(t)
    OBVIOUS
  <2>4. Go(t, next)
    BY <2>3
  <2> QED
    BY <1>t, <2>1, <2>2, <2>4, GentleGo
<1>8. ASSUME NEW o \in Objects PROVE Owners(o)' = Owners(o)
  <2>1. Owners(o)' = (Owners(o) \ C) \cup {p \in C : ptr'[p] = o /\ p \notin Flux(t)'}
    BY <1>t, <1>6, OwnersAfter
  <2>2. l \notin Owners(o)
    BY <1>1 DEF Owners, ConstantsFit
  <2>3. {p \in C : ptr'[p] = o /\ p \notin Flux(t)'} = {}
    BY <1>1, <1>4 DEF ConstantsFit
  <2> QED
    BY <1>1, <2>1, <2>2, <2>3
<1>9. PointersFit'
  <2>1. \A p \in Slots : ptr'[p] \in made' \cup {NULL}
    BY <1>3 DEF PointersInv, PointersFit
  <2> QED
    BY <1>3, <1>4, <2>1 DEF PointersInv, PointersFit
<1>10. PointersAlive'
  BY <1>1, <1>4, <1>6, <1>7, AliveAfter
<1>11. call'[t].op # "make"
  BY <1>3, NoCallFields
<1>12. PointersCounted'
  <2>1. \A x : Releasing(x)' = Releasing(x)
    BY <1>t, <1>n, <1>6, <1>11, ReleasingSame
  <2>2. \A o \in alive : o \in Objects
    BY DEF PointersInv, PointersFit
  <2> QED
    BY <1>8, <2>1, <2>2, CountsSame
<1>13. BornOrDying'
  <2>1. \A x : t \in Destroyers(x) => t \in Destroyers(x)'
    BY DEF Destroyers
  <2> QED
    BY <1>n, <1>6, <2>1, BornAfter
<1> QED
  BY <1>5, <1>6, <1>7, <1>9, <1>10, <1>12, <1>13, Assembled

\* The pointer counts from now on.
LEMMA AttachedStep ==
  ASSUME ConstantsFit, PointersInv, NEW t \in Users[library], at[t] \in {"attach", "write"}, ~Bad(t),
         ptr[call[t].lhs] # NULL, library = "bethesda" \/ at[t] = "write",
         count' = [count EXCEPT ![ptr[call[t].lhs]] = @ + 1],
         sum' \in [Threads -> Nat], \A u \in Threads \ {t} : sum'[u] = sum[u],
         Go(t, Attached(t)), UNCHANGED <<ptr, alive, dying>>
  PROVE  PointersInv'
<1>t. t \in Threads
  BY Later
<1>0. /\ dying[t] = <<>> /\ call[t].lhs \in Slots /\ Flux(t) = {call[t].lhs}
      /\ Apart(t, call[t].lhs) /\ CallFits(t)
  BY Later
<1>1. PICK l, o, C, next : l = call[t].lhs /\ o = ptr[l] /\ C = {l} /\ next = Attached(t)
  OBVIOUS
<1>2. /\ o \in Objects /\ o \in alive /\ Destroyers(o) = {} /\ o # NULL /\ Reached(t, o)
      /\ l \in Slots
  BY <1>0, <1>1, ValueAlive
<1>3. /\ count' \in [Objects -> Nat] /\ count'[o] = count[o] + 1 /\ count[o] \in Nat
      /\ \A x \in Objects : x # o => count'[x] = count[x]
  BY <1>1, <1>2 DEF PointersInv, PointersFit
<1>4. /\ at'[t] = next /\ library' = library /\ made' = made /\ undefined' = undefined
      /\ next # "idle" => call'[t] = call[t]
      /\ next = "idle" => call'[t] = NoCall
      /\ \A u \in Threads \ {t} : call'[u] = call[u] /\ at'[u] = at[u]
      /\ call' \in [Threads -> Calls] /\ at' \in [Threads -> Places]
      /\ \A u \in Threads : call'[u].raw \in made' \cup {NULL}
  <2>1. next \in Places /\ Go(t, next)
    BY <1>1, AttachIs DEF Places
  <2> QED
    BY <1>t, <2>1, GoFacts
<1>5. /\ next = "idle" \/ next = "release"
      /\ next = "release" => call[t].op = "make" /\ library = "scaleform"
      /\ next = "idle" => call[t].op # "make" \/ library = "bethesda"
      /\ call[t].op = "make" => call[t].raw = o
  BY <1>1, AttachIs
<1>6. Flux(t)' = {}
  <2>1. at'[t] \in {"idle", "load", "store", "release"} /\ dying'[t] = <<>>
    BY <1>0, <1>4, <1>5
  <2> QED
    BY <1>t, <2>1, FluxThen
<1>7. Only(t, C)
  <2>1. \A p \in Slots \ C : ptr'[p] = ptr[p] /\ (p \in Flux(t)' <=> p \in Flux(t))
    BY <1>0, <1>1, <1>6
  <2>2. ptr' \in [Slots -> Objects \cup {NULL}]
    BY DEF PointersInv, PointersFit
  <2> QED
    BY <1>0, <1>1, <1>4, <2>1, <2>2 DEF Only
<1>8. Gentle(t, C)
  <2>1. \A p \in C : ptr'[p] = NULL \/ Reached(t, ptr'[p])
    BY <1>1, <1>2
  <2>2. DOMAIN dying'[t] = {}
    BY <1>0, EmptyStack
  <2>3. \A x \in alive : Destroyers(x) # {} => count'[x] = count[x]
    BY <1>2, <1>3 DEF PointersInv, PointersFit
  <2>4. Go(t, next)
    BY <1>1
  <2> QED
    BY <1>t, <2>1, <2>2, <2>3, <2>4, GentleGo
<1>9. ASSUME NEW x \in Objects
      PROVE  /\ x # o => Owners(x)' = Owners(x)
             /\ x = o => Owners(x)' = Owners(x) \cup {l} /\ l \notin Owners(x)
  <2>1. Owners(x)' = (Owners(x) \ C) \cup {p \in C : ptr'[p] = x /\ p \notin Flux(t)'}
    BY <1>t, <1>7, OwnersAfter
  <2>2. l \notin Owners(x)
    <3>1. l \in Flux(t)
      BY <1>0, <1>1
    <3> QED
      BY <1>t, <3>1 DEF Owners, Settled, Flux
  <2>3. {p \in C : ptr'[p] = x /\ p \notin Flux(t)'} = IF x = o THEN {l} ELSE {}
    BY <1>1, <1>6
  <2> QED
    BY <1>1, <2>1, <2>2, <2>3
<1>10. PointersFit'
  <2>1. \A p \in Slots : ptr'[p] \in made' \cup {NULL}
    BY <1>4 DEF PointersInv, PointersFit
  <2> QED
    BY <1>3, <1>4, <2>1 DEF PointersInv, PointersFit
<1>11. OwnFits(t)'
  <2>1. CASE next = "idle"
    BY <1>t, <1>0, <1>4, <2>1, Ended
  <2>2. CASE next # "idle"
    <3>1. call'[t] = call[t] /\ at'[t] = "release" /\ call[t].op = "make" /\ library = "scaleform"
      BY <1>4, <1>5, <2>2
    <3>2. CallFits(t)'
      <4>1. "release" \in PlacesOf("make")
        BY DEF PlacesOf
      <4> QED
        BY <1>0, <1>4, <3>1, <4>1, SameCall DEF CallFits
    <3>3. DyingFits(t)'
      BY <1>t, <1>0, NoneDying
    <3>4. LhsHeld(t)' /\ RhsHeld(t)'
      BY <1>1, <1>7, <3>1, HeldAfter
    <3>5. ValueHeld(t)' /\ SumFits(t)'
      BY <3>1 DEF ValueHeld, SumFits
    <3>6. NewFits(t)'
      BY <1>1, <1>2, <1>5, <3>1 DEF NewFits, Destroyers
    <3> QED
      BY <3>2, <3>3, <3>4, <3>5, <3>6 DEF OwnFits
  <2> QED
    BY <2>1, <2>2
<1>12. PointersAlive'
  BY <1>1, <1>2, <1>7, <1>8, AliveAfter
<1>13. PointersCounted'
  <2>1. ASSUME NEW x \in Objects PROVE Releasing(x)' = Releasing(x)
    <3>1. CASE library = "bethesda"
      BY <1>4, <3>1 DEF Releasing
    <3>2. CASE library # "bethesda"
      <4>1. next = "idle" => call[t].op # "make" /\ call'[t].op # "make"
        BY <1>4, <1>5, <3>2, NoCallFields
      <4>2. call'[t].op = "make" /\ call'[t].raw = x <=> call[t].op = "make" /\ call[t].raw = x
        BY <1>4, <4>1
      <4> QED
        BY <1>t, <1>7, <4>2, ReleasingSame
    <3> QED
      BY <3>1, <3>2
  <2>2. ASSUME NEW x \in alive PROVE count'[x] = Cardinality(Owners(x)') + Cardinality(Releasing(x)')
    <3>1. /\ x \in Objects /\ IsFiniteSet(Owners(x)) /\ Cardinality(Owners(x)) \in Nat
          /\ Cardinality(Releasing(x)) \in Nat
          /\ count[x] = Cardinality(Owners(x)) + Cardinality(Releasing(x))
      BY CountFacts
    <3>2. CASE x = o
      <4>1. Cardinality(Owners(x) \cup {l}) = Cardinality(Owners(x)) + 1
        BY <1>9, <3>1, <3>2, FS_AddElement
      <4>2. Cardinality(Owners(x)') = Cardinality(Owners(x)) + 1
        BY <1>9, <3>1, <3>2, <4>1
      <4>3. count'[x] = count[x] + 1
        BY <1>3, <3>2
      <4> QED
        BY <2>1, <3>1, <4>2, <4>3
    <3>3. CASE x # o
      BY <1>3, <1>9, <2>1, <3>1, <3>3
    <3> QED
      BY <3>2, <3>3
  <2> QED
    BY <2>2 DEF PointersCounted
<1>14. BornOrDying'
  <2>1. \A x : t \in Destroyers(x) => t \in Destroyers(x)'
    BY DEF Destroyers
  <2>2. \A x \in alive' : count'[x] = 0 => /\ x \in alive /\ count[x] = 0
                                          /\ ~(call[t].op = "make" /\ call[t].raw = x)
    <3>1. \A x \in alive : x \in Objects
      BY DEF PointersInv, PointersFit
    <3>2. count'[o] # 0
      BY <1>3
    <3> QED
      BY <1>3, <1>5, <3>1, <3>2
  <2> QED
    BY <1>7, <2>1, <2>2, BornAfter
<1> QED
  BY <1>7, <1>8, <1>10, <1>11, <1>12, <1>13, <1>14, Assembled

\* Scaleform reads the count before it writes it back.
LEMMA SumStep ==
  ASSUME ConstantsFit, PointersInv, NEW t \in Users[library], at[t] = "attach", ~Bad(t),
         ptr[call[t].lhs] # NULL, library = "scaleform",
         sum' = [sum EXCEPT ![t] = count[ptr[call[t].lhs]] + 1],
         Go(t, "write"), UNCHANGED <<ptr, count, alive, dying>>
  PROVE  PointersInv'
<1>t. t \in Threads
  BY Later
<1>0. /\ dying[t] = <<>> /\ call[t].lhs \in Slots /\ call[t].rhs \in Slots
      /\ Flux(t) = {call[t].lhs} /\ CallFits(t)
      /\ call[t].op \in {"make", "copy", "reset to"}
  BY Later
<1>1. PICK l, o, C : l = call[t].lhs /\ o = ptr[l] /\ C = {}
  OBVIOUS
<1>c. C = {}
  BY <1>1
<1>2. o \in Objects /\ o # NULL /\ l \in Slots
  BY <1>0, <1>1, ValueAlive
<1>3. sum' \in [Threads -> Nat] /\ sum'[t] = count[o] + 1 /\ \A u \in Threads \ {t} : sum'[u] = sum[u]
  BY <1>t, <1>1, <1>2 DEF PointersInv, PointersFit
<1>4. /\ at'[t] = "write" /\ library' = library /\ made' = made /\ undefined' = undefined
      /\ call'[t] = call[t]
      /\ \A u \in Threads \ {t} : call'[u] = call[u] /\ at'[u] = at[u]
      /\ call' \in [Threads -> Calls] /\ at' \in [Threads -> Places]
      /\ \A u \in Threads : call'[u].raw \in made' \cup {NULL}
  <2>1. PICK next : next = "write"
    OBVIOUS
  <2>2. next # "idle" /\ next \in Places /\ Go(t, next)
    BY <2>1 DEF Places
  <2> QED
    BY <1>t, <2>1, <2>2, GoFacts
<1>5. Flux(t)' = Flux(t)
  BY <1>t, <1>0, <1>4, FluxThen
<1>6. Only(t, C)
  <2>1. ptr' \in [Slots -> Objects \cup {NULL}]
    BY DEF PointersInv, PointersFit
  <2> QED
    BY <1>c, <1>3, <1>4, <1>5, <2>1 DEF Only
<1>7. Gentle(t, C)
  <2>2. DOMAIN dying'[t] = {}
    BY <1>0, EmptyStack
  <2>3. PICK next : next = "write"
    OBVIOUS
  <2>4. Go(t, next)
    BY <2>3
  <2> QED
    BY <1>t, <1>c, <2>2, <2>4, GentleGo
<1>8. \A x : Owners(x)' = Owners(x)
  BY <1>t, <1>c, <1>6, OwnersAfter
<1>9. PointersFit'
  <2>1. \A p \in Slots : ptr'[p] \in made' \cup {NULL}
    BY <1>4 DEF PointersInv, PointersFit
  <2> QED
    BY <1>3, <1>4, <2>1 DEF PointersInv, PointersFit
<1>10. OwnFits(t)'
  <2>0. ValueHeld(t) /\ NewFits(t)
    BY <1>t DEF PointersInv
  <2>1. CallFits(t)'
    <3>1. "write" \in PlacesOf("make") /\ "write" \in PlacesOf("copy") /\ "write" \in PlacesOf("reset to")
      BY DEF PlacesOf
    <3> QED
      BY <1>0, <1>4, <3>1, SameCall DEF CallFits
  <2>2. DyingFits(t)'
    BY <1>t, <1>0, NoneDying
  <2>3. LhsHeld(t)' /\ RhsHeld(t)'
    BY <1>c, <1>4, <1>6, HeldAfter
  <2>4. ValueHeld(t)'
    <3>1. PICK r : r = call[t].rhs
      OBVIOUS
    <3>2. Settled(r)' <=> Settled(r)
      <4>1. r \in Slots /\ r \notin C
        BY <1>0, <1>c, <3>1
      <4> QED
        BY <1>t, <1>6, <4>1, SettledAfter
    <3>3. ThroughSelf(t)' <=> ThroughSelf(t)
      BY <1>4 DEF ThroughSelf
    <3>4. /\ call[t].op = "copy" => Settled(r) /\ ptr[l] = ptr[r]
          /\ call[t].op = "reset to" /\ ~ThroughSelf(t) => Settled(r) /\ ptr[r] = call[t].raw
          /\ call[t].op = "reset to" => ptr[l] = call[t].raw
      BY <1>1, <2>0, <3>1 DEF ValueHeld
    <3> QED
      BY <1>1, <1>4, <3>1, <3>2, <3>3, <3>4 DEF ValueHeld, Settled
  <2>5. NewFits(t)'
    BY <1>4, <2>0 DEF NewFits, Destroyers
  <2>6. SumFits(t)'
    BY <1>1, <1>2, <1>3, <1>4 DEF SumFits
  <2> QED
    BY <2>1, <2>2, <2>3, <2>4, <2>5, <2>6 DEF OwnFits
<1>11. PointersAlive'
  BY <1>c, <1>6, <1>7, AliveAfter
<1>12. PointersCounted'
  <2>1. \A x : Releasing(x)' = Releasing(x)
    BY <1>t, <1>4, <1>6, ReleasingSame
  <2> QED
    BY <1>8, <2>1, CountsSame
<1>13. BornOrDying'
  <2>1. \A x : t \in Destroyers(x) => t \in Destroyers(x)'
    BY DEF Destroyers
  <2> QED
    BY <1>4, <1>6, <2>1, BornAfter
<1> QED
  BY <1>6, <1>7, <1>9, <1>10, <1>11, <1>12, <1>13, Assembled

-----------------------------------------------------------------------------
(***************************************************************************)
(* make_smart and make_shared.                                             *)
(***************************************************************************)

\* The reference the constructor started with is never the last.
LEMMA ReleaseStep ==
  ASSUME ConstantsFit, PointersInv, NEW t \in Users[library], Release(t)
  PROVE  PointersInv'
<1>a. at[t] = "release" /\ ~Bad(t) /\ Drop(t, call[t].raw, "idle")
  BY DEF Release, Doing
<1>t. t \in Threads
  BY <1>a, Later
<1>0. /\ dying[t] = <<>> /\ call[t].lhs \in Slots /\ Flux(t) = {} /\ Apart(t, call[t].lhs)
      /\ call[t].op = "make" /\ library = "scaleform"
  BY <1>a, Later
<1>1. PICK l, o, C : l = call[t].lhs /\ o = call[t].raw /\ C = {}
  OBVIOUS
<1>c. C = {}
  BY <1>1
<1>2. o \in alive /\ ptr[l] = o /\ o \in Objects /\ o # NULL
  BY <1>t, <1>0, <1>1 DEF PointersInv, NewFits, PointersFit, ConstantsFit
<1>3. l \in Owners(o) /\ t \in Releasing(o)
  <2>1. Settled(l)
    BY <1>0, <1>1 DEF Settled, Apart, Flux
  <2> QED
    BY <1>t, <1>0, <1>1, <1>2, <2>1 DEF Owners, Releasing
<1>4. count[o] \in Nat /\ count[o] >= 2
  <2>1. /\ IsFiniteSet(Owners(o)) /\ IsFiniteSet(Releasing(o)) /\ count[o] \in Nat
        /\ Cardinality(Owners(o)) \in Nat /\ Cardinality(Releasing(o)) \in Nat
        /\ count[o] = Cardinality(Owners(o)) + Cardinality(Releasing(o))
    BY <1>2, CountFacts
  <2>2. Cardinality(Owners(o)) # 0 /\ Cardinality(Releasing(o)) # 0
    BY <1>3, <2>1, FS_EmptySet
  <2> QED
    BY <2>1, <2>2
<1>5. /\ count' = [count EXCEPT ![o] = count[o] - 1] /\ dying' = dying /\ Go(t, "idle")
      /\ ptr' = ptr /\ alive' = alive /\ sum' = sum
  BY <1>a, <1>1, <1>4 DEF Drop
<1>6. /\ count' \in [Objects -> Nat] /\ count'[o] = count[o] - 1
      /\ \A x \in Objects : x # o => count'[x] = count[x]
  <2>1. count \in [Objects -> Nat] /\ count[o] - 1 \in Nat
    BY <1>4 DEF PointersInv, PointersFit
  <2> QED
    BY <1>2, <1>5, <2>1
<1>7. /\ at'[t] = "idle" /\ library' = library /\ made' = made /\ undefined' = undefined
      /\ call'[t] = NoCall
      /\ \A u \in Threads \ {t} : call'[u] = call[u] /\ at'[u] = at[u]
      /\ call' \in [Threads -> Calls] /\ at' \in [Threads -> Places]
      /\ \A u \in Threads : call'[u].raw \in made' \cup {NULL}
  <2>1. PICK next : next = "idle"
    OBVIOUS
  <2>2. next = "idle" /\ next \in Places /\ Go(t, next)
    BY <1>5, <2>1 DEF Places
  <2> QED
    BY <1>t, <2>1, <2>2, GoFacts
<1>8. OwnFits(t)' /\ Flux(t)' = {}
  <2>1. dying'[t] = <<>>
    BY <1>0, <1>5
  <2> QED
    BY <1>t, <1>7, <2>1, Ended
<1>9. Only(t, C)
  <2>1. ptr' \in [Slots -> Objects \cup {NULL}]
    BY <1>5 DEF PointersInv, PointersFit
  <2>2. Flux(t)' = Flux(t)
    BY <1>0, <1>8
  <2> QED
    BY <1>c, <1>5, <1>7, <2>1, <2>2 DEF Only
<1>10. Gentle(t, C)
  <2>1. \A x \in alive : Destroyers(x) # {} => count'[x] = count[x]
    <3>1. Destroyers(o) = {}
      BY <1>t, <1>0, <1>1 DEF PointersInv, NewFits, Destroyers
    <3>2. \A x \in alive : x \in Objects
      BY DEF PointersInv, PointersFit
    <3> QED
      BY <1>6, <3>1, <3>2
  <2>2. DOMAIN dying'[t] = {}
    BY <1>0, <1>5, EmptyStack
  <2>3. PICK next : next = "idle"
    OBVIOUS
  <2>4. Go(t, next)
    BY <1>5, <2>3
  <2> QED
    BY <1>t, <1>c, <1>5, <2>1, <2>2, <2>4, GentleGo
<1>11. \A x : Owners(x)' = Owners(x)
  BY <1>t, <1>c, <1>9, OwnersAfter
<1>12. PointersFit'
  <2>1. \A p \in Slots : ptr'[p] \in made' \cup {NULL}
    BY <1>5, <1>7 DEF PointersInv, PointersFit
  <2> QED
    BY <1>5, <1>6, <1>7, <2>1 DEF PointersInv, PointersFit
<1>13. PointersAlive'
  BY <1>c, <1>9, <1>10, AliveAfter
<1>14. PointersCounted'
  <2>0. call'[t].op # "make"
    BY <1>7, NoCallFields
  <2>1. ASSUME NEW x PROVE /\ x = o => Releasing(x)' = Releasing(x) \ {t}
                           /\ x # o => Releasing(x)' = Releasing(x)
    <3>1. \A u \in Threads : u \in Releasing(x)' <=> (u \in Releasing(x) /\ u # t)
                             \/ (x # o /\ u \in Releasing(x))
      BY <1>1, <1>7, <2>0 DEF Releasing
    <3>2. Releasing(x) \subseteq Threads /\ Releasing(x)' \subseteq Threads
      BY DEF Releasing
    <3> QED
      BY <3>1, <3>2
  <2>2. ASSUME NEW x \in alive PROVE count'[x] = Cardinality(Owners(x)') + Cardinality(Releasing(x)')
    <3>1. /\ x \in Objects /\ IsFiniteSet(Releasing(x)) /\ Cardinality(Owners(x)) \in Nat
          /\ Cardinality(Releasing(x)) \in Nat
          /\ count[x] = Cardinality(Owners(x)) + Cardinality(Releasing(x))
      BY CountFacts
    <3>2. CASE x = o
      <4>1. Cardinality(Releasing(x) \ {t}) = Cardinality(Releasing(x)) - 1
        <5>1. t \in Releasing(x)
          BY <1>3, <3>2
        <5> QED
          BY <3>1, <5>1, FS_RemoveElement
      <4>2. Cardinality(Releasing(x)') = Cardinality(Releasing(x)) - 1
        BY <2>1, <3>2, <4>1
      <4>3. count'[x] = count[x] - 1
        BY <1>6, <3>2
      <4> QED
        BY <1>11, <3>1, <4>2, <4>3
    <3>3. CASE x # o
      BY <1>6, <1>11, <2>1, <3>1, <3>3
    <3> QED
      BY <3>2, <3>3
  <2> QED
    BY <1>5, <2>2 DEF PointersCounted
<1>15. BornOrDying'
  <2>1. \A x : t \in Destroyers(x) => t \in Destroyers(x)'
    BY <1>5 DEF Destroyers
  <2>2. \A x \in alive' : count'[x] = 0 => /\ x \in alive /\ count[x] = 0
                                          /\ ~(call[t].op = "make" /\ call[t].raw = x)
    <3>1. \A x \in alive : x \in Objects
      BY DEF PointersInv, PointersFit
    <3>2. count'[o] # 0
      BY <1>4, <1>6
    <3> QED
      BY <1>1, <1>5, <1>6, <3>1, <3>2
  <2> QED
    BY <1>9, <2>1, <2>2, BornAfter
<1> QED
  BY <1>8, <1>9, <1>10, <1>12, <1>13, <1>14, <1>15, Assembled

LEMMA MakeStep ==
  ASSUME ConstantsFit, PointersInv, NEW t \in Users[library], Make(t)
  PROVE  PointersInv'
<1>t. t \in Threads
  BY SlotFacts DEF PointersInv, PointersFit
<1>a. PICK route, o : /\ route \in Changeable(t) /\ o \in Objects \ made /\ ptr[route.to] = NULL
                      /\ Begin(t, "make", route, route, o)
                      /\ ptr' = [ptr EXCEPT ![route.to] = o]
                      /\ count' = [count EXCEPT ![o] = IF library = "scaleform" THEN 1 ELSE 0]
                      /\ alive' = alive \cup {o}
                      /\ made' = made \cup {o}
  BY DEF Make
<1>b. PICK s, L : s = route.to /\ L = route.by
  OBVIOUS
<1>1. /\ o \in Objects \ made /\ ptr[s] = NULL /\ ptr' = [ptr EXCEPT ![s] = o]
      /\ count' = [count EXCEPT ![o] = IF library = "scaleform" THEN 1 ELSE 0]
      /\ alive' = alive \cup {o} /\ made' = made \cup {o}
  BY <1>a, <1>b
<1>2. PICK new, C : /\ new = [op |-> "make", lhs |-> s, rhs |-> s, toLhs |-> L, toRhs |-> L, raw |-> o]
                    /\ C = {s}
  OBVIOUS
<1>3. /\ at[t] = "idle" /\ call' = [call EXCEPT ![t] = new] /\ at' = [at EXCEPT ![t] = "attach"]
      /\ library' = library /\ dying' = dying /\ sum' = sum /\ undefined' = undefined
  BY <1>a, <1>b, <1>2 DEF Begin
<1>4. /\ call'[t].op = "make" /\ call'[t].lhs = s /\ call'[t].rhs = s
      /\ call'[t].toLhs = L /\ call'[t].toRhs = L /\ call'[t].raw = o /\ at'[t] = "attach"
      /\ call[t].op = "none" /\ call[t].lhs = NULL /\ call[t].rhs = NULL
      /\ dying'[t] = <<>> /\ dying[t] = <<>>
      /\ \A u \in Threads \ {t} : call'[u] = call[u] /\ at'[u] = at[u]
  <2>1. call'[t] = new /\ at'[t] = "attach" /\ \A u \in Threads \ {t} : call'[u] = call[u] /\ at'[u] = at[u]
    BY <1>t, <1>3 DEF PointersInv, PointersFit
  <2>2. call[t] = NoCall /\ dying[t] = <<>>
    BY <1>t, <1>3, CallTypes
  <2>3. call[t].op = "none" /\ call[t].lhs = NULL /\ call[t].rhs = NULL
    BY <2>2, NoCallFields
  <2>4. /\ call'[t].op = "make" /\ call'[t].lhs = s /\ call'[t].rhs = s
        /\ call'[t].toLhs = L /\ call'[t].toRhs = L /\ call'[t].raw = o
    BY <1>2, <2>1
  <2> QED
    BY <1>3, <2>1, <2>2, <2>3, <2>4
<1>5. /\ s \in Slots /\ s \in Mine(t) /\ Apart(t, s) /\ Settled(s) /\ s # NULL
      /\ s \notin L /\ L \subseteq Slots /\ L \subseteq Mine(t)
      /\ \A u \in Threads \ {t} : s \notin Named(u) /\ s \notin Changed(u) /\ L \cap Changed(u) = {}
      /\ \A x \in Objects : Member(x) \in {s} \cup L =>
            Destroyers(x) = {} /\ \E p \in L : p \in Owners(x)
  <2>1. /\ route \in Usable(t) /\ Apart(t, route.to)
        /\ \A u \in Threads \ {t} : route.to \notin Named(u)
    BY <1>t, <1>a, <1>3, ChangeableFacts
  <2> QED
    BY <1>t, <1>b, <1>3, <2>1, RouteFacts
<1>6. /\ o \in Objects /\ o \notin made /\ o \notin alive /\ o # NULL
      /\ \A p \in Slots : ptr[p] # o
      /\ \A u \in Threads : call[u].raw # o
      /\ Destroyers(o) = {}
  <2>1. o # NULL /\ o \notin alive
    BY <1>1 DEF PointersInv, PointersFit, ConstantsFit
  <2>2. (\A p \in Slots : ptr[p] # o) /\ \A u \in Threads : call[u].raw # o
    BY <1>1, <2>1 DEF PointersInv, PointersFit
  <2>3. Destroyers(o) = {}
    BY <2>1 DEF PointersInv, DyingFits, Destroyers
  <2> QED
    BY <1>1, <2>1, <2>2, <2>3
<1>7. /\ ptr' \in [Slots -> Objects \cup {NULL}] /\ ptr'[s] = o
      /\ \A p \in Slots : p # s => ptr'[p] = ptr[p]
      /\ count' \in [Objects -> Nat] /\ count'[o] = IF library = "scaleform" THEN 1 ELSE 0
      /\ \A x \in Objects : x # o => count'[x] = count[x]
  <2>1. ptr \in [Slots -> Objects \cup {NULL}] /\ count \in [Objects -> Nat]
    BY DEF PointersInv, PointersFit
  <2>2. ptr' = [ptr EXCEPT ![s] = o] /\ count' = [count EXCEPT ![o] = IF library = "scaleform" THEN 1 ELSE 0]
    BY <1>1
  <2> QED
    BY <1>5, <1>6, <2>1, <2>2
<1>8. Flux(t)' = {s} /\ Flux(t) = {}
  BY <1>t, <1>3, <1>4, <1>5, FluxThen, IdleSettled
<1>9. Only(t, C)
  <2>1. \A p \in Slots \ C : ptr'[p] = ptr[p] /\ (p \in Flux(t)' <=> p \in Flux(t))
    BY <1>2, <1>7, <1>8
  <2> QED
    BY <1>2, <1>3, <1>4, <1>5, <1>7, <2>1 DEF Only
<1>10. /\ Named(t)' = {s} \cup L /\ Operands(t)' = {s} /\ Changed(t)' = {s}
  BY <1>4 DEF Named, Operands, Changed
<1>11. Gentle(t, C)
  <2>1. Reached(t, o)
    BY <1>6 DEF Reached
  <2>2. \A x \in alive : Destroyers(x) # {} => count'[x] = count[x]
    BY <1>6, <1>7 DEF PointersInv, PointersFit
  <2>3. DOMAIN dying'[t] = {}
    BY <1>4, EmptyStack
  <2>4. \A p \in C : Reached(t, ptr'[p])
    BY <1>2, <1>7, <2>1
  <2>5. \A x \in alive : x \in alive'
    BY <1>1
  <2>6. call'[t].raw = o
    BY <1>4
  <2>7. \A u \in Threads \ {t} : /\ Changed(t)' \cap Named(u) \subseteq {NULL}
                                  /\ Changed(u) \cap Named(t)' \subseteq {NULL}
    BY <1>5, <1>10
  <2>8. \A x \in Objects : Member(x) \in Operands(t)' => Destroyers(x) = {}
    BY <1>5, <1>10
  <2> QED
    BY <2>1, <2>2, <2>3, <2>4, <2>5, <2>6, <2>7, <2>8 DEF Gentle
<1>12. \A x \in Objects : Owners(x)' = Owners(x) /\ s \notin Owners(x)
  <2>1. ASSUME NEW x \in Objects PROVE Owners(x)' = Owners(x) /\ s \notin Owners(x)
    <3>1. Owners(x)' = (Owners(x) \ C) \cup {p \in C : ptr'[p] = x /\ p \notin Flux(t)'}
      BY <1>t, <1>9, OwnersAfter
    <3>2. s \notin Owners(x)
      BY <1>1 DEF Owners, ConstantsFit
    <3>3. {p \in C : ptr'[p] = x /\ p \notin Flux(t)'} = {}
      BY <1>2, <1>8
    <3> QED
      BY <1>2, <3>1, <3>2, <3>3
  <2> QED
    BY <2>1
<1>13. Owners(o) = {} /\ Releasing(o)' = IF library = "scaleform" THEN {t} ELSE {}
  <2>1. Owners(o) = {}
    BY <1>6 DEF Owners
  <2>2. \A u \in Threads : u \in Releasing(o)' <=> library = "scaleform" /\ u = t
    BY <1>3, <1>4, <1>6 DEF Releasing
  <2>3. Releasing(o)' \subseteq Threads
    BY DEF Releasing
  <2> QED
    BY <1>t, <2>1, <2>2, <2>3
<1>14. PointersFit'
  <2>1. new \in Calls
    BY <1>1, <1>2, <1>5 DEF Calls
  <2>2. \A p \in Slots : ptr'[p] \in made' \cup {NULL}
    BY <1>1, <1>7 DEF PointersInv, PointersFit
  <2>3. \A u \in Threads : call'[u].raw \in made' \cup {NULL}
    BY <1>1, <1>4 DEF PointersInv, PointersFit
  <2>4. alive' \subseteq made' /\ made' \subseteq Objects
    BY <1>1 DEF PointersInv, PointersFit
  <2>5. call' \in [Threads -> Calls] /\ at' \in [Threads -> Places]
    BY <1>3, <2>1 DEF PointersInv, PointersFit, Places
  <2> QED
    BY <1>3, <1>7, <2>2, <2>3, <2>4, <2>5 DEF PointersInv, PointersFit
<1>15. OwnFits(t)'
  <2>1. CallFits(t)'
    <3>1. "attach" \in PlacesOf("make")
      BY DEF PlacesOf
    <3>2. Named(t)' \subseteq Mine(t)'
      BY <1>5, <1>10 DEF Mine
    <3> QED
      BY <1>3, <1>4, <1>5, <3>1, <3>2 DEF CallFits
  <2>2. DyingFits(t)'
    BY <1>t, <1>4, NoneDying
  <2>3. ASSUME NEW x \in Objects, Member(x) \in {s} \cup L
        PROVE  \E p \in Owners(x)' : p \in L
    BY <1>5, <1>12, <2>3
  <2>4. LhsHeld(t)' /\ RhsHeld(t)'
    BY <1>4, <2>3 DEF LhsHeld, RhsHeld
  <2>5. ValueHeld(t)' /\ SumFits(t)'
    BY <1>4 DEF ValueHeld, SumFits
  <2>6. NewFits(t)'
    <3>1. Destroyers(o)' = {}
      BY <1>3, <1>6 DEF Destroyers
    <3>2. o \in alive' /\ ptr'[s] = o
      BY <1>1, <1>7
    <3>3. \A p \in Slots : ptr'[p] = o => p = s
      BY <1>6, <1>7
    <3>4. \A u \in Threads \ {t} : call'[u].raw # o
      BY <1>4, <1>6
    <3> QED
      BY <1>4, <3>1, <3>2, <3>3, <3>4 DEF NewFits, Destroyers
  <2> QED
    BY <2>1, <2>2, <2>4, <2>5, <2>6 DEF OwnFits
<1>16. PointersAlive'
  BY <1>2, <1>8, <1>9, <1>11, AliveAfter
<1>17. PointersCounted'
  <2>1. ASSUME NEW x \in alive PROVE count'[x] = Cardinality(Owners(x)') + Cardinality(Releasing(x)')
    <3>1. x \in Objects /\ count[x] = Cardinality(Owners(x)) + Cardinality(Releasing(x)) /\ x # o
      BY <1>6, CountFacts
    <3>2. call'[t].op = "make" /\ call'[t].raw = x <=> call[t].op = "make" /\ call[t].raw = x
      BY <1>4, <3>1
    <3>3. Releasing(x)' = Releasing(x)
      BY <1>t, <1>9, <3>2, ReleasingSame
    <3> QED
      BY <1>7, <1>12, <3>1, <3>3
  <2>2. count'[o] = Cardinality(Owners(o)') + Cardinality(Releasing(o)')
    <3>1. Owners(o)' = {}
      BY <1>6, <1>12, <1>13
    <3>2. Cardinality(Owners(o)') = 0
      BY <3>1, FS_EmptySet
    <3>3. Cardinality(Releasing(o)') = IF library = "scaleform" THEN 1 ELSE 0
      <4>1. PICK R : R = Releasing(o)'
        OBVIOUS
      <4>2. R = IF library = "scaleform" THEN {t} ELSE {}
        BY <1>13, <4>1
      <4>3. Cardinality({t}) = 1 /\ Cardinality({}) = 0
        BY FS_Singleton, FS_EmptySet
      <4>4. Cardinality(R) = IF library = "scaleform" THEN 1 ELSE 0
        BY <4>2, <4>3
      <4> QED
        BY <4>1, <4>4
    <3> QED
      BY <1>7, <3>2, <3>3
  <2>3. \A x \in alive' : x \in alive \/ x = o
    BY <1>1
  <2>4. ASSUME NEW x \in alive' PROVE count'[x] = Cardinality(Owners(x)') + Cardinality(Releasing(x)')
    BY <2>1, <2>2, <2>3
  <2> QED
    BY <2>4 DEF PointersCounted
<1>18. BornOrDying'
  <2>1. \A x : t \in Destroyers(x) => t \in Destroyers(x)'
    BY <1>3 DEF Destroyers
  <2>2. \A x \in alive' : count'[x] = 0 => \/ x \in alive /\ count[x] = 0
                                           \/ call'[t].op = "make" /\ call'[t].raw = x
    <3>1. \A x \in alive : x \in Objects /\ x # o
      BY <1>6 DEF PointersInv, PointersFit
    <3> QED
      BY <1>1, <1>4, <1>7, <3>1
  <2>3. call[t].op # "make"
    BY <1>4
  <2> QED
    BY <1>9, <2>1, <2>2, <2>3, BornAfter
<1> QED
  BY <1>9, <1>11, <1>14, <1>15, <1>16, <1>17, <1>18, Assembled

-----------------------------------------------------------------------------
(***************************************************************************)
(* The invariant.                                                          *)
(***************************************************************************)
LEMMA PointersInvInit ==
  ASSUME ConstantsFit, PointersInit
  PROVE  PointersInv
<1>1. /\ library \in Libraries /\ Users[library] \subseteq Threads /\ Users[library] # {}
      /\ IsFiniteSet(Users[library]) /\ Root \in Objects /\ NULL \notin Objects
  <2>1. library \in Libraries /\ Root \in Objects /\ NULL \notin Objects /\ Users[library] # {}
        /\ IsFiniteSet(Threads)
    BY DEF PointersInit, ConstantsFit
  <2>2. Users[library] \subseteq Threads
    BY <2>1, SlotFacts
  <2> QED
    BY <2>1, <2>2, FS_Subset
<1>2. \A t \in Threads : FirstOf(t) \in LocalsOf[t] /\ FirstOf(t) \in Slots
  <2>1. \A t \in Threads : LocalsOf[t] # {}
    BY DEF ConstantsFit
  <2> QED
    BY <2>1, SlotFacts DEF FirstOf
<1>3. \A s \in Slots : ptr[s] = IF \E t \in Users[library] : s = FirstOf(t) THEN Root ELSE NULL
  BY DEF PointersInit
<1>4. /\ count = [o \in Objects |-> IF o = Root THEN Cardinality(Users[library]) ELSE 0]
      /\ alive = {Root} /\ made = {Root} /\ undefined = FALSE
  BY DEF PointersInit
<1>5. \A t \in Threads : /\ call[t] = NoCall /\ at[t] = "idle" /\ dying[t] = <<>> /\ sum[t] = 0
                         /\ DOMAIN dying[t] = {}
  <2>1. \A t \in Threads : call[t] = NoCall /\ at[t] = "idle" /\ dying[t] = <<>> /\ sum[t] = 0
    BY DEF PointersInit
  <2> QED
    BY <2>1, EmptyStack
<1>6. \A t \in Threads : /\ call[t].op = "none" /\ call[t].lhs = NULL /\ call[t].rhs = NULL
                         /\ call[t].toLhs = {} /\ call[t].toRhs = {} /\ call[t].raw = NULL
  BY <1>5, NoCallFields
<1>7. \A t \in Threads : Flux(t) = {}
  <2>1. ASSUME NEW t \in Threads PROVE Flux(t) = {}
    <3>1. PICK a, st, c : a = at[t] /\ st = dying[t] /\ c = call[t]
      OBVIOUS
    <3>2. FluxOf(a, st, c) = {}
      <4>1. a = "idle" /\ st = <<>>
        BY <1>5, <3>1
      <4> QED
        BY <4>1, FluxOfEmpty
    <3> QED
      BY <3>1, <3>2, FluxValue
  <2> QED
    BY <2>1
<1>8. \A s \in Slots : Settled(s)
  BY <1>7 DEF Settled, Flux
<1>9. Cardinality(Users[library]) \in Nat \ {0}
  BY <1>1, FS_CardinalityType, FS_EmptySet
<1>10. PointersFit
  <2>1. ptr \in [Slots -> Objects \cup {NULL}]
    <3>1. ptr = [s \in Slots |-> IF \E t \in Users[library] : s = FirstOf(t) THEN Root ELSE NULL]
      BY DEF PointersInit
    <3> QED
      BY <1>1, <3>1
  <2>2. count \in [Objects -> Nat]
    BY <1>4, <1>9
  <2>3. call \in [Threads -> Calls]
    <3>1. call = [t \in Threads |-> NoCall]
      BY DEF PointersInit
    <3> QED
      BY <3>1, NoCallFields
  <2>4. at \in [Threads -> Places] /\ sum \in [Threads -> Nat]
    BY DEF PointersInit, Places
  <2>5. dying \in [Threads -> Seq(Objects)]
    <3>1. <<>> \in Seq(Objects)
      BY EmptySeq
    <3> QED
      BY <3>1 DEF PointersInit
  <2>6. \A s \in Slots : ptr[s] \in made \cup {NULL}
    BY <1>3, <1>4
  <2>7. \A t \in Threads : call[t].raw \in made \cup {NULL}
    BY <1>6
  <2> QED
    BY <1>1, <1>4, <2>1, <2>2, <2>3, <2>4, <2>5, <2>6, <2>7 DEF PointersFit
<1>11. \A t \in Threads : CallFits(t)
  <2>1. "idle" \in PlacesOf("none")
    BY DEF PlacesOf
  <2> QED
    BY <1>5, <1>6, <2>1 DEF CallFits
<1>12. NoneShared
  BY <1>6 DEF NoneShared, Named, Operands, Changed
<1>13. \A t \in Threads : DyingFits(t)
  BY <1>5 DEF DyingFits
<1>14. PointersAlive
  BY <1>3, <1>4 DEF PointersAlive
<1>15. PointersCounted
  <2>1. Owners(Root) = {s \in Slots : \E t \in Users[library] : s = FirstOf(t)}
    <3>1. Root # NULL
      BY <1>1
    <3> QED
      BY <1>3, <1>8, <3>1 DEF Owners
  <2>2. Cardinality(Owners(Root)) = Cardinality(Users[library])
    <3>1. PICK f : f = [t \in Users[library] |-> FirstOf(t)]
      OBVIOUS
    <3>2. f \in Bijection(Users[library], Owners(Root))
      <4>1. f \in [Users[library] -> Owners(Root)]
        BY <1>1, <1>2, <2>1, <3>1
      <4>2. \A s \in Owners(Root) : \E t \in Users[library] : f[t] = s
        BY <2>1, <3>1
      <4>3. \A t, u \in Users[library] : f[t] = f[u] => t = u
        BY <1>1, <1>2, <3>1, SlotFacts
      <4> QED
        BY <4>1, <4>2, <4>3 DEF Bijection, Injection, Surjection, IsInjective
    <3>3. ExistsBijection(Users[library], Owners(Root))
      BY <3>2 DEF ExistsBijection
    <3> QED
      BY <1>1, <3>3, FS_Bijection
  <2>3. Releasing(Root) = {}
    BY <1>6 DEF Releasing
  <2>4. Cardinality(Releasing(Root)) = 0
    BY <2>3, FS_EmptySet
  <2>5. count[Root] = Cardinality(Owners(Root)) + Cardinality(Releasing(Root))
    BY <1>1, <1>4, <1>9, <2>2, <2>4
  <2> QED
    BY <1>4, <2>5 DEF PointersCounted
<1>16. BornOrDying
  BY <1>1, <1>4, <1>9 DEF BornOrDying
<1>17. \A t \in Threads : LhsHeld(t) /\ RhsHeld(t) /\ ValueHeld(t) /\ NewFits(t) /\ SumFits(t)
  <2>1. \A o \in Objects : NULL # Member(o)
    BY SlotFacts
  <2> QED
    BY <1>5, <1>6, <2>1 DEF LhsHeld, RhsHeld, ValueHeld, NewFits, SumFits
<1> QED
  BY <1>10, <1>11, <1>12, <1>13, <1>14, <1>15, <1>16, <1>17 DEF PointersInv

\* Nothing but the flag changes.
LEMMA PointersInvSame ==
  ASSUME PointersInv, undefined' \in BOOLEAN,
         UNCHANGED <<library, ptr, count, alive, made, call, at, dying, sum>>
  PROVE  PointersInv'
<1>1. PointersFit'
  BY DEF PointersInv, PointersFit
<1>2. \A t \in Threads : CallFits(t)' /\ DyingFits(t)'
  <2>1. \A t \in Threads : CallFits(t)'
    BY SameCall DEF PointersInv, CallFits
  <2>2. \A t \in Threads : Operands(t)' = Operands(t) /\ DyingFits(t)
    BY SameCall DEF PointersInv
  <2>3. \A t \in Threads : DyingFits(t)'
    BY <2>2 DEF DyingFits
  <2> QED
    BY <2>1, <2>3
<1>3. NoneShared'
  BY SameCall DEF PointersInv, NoneShared
<1>4. \A s : Settled(s)' <=> Settled(s)
  BY DEF Settled, Dropped, Raised
<1>5. \A o : Owners(o)' = Owners(o) /\ Releasing(o)' = Releasing(o) /\ Destroyers(o)' = Destroyers(o)
  BY <1>4 DEF Owners, Releasing, Destroyers
<1>6. PointersAlive'
  BY <1>4 DEF PointersInv, PointersAlive
<1>7. PointersCounted'
  BY <1>5 DEF PointersInv, PointersCounted
<1>8. BornOrDying'
  BY <1>5 DEF PointersInv, BornOrDying
<1>9. \A t \in Threads : ThroughSelf(t)' <=> ThroughSelf(t)
  BY DEF ThroughSelf
<1>10. ASSUME NEW t \in Threads
       PROVE  LhsHeld(t)' /\ RhsHeld(t)' /\ ValueHeld(t)' /\ NewFits(t)' /\ SumFits(t)'
  <2>1. LhsHeld(t) /\ RhsHeld(t) /\ ValueHeld(t) /\ NewFits(t) /\ SumFits(t)
    BY DEF PointersInv
  <2>2. LhsHeld(t)' /\ RhsHeld(t)'
    BY <1>5, <1>9, <2>1 DEF LhsHeld, RhsHeld
  <2>3. ValueHeld(t)'
    BY <1>9, <2>1 DEF ValueHeld, Settled, Dropped, Raised
  <2>4. NewFits(t)' /\ SumFits(t)'
    BY <2>1 DEF NewFits, SumFits, Destroyers
  <2> QED
    BY <2>2, <2>3, <2>4
<1> QED
  BY <1>1, <1>2, <1>3, <1>6, <1>7, <1>8, <1>10 DEF PointersInv

LEMMA DetachStep ==
  ASSUME ConstantsFit, PointersInv, NEW t \in Users[library], Detach(t)
  PROVE  PointersInv'
<1>1. at[t] = "detach" /\ ~Bad(t) /\ Slot(t) \in Slots
  <2>1. at[t] = "detach" /\ ~Bad(t)
    BY DEF Detach, Doing
  <2> QED
    BY <2>1, SlotIs
<1>2. CASE /\ ptr[Slot(t)] = NULL /\ Go(t, Emptied(t))
           /\ UNCHANGED <<ptr, count, alive, dying, sum>>
  <2>1. PICK s : s = Slot(t)
    OBVIOUS
  <2>2. ptr' = [ptr EXCEPT ![s] = NULL]
    BY <1>1, <1>2, <2>1 DEF PointersInv, PointersFit
  <2> QED
    BY <1>1, <1>2, <2>1, <2>2, EmptyStep
<1>3. CASE ptr[Slot(t)] # NULL /\ Drop(t, ptr[Slot(t)], "null")
  BY <1>1, <1>3, DropStep
<1> QED
  BY <1>2, <1>3 DEF Detach

LEMMA AttachStep ==
  ASSUME ConstantsFit, PointersInv, NEW t \in Users[library], Attach(t)
  PROVE  PointersInv'
<1>1. PICK o : o = ptr[call[t].lhs]
  OBVIOUS
<1>2. /\ at[t] = "attach" /\ ~Bad(t) /\ UNCHANGED <<ptr, alive, dying>>
      /\ \/ o = NULL /\ Go(t, Attached(t)) /\ UNCHANGED <<count, sum>>
         \/ /\ o # NULL /\ library = "bethesda"
            /\ count' = [count EXCEPT ![o] = @ + 1]
            /\ Go(t, Attached(t))
            /\ UNCHANGED sum
         \/ /\ o # NULL /\ library = "scaleform"
            /\ sum' = [sum EXCEPT ![t] = count[o] + 1]
            /\ Go(t, "write")
            /\ UNCHANGED count
  BY <1>1 DEF Attach, Doing
<1>3. CASE o = NULL /\ Go(t, Attached(t)) /\ UNCHANGED <<count, sum>>
  BY <1>1, <1>2, <1>3, NothingAttached
<1>4. CASE /\ o # NULL /\ library = "bethesda"
           /\ count' = [count EXCEPT ![o] = @ + 1]
           /\ Go(t, Attached(t))
           /\ UNCHANGED sum
  <2>1. sum' \in [Threads -> Nat] /\ \A u \in Threads \ {t} : sum'[u] = sum[u]
    BY <1>4 DEF PointersInv, PointersFit
  <2> QED
    BY <1>1, <1>2, <1>4, <2>1, AttachedStep
<1>5. CASE /\ o # NULL /\ library = "scaleform"
           /\ sum' = [sum EXCEPT ![t] = count[o] + 1]
           /\ Go(t, "write")
           /\ UNCHANGED count
  BY <1>1, <1>2, <1>5, SumStep
<1> QED
  BY <1>2, <1>3, <1>4, <1>5

LEMMA WriteBackStep ==
  ASSUME ConstantsFit, PointersInv, NEW t \in Users[library], WriteBack(t)
  PROVE  PointersInv'
<1>1. /\ at[t] = "write" /\ ~Bad(t) /\ Go(t, Attached(t)) /\ UNCHANGED <<ptr, alive, dying>>
      /\ sum' = [sum EXCEPT ![t] = 0]
      /\ count' = [count EXCEPT ![ptr[call[t].lhs]] = sum[t]]
  BY DEF WriteBack, Doing
<1>2. ptr[call[t].lhs] # NULL /\ sum[t] = count[ptr[call[t].lhs]] + 1 /\ t \in Threads
  BY <1>1, AccessFacts DEF SumFits
<1>3. count' = [count EXCEPT ![ptr[call[t].lhs]] = @ + 1]
  BY <1>1, <1>2
<1>4. sum' \in [Threads -> Nat] /\ \A u \in Threads \ {t} : sum'[u] = sum[u]
  BY <1>1, <1>2 DEF PointersInv, PointersFit
<1> QED
  BY <1>1, <1>2, <1>3, <1>4, AttachedStep

LEMMA LoadStep ==
  ASSUME ConstantsFit, PointersInv, NEW t \in Users[library], Load(t)
  PROVE  PointersInv'
<1>1. PICK v : v = ptr[call[t].rhs]
  OBVIOUS
<1>2. /\ at[t] = "load" /\ ~Bad(t) /\ SetPtr(call[t].lhs, v)
      /\ Go(t, IF call[t].op = "move" THEN "clear" ELSE "attach")
  BY <1>1 DEF Load, Doing
<1>3. call[t].op \in {"copy", "move"}
  BY <1>2, Later
<1>4. CASE call[t].op = "move"
  <2>1. MoveStarts(t) /\ Go(t, "clear")
    BY <1>2, <1>4 DEF MoveStarts
  <2> QED
    BY <1>1, <1>2, <2>1, MoveStep
<1>5. CASE call[t].op = "copy"
  <2>1. Takes(t, v) /\ Go(t, "attach")
    BY <1>1, <1>2, <1>5 DEF Takes
  <2> QED
    BY <1>2, <2>1, TakeStep
<1> QED
  BY <1>3, <1>4, <1>5

LEMMA StoreStep ==
  ASSUME ConstantsFit, PointersInv, NEW t \in Users[library], Store(t)
  PROVE  PointersInv'
<1>1. PICK v : v = call[t].raw
  OBVIOUS
<1>2. at[t] = "store" /\ ~Bad(t) /\ SetPtr(call[t].lhs, v) /\ Go(t, "attach")
  BY <1>1 DEF Store, Doing
<1>3. Takes(t, v)
  BY <1>1, <1>2, Later DEF Takes
<1> QED
  BY <1>2, <1>3, TakeStep

LEMMA PointersInvNext ==
  ASSUME ConstantsFit, PointersInv, [PointersNext]_ptrVars
  PROVE  PointersInv'
<1>1. CASE UNCHANGED ptrVars
  <2>1. undefined' \in BOOLEAN /\ UNCHANGED <<library, ptr, count, alive, made, call, at, dying, sum>>
    BY <1>1 DEF ptrVars, PointersInv, PointersFit
  <2> QED
    BY <2>1, PointersInvSame
<1>2. ASSUME NEW t \in Users[library], Copy(t) \/ Move(t) \/ ResetTo(t) \/ Reset(t) PROVE PointersInv'
  BY <1>2, AssignStep
<1>3. ASSUME NEW t \in Users[library], Make(t) PROVE PointersInv'
  BY <1>3, MakeStep
<1>4. ASSUME NEW t \in Users[library], Detach(t) PROVE PointersInv'
  BY <1>4, DetachStep
<1>5. ASSUME NEW t \in Users[library], Null(t) PROVE PointersInv'
  <2>1. at[t] = "null" /\ ~Bad(t) /\ Go(t, Emptied(t)) /\ SetPtr(Slot(t), NULL)
    BY <1>5 DEF Null, Doing
  <2> QED
    BY <2>1, EmptyStep DEF SetPtr
<1>6. ASSUME NEW t \in Users[library], Free(t) PROVE PointersInv'
  BY <1>6, FreeStep
<1>7. ASSUME NEW t \in Users[library], Load(t) \/ Store(t) PROVE PointersInv'
  BY <1>7, LoadStep, StoreStep
<1>8. ASSUME NEW t \in Users[library], Clear(t) PROVE PointersInv'
  BY <1>8, ClearStep DEF Clear, Doing
<1>9. ASSUME NEW t \in Users[library], Attach(t) \/ WriteBack(t) PROVE PointersInv'
  BY <1>9, AttachStep, WriteBackStep
<1>10. ASSUME NEW t \in Users[library], Release(t) PROVE PointersInv'
  BY <1>10, ReleaseStep
<1>11. ASSUME NEW t \in Users[library], Stale(t) PROVE PointersInv'
  BY <1>11, PointersInvSame DEF Stale
<1> QED
  BY <1>1, <1>2, <1>3, <1>4, <1>5, <1>6, <1>7, <1>8, <1>9, <1>10, <1>11 DEF PointersNext

-----------------------------------------------------------------------------
(***************************************************************************)
(* What the invariant shows.                                               *)
(***************************************************************************)
\* What is attached exists, but for an assignment through itself.
LEMMA ValueExists ==
  ASSUME ConstantsFit, PointersInv, NEW t \in Threads, at[t] \in {"attach", "write"}, ~ThroughSelf(t),
         NEW o \in Objects, o = ptr[call[t].lhs]
  PROVE  o \in alive /\ Destroyers(o) = {}
<1>1. t \in Users[library] /\ call[t].rhs \in Slots
  BY CallTypes
<1>2. call[t].op \in {"make", "copy", "reset to"}
  BY <1>1, Later
<1>3. o # NULL
  BY DEF ConstantsFit
<1>4. NewFits(t) /\ ValueHeld(t)
  BY DEF PointersInv
<1>5. CASE call[t].op = "make"
  BY <1>4, <1>5 DEF NewFits, Destroyers
<1>6. CASE call[t].op \in {"copy", "reset to"}
  <2>1. PICK r : r = call[t].rhs
    OBVIOUS
  <2>2. Settled(r) /\ ptr[r] = o /\ r \in Slots
    BY <1>1, <1>4, <1>6, <2>1 DEF ValueHeld
  <2> QED
    BY <1>3, <2>2, SettledKeeps
<1> QED
  BY <1>2, <1>5, <1>6

LEMMA PointersInvTyped ==
  ASSUME PointersInv
  PROVE  PointersTyped /\ PointersCounted
BY DEF PointersInv, PointersFit, PointersTyped

LEMMA PointersInvLives ==
  ASSUME PointersInv
  PROVE  LifetimeEndsWithPointers
<1>1. ASSUME NEW o \in Objects PROVE Cardinality(Destroyers(o)) <= 1
  <2>1. Destroyers(o) \subseteq Threads
    BY DEF Destroyers
  <2>2. \A t, u \in Destroyers(o) : t = u
    BY DEF Destroyers, PointersInv, DyingFits
  <2>3. CASE Destroyers(o) = {}
    <3>1. Cardinality(Destroyers(o)) = 0
      BY <2>3, FS_EmptySet
    <3> QED
      BY <3>1
  <2>4. CASE Destroyers(o) # {}
    <3>1. PICK t : Destroyers(o) = {t}
      BY <2>2, <2>4
    <3>2. Cardinality(Destroyers(o)) = 1
      BY <3>1, FS_Singleton
    <3> QED
      BY <3>2
  <2> QED
    BY <2>3, <2>4
<1> QED
  BY <1>1 DEF PointersInv, PointersAlive, BornOrDying, LifetimeEndsWithPointers

LEMMA PointersInvSelf ==
  ASSUME ConstantsFit, PointersInv
  PROVE  UndefinedOnlyThroughSelf
<1>1. ASSUME NEW t \in Threads, Bad(t), ~\E u \in Threads : ThroughSelf(u) PROVE FALSE
  <2>0. ~ThroughSelf(t)
    BY <1>1
  <2>1. ASSUME NEW o \in Touched(t), o \notin alive \/ Destroyers(o) # {} PROVE FALSE
    <3>0. o \in Objects
      BY DEF Touched
    <3>1. CASE Member(o) = call[t].lhs
      BY <1>1, <2>1, <3>0, <3>1, LhsNotDying
    <3>2. CASE Member(o) = call[t].rhs
      BY <1>1, <2>0, <2>1, <3>0, <3>2, RhsNotDying
    <3>3. CASE at[t] \in {"attach", "write"} /\ o = ptr[call[t].lhs]
      BY <1>1, <2>0, <2>1, <3>0, <3>3, ValueExists
    <3> QED
      BY <3>1, <3>2, <3>3 DEF Touched
  <2>2. ASSUME dying[t] # <<>>, NEW u \in Threads \ {t}, Member(Innermost(t)) \in Operands(u) PROVE FALSE
    <3>1. PICK d : d = dying[t][Len(dying[t])]
      OBVIOUS
    <3>2. Len(dying[t]) \in DOMAIN dying[t]
      <4>1. Len(dying[t]) \in Nat /\ Len(dying[t]) # 0 /\ DOMAIN dying[t] = 1..Len(dying[t])
        BY <1>1, <2>2, DyingTypes
      <4> QED
        BY <4>1
    <3>3. d \in Objects /\ t \in Destroyers(d)
      BY <1>1, <3>1, <3>2, DyingTypes DEF Destroyers
    <3>4. Member(d) = call[u].lhs \/ Member(d) = call[u].rhs
      BY <2>2, <3>1 DEF Operands, Innermost
    <3>5. CASE Member(d) = call[u].lhs
      BY <1>1, <3>3, <3>5, LhsNotDying
    <3>6. CASE Member(d) = call[u].rhs
      BY <1>1, <3>3, <3>6, RhsNotDying
    <3> QED
      BY <3>4, <3>5, <3>6
  <2> QED
    BY <1>1, <2>1, <2>2 DEF Bad
<1> QED
  BY <1>1 DEF UndefinedOnlyThroughSelf

THEOREM PointersHold ==
  ASSUME ConstantsFit
  PROVE  PointersSpec => []PointersInv
<1>1. PointersInit => PointersInv
  BY PointersInvInit
<1>2. PointersInv /\ [PointersNext]_ptrVars => PointersInv'
  BY PointersInvNext
<1> QED
  BY <1>1, <1>2, PTL DEF PointersSpec

\* The types hold, and the count of an object is the number of pointers to it,
\* no matter how the drops and raises of the threads interleave.
THEOREM PointersStayCounted ==
  ASSUME ConstantsFit
  PROVE  PointersSpec => [](PointersTyped /\ PointersCounted)
<1>1. PointersInv => PointersTyped /\ PointersCounted
  BY PointersInvTyped
<1> QED
  BY <1>1, PointersHold, PTL

\* No pointer is left to an object that is gone, one thread destroys it, and an
\* object without a count is being destroyed or about to get its first one.
THEOREM LifetimesEnd ==
  ASSUME ConstantsFit
  PROVE  PointersSpec => []LifetimeEndsWithPointers
<1>1. PointersInv => LifetimeEndsWithPointers
  BY PointersInvLives
<1> QED
  BY <1>1, PointersHold, PTL

\* An object that is gone is touched only while a pointer is assigned from one the
\* caller reached through it, over a chain of any length.
THEOREM UndefinedNeedsSelf ==
  ASSUME ConstantsFit
  PROVE  PointersSpec => []UndefinedOnlyThroughSelf
<1>1. PointersInv => UndefinedOnlyThroughSelf
  BY PointersInvSelf
<1> QED
  BY <1>1, PointersHold, PTL

-----------------------------------------------------------------------------

\* The instances have the library's notion of a cardinality.
LEMMA SameCardinality ==
  /\ \A S : Words!Cardinality(S) = Cardinality(S) /\ (Words!IsFiniteSet(S) <=> IsFiniteSet(S))
  /\ \A S : Values!Cardinality(S) = Cardinality(S) /\ (Values!IsFiniteSet(S) <=> IsFiniteSet(S))
BY DEF Words!Cardinality, Values!Cardinality, Cardinality,
       Words!IsFiniteSet, Values!IsFiniteSet, IsFiniteSet

LEMMA ReferencesAre ==
  ASSUME NEW o
  PROVE  /\ Words!References(o) = Cardinality(Words!Refs(o))
         /\ Words!References(o)' = Cardinality(Words!Refs(o)')
BY SameCardinality DEF Words!References

\* What the constants say of the kind at hand.
FieldsFit ==
    /\ IsFiniteSet(Threads) /\ NULL \notin Objects
    /\ CountMax[kind] \in Nat /\ MaxHeld \in Nat \ {0}
    /\ Cardinality(Threads) <= CountMax[kind]
    /\ kind \in Words!Kinds
    /\ Words!Uncounted(kind) \subseteq Objects /\ (Words!Uncounted(kind) # {} => kind = "havok")
    /\ kind = "stream" => Cardinality(Threads) * MaxHeld <= CountMax[kind]

LEMMA KindFits ==
  ASSUME Words!ConstantsFit, kind \in Words!Kinds
  PROVE  FieldsFit
BY SameCardinality DEF Words!ConstantsFit, FieldsFit, Words!Uncounted

\* The words a loop may have read, and the loops.
Rests == {"zero", "plain", "marked"}
WordSet(k) == [count : 0..CountMax[k], rest : Rests]
Loops(k) == [op : {"add", "remove", "open"}, on : Objects, read : WordSet(k) \cup {NULL}] \cup {Words!NoLoop}

WordsFit ==
    /\ kind \in Words!Kinds
    /\ word \in [Objects -> WordSet(kind)]
    /\ \A o \in Objects : word[o].rest = "zero" <=> o \in Words!Uncounted(kind)
    /\ living \subseteq Objects /\ Words!Uncounted(kind) \subseteq living
    /\ held \in [Threads -> [Objects -> 0..MaxHeld]]
    /\ loop \in [Threads -> Loops(kind)]
    /\ opened \in Objects \cup {NULL} /\ wild \in BOOLEAN

\* What a loop relies on: who adds or opens has a reference, who adds has room
\* for another; a word read to be swapped is one that counts.
LoopFits(t) ==
    /\ loop[t].op \in {"add", "open"} => held[t][loop[t].on] > 0
    /\ loop[t].op = "add" => held[t][loop[t].on] < MaxHeld
    /\ loop[t].op = "remove" => held[t][loop[t].on] < MaxHeld
    /\ loop[t].op = "open" => kind = "stream" /\ opened \in Objects
    /\ loop[t].op \in {"add", "remove"} /\ loop[t].read # NULL =>
           ~Words!LeftAlone(kind, loop[t].op, loop[t].read)

\* An object that counts has the count of its references until the count sticks;
\* one that is gone has none.
Counted(o) ==
    IF o \in living THEN o \in Words!Uncounted(kind) \/ Words!Stuck(o) \/ word[o].count = Words!References(o)
    ELSE Words!Refs(o) = {}

WordsInv ==
    /\ WordsFit
    /\ \A t \in Threads : LoopFits(t)
    /\ \A o \in Objects : Counted(o)

-----------------------------------------------------------------------------
(***************************************************************************)
(* The references to an object.                                            *)
(***************************************************************************)
LEMMA RefsFinite ==
  ASSUME FieldsFit, NEW o
  PROVE  IsFiniteSet(Words!Refs(o)) /\ Words!References(o) \in Nat
<1>1. IsFiniteSet(0..MaxHeld)
  BY FS_Interval DEF FieldsFit
<1>2. IsFiniteSet(Threads \X (0..MaxHeld))
  BY <1>1, FS_Product DEF FieldsFit
<1>3. IsFiniteSet(Words!Refs(o))
  BY <1>2, FS_Subset DEF Words!Refs
<1> QED
  BY <1>3, FS_CardinalityType, ReferencesAre

\* All a thread may have, and room for one more, fit into a stream's count.
LEMMA RoomInStream ==
  ASSUME FieldsFit, WordsInv, kind = "stream", NEW t \in Threads, loop[t].op = "add"
  PROVE  Words!References(loop[t].on) < CountMax[kind]
<1> DEFINE o == loop[t].on
           slots == Threads \X (1..MaxHeld)
           number == [r \in Words!Refs(o) |-> IF r[2] = 0 THEN <<r[1], MaxHeld>> ELSE r]
           used == slots \ {<<t, MaxHeld>>}
<1>0. o \in Objects
  BY DEF WordsInv, WordsFit, Loops, Words!NoLoop
<1>1. /\ MaxHeld \in Nat \ {0} /\ CountMax[kind] \in Nat /\ IsFiniteSet(Threads)
      /\ Cardinality(Threads) * MaxHeld <= CountMax[kind]
  BY DEF FieldsFit
<1>2. IsFiniteSet(slots) /\ Cardinality(slots) = Cardinality(Threads) * MaxHeld
  <2>1. IsFiniteSet(1..MaxHeld) /\ Cardinality(1..MaxHeld) = MaxHeld
    BY <1>1, FS_Interval
  <2> QED
    BY <1>1, <2>1, FS_Product
<1>3. <<t, MaxHeld>> \in slots
  BY <1>1
<1>4. IsFiniteSet(used) /\ Cardinality(used) = Cardinality(slots) - 1
  BY <1>2, <1>3, FS_RemoveElement
<1>5. ASSUME NEW r \in Words!Refs(o)
      PROVE  /\ number[r] \in used
             /\ r[1] \in Threads /\ r[2] \in 0..MaxHeld /\ r = <<r[1], r[2]>>
             /\ r[2] = 0 => held[r[1]][o] < MaxHeld
             /\ r[2] <= held[r[1]][o] \/ r[2] = 0
  <2>1. /\ r[1] \in Threads /\ r[2] \in 0..MaxHeld /\ r = <<r[1], r[2]>>
        /\ IF r[2] = 0 THEN r[1] \in Words!Leaving(o) ELSE r[2] <= held[r[1]][o]
    BY DEF Words!Refs
  <2>2. held[t][o] < MaxHeld /\ t \notin Words!Leaving(o) /\ held[t][o] \in 0..MaxHeld
    BY DEF WordsInv, LoopFits, Words!Leaving, WordsFit, Loops, Words!NoLoop
  <2>3. r[2] = 0 => held[r[1]][o] < MaxHeld /\ r[1] # t
    BY <2>1, <2>2 DEF WordsInv, LoopFits, Words!Leaving
  <2>4. number[r] \in used
    BY <1>1, <2>1, <2>2, <2>3
  <2> QED
    BY <2>1, <2>3, <2>4
<1>6. \A r, s \in Words!Refs(o) : number[r] = number[s] => r = s
  <2> SUFFICES ASSUME NEW r \in Words!Refs(o), NEW s \in Words!Refs(o), number[r] = number[s]
               PROVE  r = s
    OBVIOUS
  <2>1. ASSUME NEW v \in {r, s}
        PROVE  /\ v = <<v[1], v[2]>> /\ held[v[1]][o] \in Nat
               /\ number[v] = <<v[1], IF v[2] = 0 THEN MaxHeld ELSE v[2]>>
               /\ v[2] = MaxHeld => held[v[1]][o] = MaxHeld
    <3>1. v[1] \in Threads /\ v[2] \in 0..MaxHeld /\ v = <<v[1], v[2]>> /\ v \in Words!Refs(o)
      BY <1>5
    <3>2. held[v[1]][o] \in 0..MaxHeld
      BY <1>0, <3>1 DEF WordsInv, WordsFit
    <3>3. v[2] <= held[v[1]][o] \/ v[2] = 0
      BY <1>5
    <3>4. number[v] = <<v[1], IF v[2] = 0 THEN MaxHeld ELSE v[2]>>
      BY <3>1
    <3> HIDE DEF o, number
    <3> QED
      BY <1>1, <3>1, <3>2, <3>3, <3>4
  <2>2. r[2] = 0 => held[r[1]][o] < MaxHeld
    BY <1>5
  <2>3. s[2] = 0 => held[s[1]][o] < MaxHeld
    BY <1>5
  <2>4. r[2] \in Nat /\ s[2] \in Nat
    BY <1>1, <1>5
  <2> HIDE DEF o, number
  <2> QED
    BY <1>1, <2>1, <2>2, <2>3, <2>4
<1>7. Cardinality(Words!Refs(o)) <= Cardinality(used)
  <2>1. number \in Injection(Words!Refs(o), used)
    BY <1>5, <1>6 DEF Injection, IsInjective
  <2> QED
    BY <1>4, <2>1, FS_Injection
<1>8. Words!References(o) \in Nat /\ Cardinality(Threads) \in Nat /\ Cardinality(Threads) * MaxHeld \in Nat
  BY <1>1, RefsFinite, FS_CardinalityType
<1> QED
  BY <1>1, <1>2, <1>4, <1>7, <1>8, ReferencesAre

\* Who is dropping a reference has one; an object with a reference lives.
LEMMA LoopsAlive ==
  ASSUME FieldsFit, WordsInv, NEW t \in Threads, loop[t].on # NULL
  PROVE  /\ loop[t].on \in Objects /\ loop[t].op \in {"add", "remove", "open"}
         /\ loop[t].on \in living
<1>1. loop[t].on \in Objects /\ loop[t].op \in {"add", "remove", "open"}
  BY DEF WordsInv, WordsFit, Loops, Words!NoLoop
<1>2. CASE loop[t].op = "remove"
  <2>1. <<t, 0>> \in Words!Refs(loop[t].on)
    BY <1>2 DEF Words!Refs, Words!Leaving, FieldsFit
  <2> QED
    BY <1>1, <2>1 DEF WordsInv, Counted
<1>3. CASE loop[t].op \in {"add", "open"}
  <2>1. held[t][loop[t].on] > 0 /\ held[t][loop[t].on] \in 0..MaxHeld
    BY <1>1, <1>3 DEF WordsInv, LoopFits, WordsFit
  <2>2. <<t, held[t][loop[t].on]>> \in Words!Refs(loop[t].on)
    BY <2>1 DEF Words!Refs
  <2> QED
    BY <1>1, <2>2 DEF WordsInv, Counted
<1> QED
  BY <1>1, <1>2, <1>3

\* What Counted says is unchanged if the object's count, life and number of
\* references are.
LEMMA CountKept ==
  ASSUME FieldsFit, WordsInv, NEW o \in Objects, Counted(o),
         word'[o].count = word[o].count, o \in living' <=> o \in living,
         Words!References(o)' = Words!References(o), IsFiniteSet(Words!Refs(o)'), kind' = kind
  PROVE  Counted(o)'
<1>1. CASE o \in living
  BY <1>1 DEF Counted, Words!Stuck
<1>2. CASE o \notin living
  <2>1. Words!Refs(o) = {}
    BY <1>2 DEF Counted
  <2>2. Cardinality(Words!Refs(o)) = 0
    BY <2>1, FS_EmptySet
  <2>3. Cardinality(Words!Refs(o)') = 0
    BY <2>2, ReferencesAre
  <2>4. Words!Refs(o)' = {}
    BY <2>3, FS_EmptySet
  <2> QED
    BY <1>2, <2>4 DEF Counted
<1> QED
  BY <1>1, <1>2

\* A thread enters a loop.
LEMMA EnterStep ==
  ASSUME FieldsFit, WordsInv, NEW t \in Threads, NEW o \in Objects,
         Words!Add(t, o) \/ Words!Remove(t, o) \/ Words!Open(t, o)
  PROVE  WordsInv'
<1>0. MaxHeld \in Nat \ {0}
  BY DEF FieldsFit
<1> DEFINE op == IF Words!Add(t, o) THEN "add" ELSE IF Words!Remove(t, o) THEN "remove" ELSE "open"
           here == [op |-> loop'[t].op, on |-> o, read |-> NULL]
<1>1. /\ loop[t] = Words!NoLoop /\ word' = word /\ living' = living /\ wild' = wild /\ kind' = kind
      /\ loop' = [loop EXCEPT ![t] = here]
      /\ here.op \in {"add", "remove", "open"}
  BY DEF Words!Add, Words!Remove, Words!Open, Words!Enter, WordsInv, WordsFit
<1>2. \A u \in Threads : u # t => loop'[u] = loop[u]
  BY <1>1 DEF WordsInv, WordsFit
<1>3. loop'[t] = here
  BY <1>1 DEF WordsInv, WordsFit
<1>4. /\ held[t][o] \in 1..MaxHeld
      /\ held' = IF here.op = "remove" THEN [held EXCEPT ![t][o] = held[t][o] - 1] ELSE held
      /\ here.op = "add" => held[t][o] < MaxHeld
      /\ here.op = "open" => kind = "stream" /\ opened' \in Objects
      /\ opened' = opened \/ (opened = NULL /\ opened' \in Objects)
  <2>1. held[t][o] \in 0..MaxHeld
    BY DEF WordsInv, WordsFit
  <2>2. CASE Words!Add(t, o)
    BY <1>0, <1>3, <2>1, <2>2 DEF Words!Add, Words!Enter, WordsInv, WordsFit
  <2>3. CASE Words!Remove(t, o)
    BY <1>0, <1>3, <2>1, <2>3 DEF Words!Remove, Words!Enter, WordsInv, WordsFit
  <2>4. CASE Words!Open(t, o)
    BY <1>0, <1>3, <2>1, <2>4 DEF Words!Open, Words!Enter, WordsInv, WordsFit
  <2> QED
    BY <2>2, <2>3, <2>4
<1>5. \A u \in Threads, v \in Objects :
          held'[u][v] = IF u = t /\ v = o /\ here.op = "remove" THEN held[u][v] - 1 ELSE held[u][v]
  BY <1>4 DEF WordsInv, WordsFit
<1>6. WordsFit'
  <2>1. held' \in [Threads -> [Objects -> 0..MaxHeld]]
    BY <1>0, <1>4 DEF WordsInv, WordsFit
  <2>2. loop' \in [Threads -> Loops(kind)]
    BY <1>1 DEF WordsInv, WordsFit, Loops
  <2>3. opened' \in Objects \cup {NULL}
    BY <1>4 DEF WordsInv, WordsFit
  <2> QED
    BY <1>1, <2>1, <2>2, <2>3 DEF WordsInv, WordsFit
<1>7. \A u \in Threads : LoopFits(u)'
  <2>1. LoopFits(t)'
    BY <1>1, <1>0, <1>3, <1>4, <1>5 DEF LoopFits
  <2>2. ASSUME NEW u \in Threads, u # t PROVE LoopFits(u)'
    BY <1>1, <1>2, <1>4, <1>5, <2>2 DEF LoopFits, WordsInv, WordsFit
  <2> QED
    BY <2>1, <2>2
<1>8. ASSUME NEW v \in Objects PROVE Words!References(v)' = Words!References(v) /\ IsFiniteSet(Words!Refs(v)')
  <2>1. CASE v # o \/ here.op # "remove"
    <3>1. Words!Leaving(v)' = Words!Leaving(v)
      BY <1>1, <1>2, <1>3, <2>1 DEF Words!Leaving, Words!NoLoop
    <3>2. Words!Refs(v)' = Words!Refs(v)
      BY <1>5, <2>1, <3>1 DEF Words!Refs
    <3> QED
      BY <3>2, RefsFinite, ReferencesAre
  <2>2. CASE v = o /\ here.op = "remove"
    <3> DEFINE last == <<t, held[t][o]>>
               rest == Words!Refs(o) \ {last}
    <3>1. Words!Leaving(o)' = Words!Leaving(o) \cup {t} /\ t \notin Words!Leaving(o)
      BY <1>1, <1>2, <1>3, <2>2 DEF Words!Leaving, Words!NoLoop
    <3>2. last \in Words!Refs(o) /\ <<t, 0>> \notin rest
      BY <1>4, <3>1 DEF Words!Refs
    <3>3. Words!Refs(o)' = rest \cup {<<t, 0>>}
      <4>1. ASSUME NEW r \in Threads \X (0..MaxHeld)
            PROVE  r \in Words!Refs(o)' <=> r \in rest \cup {<<t, 0>>}
        <5>1. r = <<r[1], r[2]>> /\ r[1] \in Threads /\ r[2] \in 0..MaxHeld
          OBVIOUS
        <5>2. r \in Words!Refs(o)' <=> IF r[2] = 0 THEN r[1] \in Words!Leaving(o)' ELSE r[2] <= held'[r[1]][o]
          BY DEF Words!Refs
        <5>3. r \in Words!Refs(o) <=> IF r[2] = 0 THEN r[1] \in Words!Leaving(o) ELSE r[2] <= held[r[1]][o]
          BY DEF Words!Refs
        <5>4. held[r[1]][o] \in Nat
          BY <5>1 DEF WordsInv, WordsFit
        <5>5. CASE r[1] # t
          BY <1>5, <3>1, <5>1, <5>2, <5>3, <5>5
        <5>6. CASE r[1] = t
          <6>1. held'[t][o] = held[t][o] - 1
            BY <1>5, <2>2
          <6>2. r[2] = 0 => r = <<t, 0>> /\ r \in Words!Refs(o)'
            BY <3>1, <5>1, <5>2, <5>6
          <6>3. r[2] # 0 => (r \in Words!Refs(o)' <=> r[2] <= held[t][o] - 1)
            BY <5>2, <5>6, <6>1
          <6>4. r[2] # 0 => (r \in rest <=> r[2] <= held[t][o] /\ r[2] # held[t][o])
            BY <5>1, <5>3, <5>6
          <6> QED
            BY <5>1, <5>4, <5>6, <6>2, <6>3, <6>4
        <5> QED
          BY <5>5, <5>6
      <4>2. Words!Refs(o)' \subseteq Threads \X (0..MaxHeld)
             /\ rest \cup {<<t, 0>>} \subseteq Threads \X (0..MaxHeld)
        BY <1>0 DEF Words!Refs
      <4> QED
        BY <4>1, <4>2
    <3>4. IsFiniteSet(rest) /\ Cardinality(rest) = Cardinality(Words!Refs(o)) - 1
      BY <3>2, RefsFinite, FS_RemoveElement
    <3>5. /\ IsFiniteSet(rest \cup {<<t, 0>>})
          /\ Cardinality(rest \cup {<<t, 0>>}) = Cardinality(rest) + 1
      BY <3>2, <3>4, FS_AddElement
    <3>6. Cardinality(Words!Refs(o)) \in Nat
      BY RefsFinite, ReferencesAre
    <3>7. Cardinality(Words!Refs(o)') = Cardinality(Words!Refs(o))
      <4> HIDE DEF last, rest
      <4> QED
        BY <3>3, <3>4, <3>5, <3>6
    <3>8. Words!References(o)' = Words!References(o)
      BY <3>7, ReferencesAre
    <3> QED
      BY <2>2, <3>3, <3>5, <3>8
  <2> QED
    BY <2>1, <2>2
<1>9. \A v \in Objects : Counted(v)'
  BY <1>1, <1>8, CountKept DEF WordsInv
<1> QED
  BY <1>6, <1>7, <1>9 DEF WordsInv

\* A thread leaves its loop: one reference more, one less, or none.
Change(t, v) ==
    IF v # loop[t].on THEN 0
    ELSE IF loop[t].op = "add" THEN 1 ELSE IF loop[t].op = "remove" THEN -1 ELSE 0

LEMMA LoopEnds ==
  ASSUME FieldsFit, WordsInv, NEW t \in Threads, NEW o, o = loop[t].on, o # NULL,
         held' = Words!Gains(t), loop' = [loop EXCEPT ![t] = Words!NoLoop], opened' = opened, kind' = kind
  PROVE  /\ held' \in [Threads -> [Objects -> 0..MaxHeld]]
         /\ loop' \in [Threads -> Loops(kind)]
         /\ \A u \in Threads : LoopFits(u)'
         /\ \A v \in Objects : /\ Words!References(v)' = Words!References(v) + Change(t, v)
                               /\ IsFiniteSet(Words!Refs(v)')
<1>0. MaxHeld \in Nat \ {0} /\ NULL \notin Objects
  BY DEF FieldsFit
<1>1. o \in Objects /\ loop[t].op \in {"add", "remove", "open"}
  BY LoopsAlive
<1>2. loop'[t] = Words!NoLoop /\ \A u \in Threads : u # t => loop'[u] = loop[u]
  BY DEF WordsInv, WordsFit
<1>3. held[t][o] \in 0..MaxHeld /\ (loop[t].op = "add" => held[t][o] < MaxHeld)
  BY <1>1 DEF WordsInv, WordsFit, LoopFits
<1>4. held' = IF loop[t].op = "add" THEN [held EXCEPT ![t][o] = held[t][o] + 1] ELSE held
  BY DEF Words!Gains
<1>5. \A u \in Threads, v \in Objects :
          held'[u][v] = IF u = t /\ v = o /\ loop[t].op = "add" THEN held[u][v] + 1 ELSE held[u][v]
  BY <1>4 DEF WordsInv, WordsFit
<1>6. held' \in [Threads -> [Objects -> 0..MaxHeld]]
  BY <1>0, <1>1, <1>3, <1>4 DEF WordsInv, WordsFit
<1>7. loop' \in [Threads -> Loops(kind)]
  BY DEF WordsInv, WordsFit, Loops
<1>8. \A u \in Threads : LoopFits(u)'
  <2>1. LoopFits(t)'
    BY <1>2 DEF LoopFits, Words!NoLoop
  <2>2. ASSUME NEW u \in Threads, u # t PROVE LoopFits(u)'
    <3>1. LoopFits(u) /\ loop'[u] = loop[u] /\ loop[u] \in Loops(kind)
      BY <1>2, <2>2 DEF WordsInv, WordsFit
    <3>2. \A v \in Objects : held'[u][v] = held[u][v]
      BY <1>5, <2>2
    <3>3. loop[u].op \in {"add", "remove", "open"} => loop[u].on \in Objects
      BY <3>1 DEF Loops, Words!NoLoop
    <3> QED
      BY <3>1, <3>2, <3>3 DEF LoopFits
  <2> QED
    BY <2>1, <2>2
<1>9. ASSUME NEW v \in Objects, v # o \/ loop[t].op = "open"
      PROVE  Words!Refs(v)' = Words!Refs(v)
  <2>1. Words!Leaving(v)' = Words!Leaving(v)
    BY <1>0, <1>1, <1>2, <1>9 DEF Words!Leaving, Words!NoLoop
  <2> QED
    BY <1>5, <1>9, <2>1 DEF Words!Refs
<1>10. CASE loop[t].op = "add"
  <2> DEFINE new == <<t, held[t][o] + 1>>
  <2>1. Words!Leaving(o)' = Words!Leaving(o)
    BY <1>0, <1>1, <1>2, <1>10 DEF Words!Leaving, Words!NoLoop
  <2>2. new \in Threads \X (0..MaxHeld) /\ new \notin Words!Refs(o)
    BY <1>0, <1>3, <1>10 DEF Words!Refs
  <2>3. Words!Refs(o)' = Words!Refs(o) \cup {new}
    <3>1. ASSUME NEW r \in Threads \X (0..MaxHeld)
          PROVE  r \in Words!Refs(o)' <=> r \in Words!Refs(o) \/ r = new
      <4>1. r = <<r[1], r[2]>> /\ r[1] \in Threads /\ r[2] \in 0..MaxHeld
        OBVIOUS
      <4>2. r \in Words!Refs(o)' <=> IF r[2] = 0 THEN r[1] \in Words!Leaving(o) ELSE r[2] <= held'[r[1]][o]
        BY <2>1 DEF Words!Refs
      <4>3. r \in Words!Refs(o) <=> IF r[2] = 0 THEN r[1] \in Words!Leaving(o) ELSE r[2] <= held[r[1]][o]
        BY DEF Words!Refs
      <4>4. CASE r[1] # t
        BY <1>1, <1>5, <4>1, <4>2, <4>3, <4>4
      <4>5. CASE r[1] = t
        <5>1. held'[t][o] = held[t][o] + 1
          BY <1>1, <1>5, <1>10
        <5>2. r = new <=> r[2] = held[t][o] + 1
          BY <4>1, <4>5
        <5> QED
          BY <1>0, <1>3, <4>1, <4>2, <4>3, <4>5, <5>1, <5>2
      <4> QED
        BY <4>4, <4>5
    <3> QED
      BY <2>2, <3>1 DEF Words!Refs
  <2>4. Words!References(o)' = Words!References(o) + 1 /\ IsFiniteSet(Words!Refs(o)')
    <3>1. IsFiniteSet(Words!Refs(o))
      BY RefsFinite
    <3>2. new \notin Words!Refs(o)
      BY <2>2
    <3> HIDE DEF new
    <3>3. /\ IsFiniteSet(Words!Refs(o) \cup {new})
          /\ Cardinality(Words!Refs(o) \cup {new}) = Cardinality(Words!Refs(o)) + 1
      BY <3>1, <3>2, FS_AddElement
    <3> QED
      BY <2>3, <3>3, ReferencesAre
  <2> QED
    BY <1>6, <1>7, <1>8, <1>9, <1>10, <2>4, RefsFinite, ReferencesAre DEF Change
<1>11. CASE loop[t].op = "remove"
  <2>1. Words!Leaving(o)' = Words!Leaving(o) \ {t} /\ t \in Words!Leaving(o)
    BY <1>0, <1>1, <1>2, <1>11 DEF Words!Leaving, Words!NoLoop
  <2>2. held' = held
    BY <1>4, <1>11
  <2>3. <<t, 0>> \in Words!Refs(o)
    BY <1>0, <2>1 DEF Words!Refs
  <2>4. Words!Refs(o)' = Words!Refs(o) \ {<<t, 0>>}
    BY <2>1, <2>2 DEF Words!Refs
  <2>5. Words!References(o)' = Words!References(o) - 1 /\ IsFiniteSet(Words!Refs(o)')
    BY <2>3, <2>4, RefsFinite, FS_RemoveElement, ReferencesAre
  <2> QED
    BY <1>6, <1>7, <1>8, <1>9, <1>11, <2>5, RefsFinite, ReferencesAre DEF Change
<1>12. CASE loop[t].op = "open"
  BY <1>6, <1>7, <1>8, <1>9, <1>12, RefsFinite, ReferencesAre DEF Change
<1> QED
  BY <1>1, <1>10, <1>11, <1>12

\* A loop reads the word: where it returns without a swap, the count has stuck
\* or is not used.
LEMMA ReadStep ==
  ASSUME FieldsFit, WordsInv, NEW t \in Threads, Words!Read(t)
  PROVE  WordsInv'
<1>0. PICK o : o = loop[t].on
  OBVIOUS
<1> DEFINE w == word[o]
           returns == loop[t].op # "open" /\ Words!LeftAlone(kind, loop[t].op, w)
<1>1. /\ o # NULL /\ word' = word /\ living' = living /\ opened' = opened /\ wild' = wild /\ kind' = kind
      /\ IF returns THEN loop' = [loop EXCEPT ![t] = Words!NoLoop] /\ held' = Words!Gains(t)
         ELSE loop' = [loop EXCEPT ![t].read = w] /\ held' = held
  BY <1>0 DEF Words!Read, Words!Reads
<1>2. /\ o \in Objects /\ o \in living /\ loop[t].op \in {"add", "remove", "open"}
      /\ w \in WordSet(kind) /\ (w.rest = "zero" <=> o \in Words!Uncounted(kind)) /\ CountMax[kind] \in Nat
  BY <1>0, <1>1, LoopsAlive DEF WordsInv, WordsFit, FieldsFit
<1>3. CASE returns
  <2>1. /\ held' \in [Threads -> [Objects -> 0..MaxHeld]]
        /\ loop' \in [Threads -> Loops(kind)]
        /\ \A u \in Threads : LoopFits(u)'
        /\ \A v \in Objects : /\ Words!References(v)' = Words!References(v) + Change(t, v)
                              /\ IsFiniteSet(Words!Refs(v)')
    BY <1>0, <1>1, <1>3, LoopEnds
  <2>2. o \in Words!Uncounted(kind) \/ Words!Stuck(o)
    <3>1. CASE loop[t].op = "remove" /\ w.count = 0 /\ o \notin Words!Uncounted(kind) /\ ~Words!Stuck(o)
      <4>1. Words!References(o) = 0
        BY <1>2, <3>1 DEF WordsInv, Counted
      <4>2. Words!Refs(o) = {}
        BY <4>1, RefsFinite, FS_EmptySet, ReferencesAre
      <4>3. <<t, 0>> \in Words!Refs(o)
        BY <1>0, <3>1 DEF Words!Refs, Words!Leaving, FieldsFit
      <4> QED
        BY <4>2, <4>3
    <3>2. kind = "string" => w.count = CountMax[kind]
      BY <1>2, <1>3 DEF Words!LeftAlone, WordSet
    <3>3. kind \in Words!Kinds
      BY DEF FieldsFit
    <3> QED
      BY <1>2, <1>3, <3>1, <3>2, <3>3 DEF Words!Kinds, Words!LeftAlone, Words!Stuck
  <2>3. Counted(o)'
    BY <1>1, <1>2, <2>2 DEF Counted, Words!Stuck
  <2>4. ASSUME NEW v \in Objects, v # o PROVE Counted(v)'
    <3>1. Words!References(v)' = Words!References(v)
      BY <2>1, <2>4, <1>0, RefsFinite DEF Change
    <3> QED
      BY <1>1, <2>1, <3>1, CountKept DEF WordsInv
  <2>5. WordsFit'
    BY <1>1, <2>1 DEF WordsInv, WordsFit
  <2> QED
    BY <2>1, <2>3, <2>4, <2>5 DEF WordsInv
<1>4. CASE ~returns
  <2>1. loop' = [loop EXCEPT ![t] = [loop[t] EXCEPT !.read = w]] /\ held' = held
    BY <1>1, <1>4
  <2>2. loop[t] \in [op : {"add", "remove", "open"}, on : Objects, read : WordSet(kind) \cup {NULL}]
    BY <1>0, <1>2 DEF WordsInv, WordsFit, Loops, Words!NoLoop
  <2> DEFINE more == [loop[t] EXCEPT !.read = w]
  <2>3. more \in Loops(kind) /\ more.op = loop[t].op /\ more.on = o /\ more.read = w
    BY <1>0, <1>2, <2>2 DEF Loops
  <2>4. loop' \in [Threads -> Loops(kind)] /\ loop'[t] = more /\ \A u \in Threads :
            u # t => loop'[u] = loop[u]
    BY <2>1, <2>3 DEF WordsInv, WordsFit
  <2>5. \A v \in Objects : Words!References(v)' = Words!References(v) /\ IsFiniteSet(Words!Refs(v)')
    <3> SUFFICES ASSUME NEW v \in Objects PROVE Words!References(v)' = Words!References(v)
        /\ IsFiniteSet(Words!Refs(v)')
      OBVIOUS
    <3>1. Words!Leaving(v)' = Words!Leaving(v)
      BY <1>0, <2>3, <2>4 DEF Words!Leaving
    <3>2. Words!Refs(v)' = Words!Refs(v)
      BY <2>1, <3>1 DEF Words!Refs
    <3> QED
      BY <3>2, RefsFinite, ReferencesAre
  <2>6. \A v \in Objects : Counted(v)'
    BY <1>1, <2>5, CountKept DEF WordsInv
  <2>7. LoopFits(t)'
    BY <1>0, <1>1, <1>4, <2>1, <2>3, <2>4 DEF WordsInv, LoopFits
  <2>8. \A u \in Threads : u # t => LoopFits(u)'
    BY <1>1, <2>1, <2>4 DEF WordsInv, LoopFits
  <2>9. WordsFit'
    BY <1>1, <2>1, <2>4 DEF WordsInv, WordsFit
  <2> QED
    BY <2>6, <2>7, <2>8, <2>9 DEF WordsInv
<1> QED
  BY <1>3, <1>4

\* The swap of a count: what was read is the word, so one is added to the
\* references as they are, or the last of them goes with the object.
LEMMA CountSwap ==
  ASSUME FieldsFit, WordsInv, NEW t \in Threads, Words!Swap(t), loop[t].op # "open"
  PROVE  WordsInv'
<1>0. PICK o : o = loop[t].on
  OBVIOUS
<1> DEFINE w == word[o]
           new == Words!Swapped(kind, loop[t].op, w)
<1>1. /\ loop[t].on # NULL /\ loop[t].read = w /\ loop[t].read # NULL
      /\ word' = [word EXCEPT ![o] = new]
      /\ living' = IF loop[t].op = "remove" /\ word'[o].count = 0 THEN living \ {o} ELSE living
      /\ held' = Words!Gains(t) /\ loop' = [loop EXCEPT ![t] = Words!NoLoop]
      /\ opened' = opened /\ wild' = wild /\ kind' = kind
  <2>1. loop[t].on # NULL
    BY DEF Words!Swap, WordsInv, WordsFit, Loops, Words!NoLoop, FieldsFit
  <2> QED
    BY <1>0, <2>1 DEF Words!Swap, Words!Swaps
<1>2. /\ o \in Objects /\ o \in living /\ loop[t].op \in {"add", "remove"}
      /\ w \in WordSet(kind) /\ (w.rest = "zero" <=> o \in Words!Uncounted(kind)) /\ CountMax[kind] \in Nat
      /\ ~Words!LeftAlone(kind, loop[t].op, w)
  <2>1. o \in Objects /\ o \in living /\ loop[t].op \in {"add", "remove"}
    BY <1>0, <1>1, LoopsAlive
  <2> QED
    BY <1>1, <2>1 DEF WordsInv, WordsFit, FieldsFit, LoopFits
<1>3. /\ held' \in [Threads -> [Objects -> 0..MaxHeld]]
      /\ loop' \in [Threads -> Loops(kind)]
      /\ \A u \in Threads : LoopFits(u)'
      /\ \A v \in Objects : /\ Words!References(v)' = Words!References(v) + Change(t, v)
                            /\ IsFiniteSet(Words!Refs(v)')
  BY <1>0, <1>1, LoopEnds
<1>4. o \notin Words!Uncounted(kind) /\ w.count = Words!References(o)
  <2>1. kind = "havok" => o \notin Words!Uncounted(kind) /\ w.count # CountMax[kind]
    BY <1>2 DEF Words!LeftAlone
  <2>2. kind = "string" => w.count # CountMax[kind]
    BY <1>2 DEF Words!LeftAlone, WordSet
  <2>3. kind \in Words!Kinds /\ (kind # "havok" => Words!Uncounted(kind) = {})
    BY DEF FieldsFit
  <2> QED
    BY <1>2, <2>1, <2>2, <2>3 DEF WordsInv, Counted, Words!Stuck, Words!Kinds
<1>5. /\ new = [count |-> new.count, rest |-> w.rest]
      /\ new.count \in 0..CountMax[kind]
      /\ new.count = Words!References(o) + Change(t, o)
  <2>1. w = [count |-> w.count, rest |-> w.rest] /\ w.count \in 0..CountMax[kind]
    BY <1>2 DEF WordSet
  <2>2. CASE loop[t].op = "add"
    <3>1. w.count < CountMax[kind]
      <4>1. kind # "stream" => w.count # CountMax[kind]
        <5>1. kind = "havok" => w.count # CountMax[kind]
          BY <1>2 DEF Words!LeftAlone
        <5>2. kind = "string" => ~(w.count >= CountMax[kind])
          BY <1>2 DEF Words!LeftAlone
        <5>3. w.count \in Nat /\ (w.count = CountMax[kind] => w.count >= CountMax[kind])
          BY <1>2, <2>1
        <5> QED
          BY <5>1, <5>2, <5>3 DEF FieldsFit, Words!Kinds
      <4>2. kind = "stream" => w.count < CountMax[kind]
        BY <1>0, <1>4, <2>2, RoomInStream
      <4> QED
        BY <1>2, <2>1, <4>1, <4>2
    <3>2. new = [w EXCEPT !.count = (w.count + 1) % (CountMax[kind] + 1)]
      BY <2>2 DEF Words!Swapped, Words!Width
    <3>3. (w.count + 1) % (CountMax[kind] + 1) = w.count + 1
      BY <1>2, <2>1, <3>1
    <3>4. new = [count |-> w.count + 1, rest |-> w.rest]
      BY <2>1, <3>2, <3>3
    <3> HIDE DEF new
    <3> QED
      BY <1>0, <1>2, <1>4, <2>1, <2>2, <3>1, <3>4 DEF Change
  <2>3. CASE loop[t].op = "remove"
    <3>1. w.count > 0
      <4>1. <<t, 0>> \in Words!Refs(o)
        BY <1>0, <2>3 DEF Words!Refs, Words!Leaving, FieldsFit
      <4>2. Words!References(o) # 0
        BY <4>1, RefsFinite, FS_EmptySet, ReferencesAre
      <4> QED
        BY <1>4, <2>1, <4>2
    <3>2. new = [w EXCEPT !.count = (w.count + CountMax[kind]) % (CountMax[kind] + 1)]
      BY <2>3 DEF Words!Swapped, Words!Width
    <3>3. (w.count + CountMax[kind]) % (CountMax[kind] + 1) = w.count - 1
      <4>1. w.count + CountMax[kind] = (w.count - 1) + (CountMax[kind] + 1)
        BY <1>2, <2>1
      <4>2. w.count - 1 \in 0..CountMax[kind]
        BY <1>2, <2>1, <3>1
      <4>3. \A n \in Nat, m \in Nat : n <= m => (n + (m + 1)) % (m + 1) = n
        OBVIOUS
      <4> HIDE DEF w
      <4>4. w.count - 1 \in Nat /\ w.count - 1 <= CountMax[kind]
        BY <1>2, <4>2
      <4>5. ((w.count - 1) + (CountMax[kind] + 1)) % (CountMax[kind] + 1) = w.count - 1
        BY <1>2, <4>3, <4>4
      <4> QED
        BY <4>1, <4>5
    <3>4. new = [count |-> w.count - 1, rest |-> w.rest]
      BY <2>1, <3>2, <3>3
    <3> HIDE DEF new
    <3> QED
      BY <1>0, <1>2, <1>4, <2>1, <2>3, <3>1, <3>4 DEF Change
  <2> QED
    BY <1>2, <2>2, <2>3
<1> HIDE DEF new
<1>6. word'[o] = new /\ \A v \in Objects : v # o => word'[v] = word[v]
  BY <1>1, <1>2 DEF WordsInv, WordsFit
<1>7. Counted(o)'
  <2>1. Words!References(o)' = new.count /\ word'[o].count = new.count
    BY <1>2, <1>3, <1>5, <1>6
  <2>2. CASE o \in living'
    BY <2>1, <2>2 DEF Counted
  <2>3. CASE o \notin living'
    <3>1. word'[o].count = 0
      BY <1>1, <1>2, <2>3
    <3>2. Cardinality(Words!Refs(o)') = 0 /\ IsFiniteSet(Words!Refs(o)')
      BY <1>2, <1>3, <2>1, <3>1, ReferencesAre
    <3>3. Words!Refs(o)' = {}
      BY <3>2, FS_EmptySet
    <3> QED
      BY <2>3, <3>3 DEF Counted
  <2> QED
    BY <2>2, <2>3
<1>8. ASSUME NEW v \in Objects, v # o PROVE Counted(v)'
  <2>1. Words!References(v)' = Words!References(v)
    BY <1>0, <1>3, <1>8, RefsFinite DEF Change
  <2>2. v \in living' <=> v \in living
    BY <1>1, <1>8
  <2> QED
    BY <1>1, <1>3, <1>6, <1>8, <2>1, <2>2, CountKept DEF WordsInv
<1>9. WordsFit'
  <2>1. word' \in [Objects -> WordSet(kind)]
    BY <1>1, <1>2, <1>5 DEF WordsInv, WordsFit, WordSet
  <2>2. \A v \in Objects : word'[v].rest = "zero" <=> v \in Words!Uncounted(kind)
    BY <1>2, <1>5, <1>6 DEF WordsInv, WordsFit
  <2>3. living' \subseteq Objects /\ Words!Uncounted(kind) \subseteq living'
    BY <1>1, <1>4 DEF WordsInv, WordsFit
  <2> QED
    BY <1>1, <1>3, <2>1, <2>2, <2>3 DEF WordsInv, WordsFit
<1> QED
  BY <1>3, <1>7, <1>8, <1>9 DEF WordsInv

\* Stream::Open swaps flags into the word of the stream opened first.
LEMMA OpenSwap ==
  ASSUME FieldsFit, WordsInv, NEW t \in Threads, Words!Swap(t), loop[t].op = "open"
  PROVE  WordsInv'
<1>0. PICK o : o = opened
  OBVIOUS
<1> DEFINE w == word[o]
           new == [w EXCEPT !.rest = "marked"]
<1>1. /\ loop[t].on # NULL /\ o \in Objects /\ kind = "stream"
      /\ word' = [word EXCEPT ![o] = new] /\ living' = living
      /\ held' = Words!Gains(t) /\ loop' = [loop EXCEPT ![t] = Words!NoLoop]
      /\ opened' = opened /\ wild' = wild /\ kind' = kind
  <2>1. loop[t].on # NULL
    BY DEF WordsInv, WordsFit, Loops, Words!NoLoop, FieldsFit
  <2>2. o \in Objects /\ kind = "stream"
    BY <1>0 DEF WordsInv, LoopFits
  <2>3. Words!Swapped(kind, "open", w) = new
    BY DEF Words!Swapped
  <2> QED
    BY <1>0, <2>1, <2>2, <2>3 DEF Words!Swap, Words!Swaps
<1>2. Words!Uncounted(kind) = {} /\ w \in WordSet(kind)
  BY <1>1 DEF FieldsFit, WordsInv, WordsFit
<1>3. new = [count |-> w.count, rest |-> "marked"]
  BY <1>2 DEF WordSet
<1>4. /\ held' \in [Threads -> [Objects -> 0..MaxHeld]]
      /\ loop' \in [Threads -> Loops(kind)]
      /\ \A u \in Threads : LoopFits(u)'
      /\ \A v \in Objects : Words!References(v)' = Words!References(v) /\ IsFiniteSet(Words!Refs(v)')
  <2>1. /\ held' \in [Threads -> [Objects -> 0..MaxHeld]]
        /\ loop' \in [Threads -> Loops(kind)]
        /\ \A u \in Threads : LoopFits(u)'
        /\ \A v \in Objects : /\ Words!References(v)' = Words!References(v) + Change(t, v)
                              /\ IsFiniteSet(Words!Refs(v)')
    BY <1>1, LoopEnds
  <2>2. \A v \in Objects : Change(t, v) = 0 /\ Words!References(v) \in Nat
    BY RefsFinite DEF Change
  <2> QED
    BY <2>1, <2>2
<1> HIDE DEF new
<1>5. word'[o] = new /\ \A v \in Objects : v # o => word'[v] = word[v]
  BY <1>1 DEF WordsInv, WordsFit
<1>6. \A v \in Objects : word'[v].count = word[v].count
  BY <1>3, <1>5
<1>7. \A v \in Objects : Counted(v)'
  BY <1>1, <1>4, <1>6, CountKept DEF WordsInv
<1>8. WordsFit'
  <2>1. word' \in [Objects -> WordSet(kind)]
    BY <1>1, <1>2, <1>3 DEF WordsInv, WordsFit, WordSet, Rests
  <2>2. \A v \in Objects : word'[v].rest = "zero" <=> v \in Words!Uncounted(kind)
    BY <1>2, <1>3, <1>5 DEF WordsInv, WordsFit
  <2> QED
    BY <1>1, <1>4, <2>1, <2>2 DEF WordsInv, WordsFit
<1> QED
  BY <1>4, <1>7, <1>8 DEF WordsInv

\* A swap that fails sends its loop back to the read; a swap of freed memory
\* changes nothing that is still there.
LEMMA RetryStep ==
  ASSUME FieldsFit, WordsInv, NEW t \in Threads, Words!Retry(t) \/ Words!SwapFreed(t)
  PROVE  WordsInv'
<1>1. CASE Words!Retry(t)
  <2> DEFINE more == [loop[t] EXCEPT !.read = NULL]
  <2>1. /\ loop' = [loop EXCEPT ![t] = more] /\ loop[t].read # NULL
        /\ word' = word /\ living' = living /\ held' = held /\ opened' = opened /\ wild' = wild
               /\ kind' = kind
    BY <1>1 DEF Words!Retry
  <2>2. loop[t] \in [op : {"add", "remove", "open"}, on : Objects, read : WordSet(kind) \cup {NULL}]
    BY <2>1 DEF WordsInv, WordsFit, Loops, Words!NoLoop
  <2>3. more \in Loops(kind) /\ more.op = loop[t].op /\ more.on = loop[t].on /\ more.read = NULL
    BY <2>2 DEF Loops
  <2>4. loop' \in [Threads -> Loops(kind)] /\ loop'[t] = more /\ \A u \in Threads :
            u # t => loop'[u] = loop[u]
    BY <2>1, <2>3 DEF WordsInv, WordsFit
  <2>5. \A v \in Objects : Words!References(v)' = Words!References(v) /\ IsFiniteSet(Words!Refs(v)')
    <3> SUFFICES ASSUME NEW v \in Objects PROVE Words!References(v)' = Words!References(v)
        /\ IsFiniteSet(Words!Refs(v)')
      OBVIOUS
    <3>1. Words!Leaving(v)' = Words!Leaving(v)
      BY <2>3, <2>4 DEF Words!Leaving
    <3>2. Words!Refs(v)' = Words!Refs(v)
      BY <2>1, <3>1 DEF Words!Refs
    <3> QED
      BY <3>2, RefsFinite, ReferencesAre
  <2>6. \A v \in Objects : Counted(v)'
    BY <2>1, <2>5, CountKept DEF WordsInv
  <2>7. \A u \in Threads : LoopFits(u)'
    <3>1. LoopFits(t)'
      BY <2>1, <2>3, <2>4 DEF WordsInv, LoopFits
    <3>2. \A u \in Threads : u # t => LoopFits(u)'
      BY <2>1, <2>4 DEF WordsInv, LoopFits
    <3> QED
      BY <3>1, <3>2
  <2>8. WordsFit'
    BY <2>1, <2>4 DEF WordsInv, WordsFit
  <2> QED
    BY <2>6, <2>7, <2>8 DEF WordsInv
<1>2. CASE Words!SwapFreed(t)
  BY <1>2 DEF Words!SwapFreed, WordsInv, WordsFit, LoopFits, Counted, Words!Stuck, Words!Refs, Words!Leaving, Words!References
<1> QED
  BY <1>1, <1>2

-----------------------------------------------------------------------------
\* Every thread starts with a reference to every object.
LEMMA WordsInvInit ==
  ASSUME Words!ConstantsFit, Words!Init
  PROVE  WordsInv
<1>0. /\ MaxHeld \in Nat \ {0} /\ CountMax[kind] \in Nat /\ IsFiniteSet(Threads) /\ NULL \notin Objects
      /\ Cardinality(Threads) <= CountMax[kind] /\ Cardinality(Threads) \in Nat
      /\ Words!Uncounted(kind) \subseteq Objects /\ kind \in Words!Kinds
  <2>1. FieldsFit
    BY KindFits DEF Words!Init
  <2> QED
    BY <2>1, FS_CardinalityType DEF FieldsFit
<1>1. WordsFit
  <2>1. ASSUME NEW o \in Objects
        PROVE  word[o] \in WordSet(kind) /\ (word[o].rest = "zero" <=> o \in Words!Uncounted(kind))
    BY <1>0, SameCardinality DEF Words!Init, WordSet, Rests
  <2>2. word \in [Objects -> WordSet(kind)]
    BY <2>1 DEF Words!Init
  <2>3. held \in [Threads -> [Objects -> 0..MaxHeld]]
    <3>1. 1 \in 0..MaxHeld
      BY <1>0
    <3> QED
      BY <3>1 DEF Words!Init
  <2>4. loop \in [Threads -> Loops(kind)]
    BY DEF Words!Init, Loops
  <2> QED
    BY <1>0, <2>1, <2>2, <2>3, <2>4 DEF Words!Init, WordsFit
<1>2. \A t \in Threads : LoopFits(t)
  BY DEF Words!Init, LoopFits, Words!NoLoop
<1>3. ASSUME NEW o \in Objects PROVE Counted(o)
  <2> DEFINE first == [t \in Threads |-> <<t, 1>>]
  <2>1. Words!Leaving(o) = {}
    BY DEF Words!Init, Words!Leaving, Words!NoLoop
  <2>2. first \in Bijection(Threads, Words!Refs(o))
    <3>1. \A t \in Threads : <<t, 1>> \in Words!Refs(o)
      BY <1>0 DEF Words!Refs, Words!Init
    <3>2. \A r \in Words!Refs(o) : r[1] \in Threads /\ r = <<r[1], 1>>
      BY <1>0, <2>1 DEF Words!Refs, Words!Init
    <3> QED
      BY <3>1, <3>2 DEF Bijection, Injection, Surjection, IsInjective
  <2> HIDE DEF first
  <2>3. Cardinality(Words!Refs(o)) = Cardinality(Threads)
    <3>1. IsFiniteSet(Threads)
      BY <1>0
    <3> QED
      BY <2>2, <3>1, FS_Bijection DEF ExistsBijection
  <2> QED
    BY <2>3, ReferencesAre, SameCardinality DEF Words!Init, Counted
<1> QED
  BY <1>1, <1>2, <1>3 DEF WordsInv

LEMMA WordsInvNext ==
  ASSUME Words!ConstantsFit, WordsInv, [Words!Next]_Words!refVars
  PROVE  WordsInv'
<1>0. FieldsFit
  BY KindFits DEF WordsInv, WordsFit
<1>1. CASE UNCHANGED Words!refVars
  BY <1>1 DEF Words!refVars, WordsInv, WordsFit, LoopFits, Counted, Words!Stuck, Words!Refs, Words!Leaving, Words!References
<1>2. ASSUME NEW t \in Threads, NEW o \in Objects, Words!Add(t, o) \/ Words!Remove(t, o) \/ Words!Open(t, o)
      PROVE  WordsInv'
  BY <1>0, <1>2, EnterStep
<1>3. ASSUME NEW t \in Threads, Words!Read(t) \/ Words!Swap(t) \/ Words!Retry(t) \/ Words!SwapFreed(t)
      PROVE  WordsInv'
  BY <1>0, <1>3, ReadStep, CountSwap, OpenSwap, RetryStep
<1> QED
  BY <1>1, <1>2, <1>3 DEF Words!Next

\* The invariant is the types, the counts and the lifetimes.
LEMMA WordsInvShows ==
  ASSUME Words!ConstantsFit, WordsInv
  PROVE  Words!TypeOK /\ Words!CountsReferences /\ Words!OutlivesReferences
<1>1. Words!TypeOK
  BY DEF WordsInv, WordsFit, WordSet, Words!TypeOK
<1>2. Words!CountsReferences
  BY DEF WordsInv, WordsFit, Counted, Words!CountsReferences
<1>3. \A o \in Objects \ living : Words!References(o) = 0
  BY FS_EmptySet, ReferencesAre DEF WordsInv, Counted
<1>4. ASSUME NEW t \in Threads, loop[t].on # NULL, Words!Swaps(t) \notin living
      PROVE  loop[t].on # opened
  BY <1>4, LoopsAlive, KindFits DEF Words!Swaps, WordsInv, WordsFit
<1> QED
  BY <1>1, <1>2, <1>3, <1>4 DEF Words!OutlivesReferences

-----------------------------------------------------------------------------
(***************************************************************************)
(* Papyrus values.  The count of an object is at least the number of       *)
(* variables that name it, and a box has one owner at most, while the      *)
(* stack of what is being destroyed grows and shrinks: a variable whose    *)
(* value has been let go of, but not yet blanked, is in flux and owns      *)
(* nothing.                                                                *)
(***************************************************************************)
\* The variables whose value has been let go of but is still there, and the
\* variables that own or refer to an object or a box.
InFlux(a, d, c) ==
    (IF a = "blank" \/ d # <<>> THEN {c} ELSE {})
        \cup {Values!Within(d[i]) : i \in 1..(IF a = "blank" THEN Len(d) ELSE Len(d) - 1)}
CellFlux == InFlux(stage, ending, assignment.on)
CellOwners(x) == {c \in Values!Cells \ CellFlux : cell[c].val = x}
Pending(x) == assignment.op = "put" /\ assignment.put.val = x
Going == {ending[i] : i \in DOMAIN ending}

Contents == {Values!None, Values!Number} \cup {Values!Ref(o) : o \in ScriptObjects \cup {NULL}}
    \cup {Values!Var(b) : b \in Boxes \cup {NULL}}

ValuesFit ==
    /\ cell \in [Values!Cells -> Contents]
    /\ refs \in [ScriptObjects -> Nat]
    /\ existing \subseteq ScriptObjects \cup Boxes
    /\ ending \in Seq(ScriptObjects \cup Boxes)
    /\ assignment.put \in Contents
    /\ leaked \in BOOLEAN /\ freed \in BOOLEAN

\* Where a call is.
AssignmentFits ==
    /\ stage \in {"idle", "reset", "blank", "free", "put", "copy"}
    /\ assignment.op \in {"none", "reset", "put", "copy"}
    /\ stage = "idle" <=> assignment.op = "none"
    /\ stage \in {"idle", "put", "copy"} => ending = <<>>
    /\ stage \in {"put", "copy"} => assignment.op = stage /\ cell[assignment.on] = Values!None
    /\ stage = "free" => ending # <<>> /\ cell[Values!Slot] = Values!None
    /\ assignment.op = "copy" => assignment.from \in Values!Cells

\* What the variables on a way are in stays where it is, each named by one before.
WayHeld(c, by) ==
    \A x \in ScriptObjects \cup Boxes :
        Values!Within(x) \in {c} \cup by => \E d \in CellOwners(x) : d \in by

\* The way to the variable assigned to is held during the call.
OnHeld ==
    assignment.op # "none" =>
        /\ assignment.on \in ScriptLocals \cup Values!Fields
        /\ assignment.on \notin assignment.toOn
        /\ WayHeld(assignment.on, assignment.toOn)

\* So is the one to the variable copied, unless it goes through the one assigned to.
ThroughTarget == assignment.on \in assignment.toFrom
FromHeld ==
    assignment.op = "copy" /\ ~ThroughTarget => WayHeld(assignment.from, assignment.toFrom)

\* What is being destroyed has nobody left, and is destroyed once.
EndingFits ==
    /\ \A i, j \in DOMAIN ending : ending[i] = ending[j] => i = j
    /\ \A x \in Going :
         /\ x \in existing /\ CellOwners(x) = {} /\ ~Pending(x)
         /\ x \in ScriptObjects => refs[x] = 0

\* No variable is left to what is gone, and nothing in a variable that is gone.
NamedExist ==
    /\ \A c \in Values!Cells \ CellFlux : cell[c].val \in existing \cup {NULL}
    /\ \A c \in Values!Cells \ Values!Present : cell[c] = Values!None
    /\ assignment.op = "put" => assignment.put.val \in existing \cup {NULL}

Uses(x) == Cardinality(CellOwners(x)) + (IF Pending(x) THEN 1 ELSE 0)

RefFits(o) ==
    IF o \in existing
    THEN refs[o] >= Uses(o) /\ (leaked \/ refs[o] = Uses(o)) /\ (refs[o] = 0 => o \in Going)
    ELSE refs[o] = 0

BoxFits(b) ==
    /\ cell[b].type # "var"
    /\ \A c, d \in CellOwners(b) : c = d
    /\ Pending(b) => CellOwners(b) = {}
    /\ b \in existing => leaked \/ b \in Going \/ Pending(b) \/ CellOwners(b) # {}

ValuesInv ==
    /\ ValuesFit /\ AssignmentFits
    /\ OnHeld /\ FromHeld
    /\ EndingFits /\ NamedExist
    /\ \A o \in ScriptObjects : RefFits(o)
    /\ \A b \in Boxes : BoxFits(b)

-----------------------------------------------------------------------------
(***************************************************************************)
(* Cells, values, and the cells in flux.                                   *)
(***************************************************************************)
LEMMA CellFacts ==
  ASSUME Values!ConstantsFit
  PROVE  /\ IsFiniteSet(Values!Cells) /\ NULL \notin Values!Cells \cup ScriptObjects \cup Boxes
         /\ \A o \in ScriptObjects :
                Values!Field(o) \in Values!Cells /\ Values!Field(o) \notin ScriptLocals \cup Boxes
         /\ \A o, u \in ScriptObjects : Values!Field(o) = Values!Field(u) => o = u
         /\ ScriptLocals \subseteq Values!Cells /\ Boxes \subseteq Values!Cells
         /\ ScriptLocals \cap Boxes = {} /\ ScriptObjects \cap Boxes = {}
<1>0. IsFiniteSet(ScriptLocals) /\ IsFiniteSet(ScriptObjects) /\ IsFiniteSet(Boxes)
  BY SameCardinality DEF Values!ConstantsFit
<1>1. IsFiniteSet(Values!Fields)
  <2>1. [o \in ScriptObjects |-> Values!Field(o)] \in Surjection(ScriptObjects, Values!Fields)
    BY DEF Surjection, Values!Fields
  <2> QED
    BY <1>0, <2>1, FS_Surjection
<1>2. IsFiniteSet(Values!Cells)
  BY <1>0, <1>1, FS_Union DEF Values!Cells
<1>3. \A o, u \in ScriptObjects : Values!Field(o) = Values!Field(u) => o = u
  BY DEF Values!Field
<1>4. \A o \in ScriptObjects : Values!Field(o) \in Values!Fields
  BY DEF Values!Fields
<1> QED
  BY <1>2, <1>3, <1>4 DEF Values!ConstantsFit, Values!Cells

LEMMA WithinFacts ==
  ASSUME Values!ConstantsFit
  PROVE  /\ \A x \in ScriptObjects \cup Boxes :
                Values!Within(x) \in Values!Cells /\ Values!Within(x) \notin ScriptLocals
         /\ \A x, y \in ScriptObjects \cup Boxes : Values!Within(x) = Values!Within(y) => x = y
         /\ \A x \in ScriptObjects : Values!Within(x) = Values!Field(x)
         /\ \A x \in Boxes : Values!Within(x) = x
<1>1. /\ \A x \in ScriptObjects : Values!Within(x) = Values!Field(x)
      /\ \A x \in Boxes : Values!Within(x) = x
  BY CellFacts DEF Values!Within
<1>2. \A x \in ScriptObjects \cup Boxes :
          Values!Within(x) \in Values!Cells /\ Values!Within(x) \notin ScriptLocals
  BY <1>1, CellFacts
<1>3. \A x, y \in ScriptObjects \cup Boxes : Values!Within(x) = Values!Within(y) => x = y
  BY <1>1, CellFacts
<1> QED
  BY <1>1, <1>2, <1>3

\* A value names an object, a box or nothing, and its type says which.
LEMMA ContentFacts ==
  ASSUME Values!ConstantsFit, NEW value \in Contents
  PROVE  /\ value.val \in ScriptObjects \cup Boxes \cup {NULL}
         /\ value.val \in ScriptObjects <=> value.type = "ref" /\ value.val # NULL
         /\ value.val \in Boxes <=> value.type = "var" /\ value.val # NULL
         /\ value.val \in ScriptObjects => value = Values!Ref(value.val)
         /\ value.val \in Boxes => value = Values!Var(value.val)
         /\ [type |-> value.type, val |-> NULL] \in Contents
<1>1. CASE value \in {Values!None, Values!Number}
  BY <1>1, CellFacts DEF Values!None, Values!Number, Contents
<1>2. CASE value \in {Values!Ref(o) : o \in ScriptObjects \cup {NULL}}
  BY <1>2, CellFacts DEF Values!Ref, Contents
<1>3. CASE value \in {Values!Var(b) : b \in Boxes \cup {NULL}}
  BY <1>3, CellFacts DEF Values!Var, Contents
<1> QED
  BY <1>1, <1>2, <1>3 DEF Contents

LEMMA NamedValues ==
  ASSUME Values!ConstantsFit
  PROVE  /\ Values!None \in Contents /\ Values!None.val = NULL /\ Values!None.type # "var"
                /\ Values!None.type # "ref"
         /\ Values!Number \in Contents /\ Values!Number.val = NULL
         /\ \A o \in ScriptObjects : Values!Ref(o) \in Contents /\ Values!Ref(o).val = o
         /\ \A b \in Boxes : Values!Var(b) \in Contents /\ Values!Var(b).val = b
BY DEF Contents, Values!None, Values!Number, Values!Ref, Values!Var

\* The variable being reset is the one that joins those in flux when it is blank.
LEMMA FluxBlanked ==
  ASSUME NEW S, NEW d \in Seq(S), NEW c, NEW a, a # "blank"
  PROVE  InFlux("blank", d, c) = InFlux(a, d, c) \cup {IF d = <<>> THEN c ELSE Values!Within(d[Len(d)])}
<1>1. Len(d) \in Nat /\ (d = <<>> <=> Len(d) = 0)
  OBVIOUS
<1>2. CASE d = <<>>
  BY <1>1, <1>2 DEF InFlux
<1>3. CASE d # <<>>
  <2>1. PICK n : n = Len(d)
    OBVIOUS
  <2>2. n \in Nat /\ n > 0
    BY <1>1, <1>3, <2>1
  <2>3. 1..n = 1..(n - 1) \cup {n}
    BY <2>2
  <2>4. {Values!Within(d[i]) : i \in 1..n} = {Values!Within(d[i]) : i \in 1..(n - 1)}
            \cup {Values!Within(d[n])}
    BY <2>3
  <2>5. InFlux("blank", d, c) = {c} \cup {Values!Within(d[i]) : i \in 1..n}
    BY <2>1 DEF InFlux
  <2>6. InFlux(a, d, c) = {c} \cup {Values!Within(d[i]) : i \in 1..(n - 1)}
    BY <1>3, <2>1 DEF InFlux
  <2> QED
    BY <1>3, <2>1, <2>4, <2>5, <2>6
<1> QED
  BY <1>2, <1>3

LEMMA FluxPushed ==
  ASSUME NEW S, NEW d \in Seq(S), NEW x \in S, NEW c, NEW a, a # "blank"
  PROVE  InFlux(a, Append(d, x), c) = InFlux("blank", d, c)
<1>1. PICK e : e = Append(d, x)
  OBVIOUS
<1>2. /\ Len(d) \in Nat /\ Len(e) = Len(d) + 1 /\ e # <<>>
      /\ \A i \in 1..Len(d) : e[i] = d[i]
  BY <1>1
<1>3. {Values!Within(e[i]) : i \in 1..(Len(e) - 1)} = {Values!Within(d[i]) : i \in 1..Len(d)}
  BY <1>2
<1>4. InFlux(a, e, c) = {c} \cup {Values!Within(e[i]) : i \in 1..(Len(e) - 1)}
  BY <1>2 DEF InFlux
<1>5. InFlux("blank", d, c) = {c} \cup {Values!Within(d[i]) : i \in 1..Len(d)}
  BY DEF InFlux
<1> QED
  BY <1>1, <1>3, <1>4, <1>5

\* A stack without its last element.
LEMMA Shortened ==
  ASSUME NEW d \in Seq(ScriptObjects \cup Boxes), d # <<>>, NEW e, e = SubSeq(d, 1, Len(d) - 1)
  PROVE  /\ e \in Seq(ScriptObjects \cup Boxes) /\ Len(d) \in Nat \ {0} /\ Len(e) = Len(d) - 1
         /\ \A i \in 1..(Len(d) - 1) : e[i] = d[i]
         /\ DOMAIN d = 1..Len(d) /\ DOMAIN e = 1..(Len(d) - 1)
         /\ d[Len(d)] \in ScriptObjects \cup Boxes
<1>1. Len(d) \in Nat /\ DOMAIN d = 1..Len(d) /\ Len(d) # 0
  BY LenProperties, EmptySeq
<1>2. /\ e \in Seq(ScriptObjects \cup Boxes)
      /\ Len(e) = IF 1 <= Len(d) - 1 THEN Len(d) - 1 - 1 + 1 ELSE 0
      /\ \A i \in 1..(Len(d) - 1 - 1 + 1) : e[i] = d[1 + i - 1]
  <2>1. \A i \in 1..(Len(d) - 1) : i \in 1..Len(d)
    BY <1>1
  <2>2. 1 \in 1..(Len(d) + 1) /\ Len(d) - 1 \in 1-1..Len(d)
    BY <1>1
  <2> QED
    BY <1>1, <2>1, <2>2, SubSeqProperties
<1> QED
  BY <1>1, <1>2, LenProperties

LEMMA FluxPopped ==
  ASSUME NEW d \in Seq(ScriptObjects \cup Boxes), d # <<>>, NEW c, NEW a, a # "blank"
  PROVE  InFlux("blank", SubSeq(d, 1, Len(d) - 1), c) = InFlux(a, d, c)
<1>1. PICK e : e = SubSeq(d, 1, Len(d) - 1)
  OBVIOUS
<1>2. /\ Len(d) \in Nat /\ Len(d) > 0 /\ Len(e) = Len(d) - 1
      /\ \A i \in 1..Len(e) : e[i] = d[i]
  <2>1. /\ Len(d) \in Nat \ {0} /\ Len(e) = Len(d) - 1
        /\ \A i \in 1..(Len(d) - 1) : e[i] = d[i]
    BY <1>1, Shortened
  <2> QED
    BY <2>1
<1>3. {Values!Within(e[i]) : i \in 1..Len(e)} = {Values!Within(d[i]) : i \in 1..(Len(d) - 1)}
  BY <1>2
<1>4. InFlux(a, d, c) = {c} \cup {Values!Within(d[i]) : i \in 1..(Len(d) - 1)}
  BY DEF InFlux
<1>5. InFlux("blank", e, c) = {c} \cup {Values!Within(e[i]) : i \in 1..Len(e)}
  BY DEF InFlux
<1> QED
  BY <1>1, <1>3, <1>4, <1>5

-----------------------------------------------------------------------------
(***************************************************************************)
(* What the invariant says of a state.                                     *)
(***************************************************************************)
LEMMA AssignmentFacts ==
  ASSUME Values!ConstantsFit, ValuesInv
  PROVE  /\ Len(ending) \in Nat /\ (ending = <<>> <=> Len(ending) = 0) /\ DOMAIN ending = 1..Len(ending)
         /\ \A i \in DOMAIN ending : ending[i] \in Going
         /\ Going \subseteq ScriptObjects \cup Boxes /\ Going \subseteq existing
         /\ ending # <<>> => Values!Innermost \in Going
         /\ assignment.op # "none" => assignment.on \in ScriptLocals \cup Values!Fields
                /\ assignment.on \in Values!Cells
<1>1. /\ Len(ending) \in Nat /\ (ending = <<>> <=> Len(ending) = 0) /\ DOMAIN ending = 1..Len(ending)
      /\ \A i \in 1..Len(ending) : ending[i] \in ScriptObjects \cup Boxes
  BY LenProperties, EmptySeq, ElementOfSeq DEF ValuesInv, ValuesFit
<1>2. \A i \in DOMAIN ending : ending[i] \in Going
  BY DEF Going
<1>3. Going \subseteq ScriptObjects \cup Boxes /\ Going \subseteq existing
  BY <1>1 DEF Going, ValuesInv, EndingFits
<1>4. ending # <<>> => Values!Innermost \in Going
  BY <1>1, <1>2 DEF Values!Innermost
<1>5. assignment.op # "none" => assignment.on \in ScriptLocals \cup Values!Fields
          /\ assignment.on \in Values!Cells
  BY DEF ValuesInv, OnHeld, Values!Fields, Values!Cells
<1> QED
  BY <1>1, <1>2, <1>3, <1>4, <1>5

LEMMA CellFluxWhere ==
  ASSUME Values!ConstantsFit, ValuesInv
  PROVE  /\ \A c \in CellFlux :
                assignment.op # "none" /\ (c = assignment.on \/ \E x \in Going : c = Values!Within(x))
         /\ stage \in {"idle", "put", "copy"} => CellFlux = {}
         /\ \A v \in ScriptLocals : v # assignment.on => v \notin CellFlux
<1>1. /\ Len(ending) \in Nat /\ (ending = <<>> <=> Len(ending) = 0) /\ DOMAIN ending = 1..Len(ending)
      /\ \A i \in DOMAIN ending : ending[i] \in Going
      /\ Going \subseteq ScriptObjects \cup Boxes
  BY AssignmentFacts
<1>2. stage \in {"idle", "put", "copy"} => CellFlux = {}
  <2>1. stage \in {"idle", "put", "copy"} => ending = <<>> /\ stage # "blank"
    BY DEF ValuesInv, AssignmentFits
  <2> QED
    BY <1>1, <2>1 DEF CellFlux, InFlux
<1>3. \A c \in CellFlux : c = assignment.on \/ \E x \in Going : c = Values!Within(x)
  BY <1>1 DEF CellFlux, InFlux
<1>4. CellFlux # {} => assignment.op # "none"
  BY <1>2 DEF ValuesInv, AssignmentFits
<1>5. \A v \in ScriptLocals : v # assignment.on => v \notin CellFlux
  BY <1>1, <1>3, WithinFacts
<1> QED
  BY <1>2, <1>3, <1>4, <1>5

\* What a settled variable names exists and is not being destroyed.
LEMMA CellKeeps ==
  ASSUME Values!ConstantsFit, ValuesInv, NEW c \in Values!Cells, c \notin CellFlux,
             NEW x, cell[c].val = x, x # NULL
  PROVE  /\ x \in existing /\ x \notin Going /\ c \in CellOwners(x)
         /\ x \in ScriptObjects => cell[c] = Values!Ref(x) /\ cell[c].type = "ref"
         /\ x \in Boxes => cell[c] = Values!Var(x) /\ cell[c].type = "var"
<1>1. x \in existing /\ c \in CellOwners(x)
  BY DEF ValuesInv, NamedExist, CellOwners
<1>2. x \notin Going
  BY <1>1 DEF ValuesInv, EndingFits
<1>3. cell[c] \in Contents
  BY DEF ValuesInv, ValuesFit
<1> QED
  BY <1>1, <1>2, <1>3, ContentFacts

\* Nothing on the ways is being destroyed: it has an owner.
LEMMA WaysKept ==
  ASSUME Values!ConstantsFit, ValuesInv, assignment.op # "none", NEW x \in Going
  PROVE  /\ Values!Within(x) \notin {assignment.on} \cup assignment.toOn
         /\ assignment.op = "copy" /\ ~ThroughTarget =>
                Values!Within(x) \notin {assignment.from} \cup assignment.toFrom
<1>1. CellOwners(x) = {} /\ x \in ScriptObjects \cup Boxes
  BY AssignmentFacts DEF ValuesInv, EndingFits
<1> QED
  BY <1>1 DEF ValuesInv, OnHeld, FromHeld, WayHeld

LEMMA OnNotGoing ==
  ASSUME Values!ConstantsFit, ValuesInv, assignment.op # "none"
  PROVE  /\ \A x \in Going : Values!Within(x) # assignment.on
         /\ assignment.on \in Values!Present /\ assignment.on \in Values!Cells
<1>1. CASE assignment.on \in ScriptLocals
  BY <1>1, AssignmentFacts, WithinFacts DEF Values!Present
<1>2. CASE assignment.on \notin ScriptLocals
  <2>1. PICK o \in ScriptObjects : assignment.on = Values!Field(o)
    BY <1>2, AssignmentFacts DEF Values!Fields
  <2>2. Values!Within(o) = assignment.on
    BY <2>1, WithinFacts
  <2>3. PICK d \in CellOwners(o) : TRUE
    BY <2>2 DEF ValuesInv, OnHeld, WayHeld
  <2>4. d \in Values!Cells /\ d \notin CellFlux /\ cell[d].val = o /\ o # NULL
    BY <2>3, CellFacts DEF CellOwners
  <2>5. o \in existing
    BY <2>4, CellKeeps
  <2> QED
    BY <2>1, <2>5, WaysKept, CellFacts DEF Values!Present
<1> QED
  BY <1>1, <1>2

\* The ways stay while what a call lets go of loses its owners.
LEMMA WaysStay ==
  ASSUME Values!ConstantsFit, ValuesInv, assignment.op # "none", assignment' = assignment,
         \A x \in ScriptObjects \cup Boxes :
             \A d \in CellOwners(x) : d # Values!Slot => d \in CellOwners(x)'
  PROVE  OnHeld' /\ FromHeld'
<1>1. Values!Slot = assignment.on \/ \E x \in Going : Values!Slot = Values!Within(x)
  BY AssignmentFacts DEF Values!Slot
<1>2. assignment.on \notin assignment.toOn
  BY DEF ValuesInv, OnHeld
<1>3. Values!Slot \notin assignment.toOn
  BY <1>1, <1>2, WaysKept
<1>4. assignment.op = "copy" /\ ~ThroughTarget => Values!Slot \notin assignment.toFrom
  BY <1>1, WaysKept DEF ThroughTarget
<1>5. ASSUME NEW c, NEW by, Values!Slot \notin by, WayHeld(c, by)
      PROVE  WayHeld(c, by)'
  <2>1. ASSUME NEW x \in ScriptObjects \cup Boxes, Values!Within(x) \in {c} \cup by
        PROVE  \E d \in CellOwners(x)' : d \in by
    <3>1. PICK d \in CellOwners(x) : d \in by
      BY <1>5, <2>1 DEF WayHeld
    <3>2. d \in CellOwners(x)'
      BY <1>5, <3>1
    <3> QED
      BY <3>1, <3>2
  <2> QED
    BY <2>1 DEF WayHeld
<1>6. OnHeld'
  <2>1. WayHeld(assignment.on, assignment.toOn)
    BY DEF ValuesInv, OnHeld
  <2>2. WayHeld(assignment.on, assignment.toOn)'
    <3>1. PICK c, by : c = assignment.on /\ by = assignment.toOn
      OBVIOUS
    <3>2. \A x \in ScriptObjects \cup Boxes :
              Values!Within(x) \in {c} \cup by => \E d \in CellOwners(x)' : d \in by
      BY <1>3, <1>5, <2>1, <3>1 DEF WayHeld
    <3> QED
      BY <3>1, <3>2 DEF WayHeld
  <2>3. assignment.on \in ScriptLocals \cup Values!Fields
    BY DEF ValuesInv, OnHeld
  <2> QED
    BY <1>2, <2>2, <2>3 DEF OnHeld
<1>7. FromHeld'
  <2>1. SUFFICES ASSUME assignment.op = "copy", ~ThroughTarget
                 PROVE  WayHeld(assignment.from, assignment.toFrom)'
    BY DEF FromHeld, ThroughTarget
  <2>2. WayHeld(assignment.from, assignment.toFrom)
    BY <2>1 DEF ValuesInv, FromHeld
  <2>3. PICK c, by : c = assignment.from /\ by = assignment.toFrom
    OBVIOUS
  <2>4. \A x \in ScriptObjects \cup Boxes :
            Values!Within(x) \in {c} \cup by => \E d \in CellOwners(x)' : d \in by
    BY <1>4, <1>5, <2>1, <2>2, <2>3 DEF WayHeld
  <2> QED
    BY <2>3, <2>4 DEF WayHeld
<1> QED
  BY <1>6, <1>7

LEMMA SlotCell ==
  ASSUME Values!ConstantsFit, ValuesInv, assignment.op # "none"
  PROVE  /\ Values!Slot \in Values!Cells /\ Values!Slot \in Values!Present
         /\ \A a : a # "blank" =>
               /\ Values!Slot \notin InFlux(a, ending, assignment.on)
               /\ InFlux("blank", ending, assignment.on) = InFlux(a, ending, assignment.on) \cup {Values!Slot}
         /\ stage # "blank" => Values!Slot \notin CellFlux
<1>1. PICK n : n = Len(ending)
  OBVIOUS
<1>2. /\ n \in Nat /\ (ending = <<>> <=> n = 0) /\ DOMAIN ending = 1..n
      /\ \A i \in DOMAIN ending : ending[i] \in Going
      /\ Going \subseteq ScriptObjects \cup Boxes /\ Going \subseteq existing
  BY <1>1, AssignmentFacts
<1>3. Values!Slot = IF ending = <<>> THEN assignment.on ELSE Values!Within(ending[n])
  BY <1>1 DEF Values!Slot, Values!Innermost
<1>4. ending \in Seq(ScriptObjects \cup Boxes)
  BY DEF ValuesInv, ValuesFit
<1>5. \A a :
          a # "blank" => InFlux("blank", ending, assignment.on) = InFlux(a, ending, assignment.on)
              \cup {Values!Slot}
  BY <1>1, <1>3, <1>4, FluxBlanked
<1>6. Values!Slot \in Values!Cells /\ Values!Slot \in Values!Present
  <2>1. \A x \in Going : Values!Within(x) \in Values!Present /\ Values!Within(x) \in Values!Cells
    BY <1>2, WithinFacts, CellFacts DEF Values!Present
  <2> QED
    BY <1>2, <1>3, <2>1, OnNotGoing
<1>7. ASSUME NEW a, a # "blank" PROVE Values!Slot \notin InFlux(a, ending, assignment.on)
  <2>1. CASE ending = <<>>
    <3>1. n = 0
      BY <1>2, <2>1
    <3>2. InFlux(a, ending, assignment.on) = {}
      BY <1>1, <1>7, <2>1, <3>1 DEF InFlux
    <3> QED
      BY <3>2
  <2>2. CASE ending # <<>>
    <3>1. n \in DOMAIN ending /\ \A i \in 1..(n - 1) : i \in DOMAIN ending /\ i # n
      BY <1>2, <2>2
    <3>2. \A i \in 1..(n - 1) : ending[i] # ending[n]
      BY <3>1 DEF ValuesInv, EndingFits
    <3>3. \A i \in 1..(n - 1) : Values!Within(ending[i]) # Values!Within(ending[n])
      BY <1>2, <3>1, <3>2, WithinFacts
    <3>4. Values!Within(ending[n]) # assignment.on
      BY <1>2, <3>1, OnNotGoing
    <3>5. InFlux(a, ending, assignment.on) = {assignment.on}
              \cup {Values!Within(ending[i]) : i \in 1..(n - 1)}
      BY <1>1, <1>7, <2>2 DEF InFlux
    <3> QED
      BY <1>3, <2>2, <3>3, <3>4, <3>5
  <2> QED
    BY <2>1, <2>2
<1> QED
  BY <1>5, <1>6, <1>7 DEF CellFlux

\* The users of an object.
LEMMA UsesFacts ==
  ASSUME Values!ConstantsFit, NEW x
  PROVE  /\ IsFiniteSet(CellOwners(x)) /\ Uses(x) \in Nat
         /\ Uses(x) = 0 <=> CellOwners(x) = {} /\ ~Pending(x)
         /\ \A c \in CellOwners(x) : Uses(x) = 1 => CellOwners(x) = {c} /\ ~Pending(x)
<1>1. IsFiniteSet(CellOwners(x))
  BY CellFacts, FS_Subset DEF CellOwners
<1>2. PICK n : n = Cardinality(CellOwners(x))
  OBVIOUS
<1>3. n \in Nat /\ (n = 0 <=> CellOwners(x) = {})
  BY <1>1, <1>2, FS_CardinalityType, FS_EmptySet
<1>4. Uses(x) = n + (IF Pending(x) THEN 1 ELSE 0)
  BY <1>2 DEF Uses
<1>5. ASSUME NEW c \in CellOwners(x), Uses(x) = 1 PROVE CellOwners(x) = {c} /\ ~Pending(x)
  <2>1. n = 1 /\ ~Pending(x)
    BY <1>3, <1>4, <1>5
  <2>2. CellOwners(x) = {c}
    <3>1. PICK y : CellOwners(x) = {y}
      BY <1>1, <1>2, <2>1, FS_Singleton
    <3> QED
      BY <1>5, <3>1
  <2> QED
    BY <2>1, <2>2
<1> QED
  BY <1>1, <1>3, <1>4, <1>5

LEMMA ObjectKept ==
  ASSUME NEW o \in ScriptObjects, RefFits(o), CellOwners(o)' = CellOwners(o), Pending(o)' <=> Pending(o),
         refs'[o] = refs[o], o \in existing' <=> o \in existing, o \in Going => o \in Going',
         leaked => leaked'
  PROVE  RefFits(o)'
<1>1. Uses(o)' = Uses(o)
  BY DEF Uses
<1> QED
  BY <1>1 DEF RefFits

LEMMA BoxKept ==
  ASSUME NEW b \in Boxes, BoxFits(b), CellOwners(b)' = CellOwners(b), Pending(b)' <=> Pending(b),
         cell'[b].type # "var", b \in existing' => b \in existing, b \in Going => b \in Going',
         leaked => leaked'
  PROVE  BoxFits(b)'
BY DEF BoxFits

-----------------------------------------------------------------------------
(***************************************************************************)
(* The steps.                                                              *)
(***************************************************************************)
\* reset() lets go of what the value owns.
LEMMA ResetStep ==
  ASSUME Values!ConstantsFit, ValuesInv, Values!StepReset
  PROVE  ValuesInv'
<1>1. PICK s : s = Values!Slot
  OBVIOUS
<1>2. PICK own : own = cell[s].val
  OBVIOUS
<1>3. /\ stage = "reset" /\ stage' \in {"reset", "blank"} /\ assignment' = assignment
      /\ cell' = cell /\ existing' = existing /\ leaked' = leaked /\ freed' = freed
  BY DEF Values!StepReset, Values!Do, Values!Go
<1>4. assignment.op # "none" /\ assignment.op' = assignment.op
  BY <1>3 DEF ValuesInv, AssignmentFits
<1>5. /\ s \in Values!Cells /\ s \notin CellFlux
      /\ InFlux("blank", ending, assignment.on) = CellFlux \cup {s}
  BY <1>1, <1>3, <1>4, SlotCell DEF CellFlux
<1>6. own \in ScriptObjects \cup Boxes \cup {NULL} /\ NULL \notin ScriptObjects \cup Boxes
          /\ ScriptObjects \cap Boxes = {}
  <2>1. cell[s] \in Contents
    BY <1>5 DEF ValuesInv, ValuesFit
  <2> QED
    BY <1>2, <2>1, ContentFacts, CellFacts
<1>7. own # NULL => own \in existing /\ own \notin Going /\ s \in CellOwners(own)
  BY <1>2, <1>5, CellKeeps
<1>8. /\ own \in ScriptObjects => cell[s].type = "ref"
      /\ own \in Boxes => cell[s].type = "var"
  BY <1>2, <1>5, <1>6, CellKeeps
<1>9. ending \in Seq(ScriptObjects \cup Boxes) /\ refs \in [ScriptObjects -> Nat]
  BY DEF ValuesInv, ValuesFit
<1>10. own \in ScriptObjects => refs[own] \in Nat /\ refs[own] >= Uses(own) /\ Uses(own) > 0
           /\ Uses(own) \in Nat
  <2>1. own \in ScriptObjects => RefFits(own)
    BY DEF ValuesInv
  <2>2. Uses(own) \in Nat /\ (Uses(own) = 0 <=> CellOwners(own) = {} /\ ~Pending(own))
    BY UsesFacts
  <2> QED
    BY <1>6, <1>7, <1>9, <2>1, <2>2 DEF RefFits
\* How the stack and the counts change.
<1>11. /\ own \in ScriptObjects => refs' = [refs EXCEPT ![own] = refs[own] - 1]
       /\ own \notin ScriptObjects => refs' = refs
       /\ refs' \in [ScriptObjects -> Nat]
  <2>1. own \in ScriptObjects => refs' = [refs EXCEPT ![own] = refs[own] - 1]
    BY <1>1, <1>2, <1>6, <1>8 DEF Values!StepReset
  <2>2. own \notin ScriptObjects => refs' = refs
    <3>1. own \notin ScriptObjects => cell[s].type # "ref" \/ own = NULL
      BY <1>6, <1>8
    <3> QED
      BY <1>1, <1>2, <3>1 DEF Values!StepReset
  <2>3. own \in ScriptObjects => refs[own] - 1 \in Nat
    BY <1>10
  <2> QED
    BY <1>9, <2>1, <2>2, <2>3
<1>12. \/ /\ (own \in ScriptObjects /\ refs[own] = 1) \/ own \in Boxes
          /\ ending' = Append(ending, own) /\ stage' = "reset"
       \/ /\ (own \in ScriptObjects /\ refs[own] # 1) \/ own = NULL
          /\ ending' = ending /\ stage' = "blank"
  <2>1. CASE own \in ScriptObjects /\ refs[own] = 1
    BY <1>1, <1>2, <1>6, <1>8, <2>1 DEF Values!StepReset, Values!Go
  <2>2. CASE own \in Boxes
    BY <1>1, <1>2, <1>6, <1>8, <2>2 DEF Values!StepReset, Values!Go
  <2>3. CASE own \in ScriptObjects /\ refs[own] # 1
    BY <1>1, <1>2, <1>6, <1>8, <2>3 DEF Values!StepReset, Values!Go
  <2>4. CASE own = NULL
    BY <1>1, <1>2, <1>6, <2>4 DEF Values!StepReset, Values!Go
  <2> QED
    BY <1>6, <2>1, <2>2, <2>3, <2>4
<1>13. CellFlux' = CellFlux \cup {s}
  <2>1. CASE ending' = ending /\ stage' = "blank"
    BY <1>3, <1>5, <2>1 DEF CellFlux
  <2>2. CASE own \in ScriptObjects \cup Boxes /\ ending' = Append(ending, own) /\ stage' = "reset"
    <3>1. InFlux("reset", Append(ending, own), assignment.on) = InFlux("blank", ending, assignment.on)
      BY <1>9, <2>2, FluxPushed
    <3> QED
      BY <1>3, <1>5, <2>2, <3>1 DEF CellFlux
  <2> QED
    BY <1>12, <2>1, <2>2
<1>14. \A x : CellOwners(x)' = CellOwners(x) \ {s} /\ (x # own => CellOwners(x)' = CellOwners(x))
  BY <1>2, <1>3, <1>13 DEF CellOwners
<1>15. \A x : Pending(x)' <=> Pending(x)
  BY <1>3 DEF Pending
<1>16. /\ ending' \in Seq(ScriptObjects \cup Boxes)
       /\ Going \subseteq Going'
       /\ \A x \in Going' : x \in Going \/ (x = own /\ stage' = "reset")
       /\ stage' = "reset" => own \in Going'
       /\ \A i, j \in DOMAIN ending' : ending'[i] = ending'[j] => i = j
  <2>1. CASE ending' = ending /\ stage' = "blank"
    BY <2>1, <1>9 DEF Going, ValuesInv, EndingFits
  <2>2. CASE own \in ScriptObjects \cup Boxes /\ ending' = Append(ending, own) /\ stage' = "reset"
    <3>1. PICK n : n = Len(ending)
      OBVIOUS
    <3>2. n \in Nat /\ DOMAIN ending = 1..n /\ \A i \in DOMAIN ending : ending[i] \in Going
      BY <3>1, AssignmentFacts
    <3>3. /\ ending' \in Seq(ScriptObjects \cup Boxes) /\ DOMAIN ending' = 1..(n + 1)
          /\ \A i \in 1..n : ending'[i] = ending[i]
          /\ ending'[n + 1] = own
      <4>1. /\ Append(ending, own) \in Seq(ScriptObjects \cup Boxes)
            /\ Len(Append(ending, own)) = Len(ending) + 1
            /\ \A i \in 1..Len(ending) : Append(ending, own)[i] = ending[i]
            /\ Append(ending, own)[Len(ending) + 1] = own
        BY <1>9, <2>2, AppendProperties
      <4> QED
        BY <2>2, <3>1, <3>2, <4>1, LenProperties
    <3>4. \A x \in Going' : x \in Going \/ x = own
      BY <3>2, <3>3 DEF Going
    <3>5. Going \subseteq Going' /\ own \in Going'
      <4>1. n + 1 \in DOMAIN ending' /\ \A i \in 1..n : i \in DOMAIN ending'
        BY <3>2, <3>3
      <4>2. \A x \in Going : \E i \in DOMAIN ending' : ending'[i] = x
        BY <3>2, <3>3, <4>1 DEF Going
      <4> QED
        BY <3>3, <4>1, <4>2 DEF Going
    <3>6. ASSUME NEW i \in DOMAIN ending', NEW j \in DOMAIN ending', ending'[i] = ending'[j] PROVE i = j
      <4>1. own \notin Going
        BY <1>6, <1>7, <2>2
      <4>2. \A k \in 1..n : ending'[k] # own
        BY <3>2, <3>3, <4>1
      <4>3. i \in 1..n /\ j \in 1..n => i = j
        BY <3>2, <3>3, <3>6 DEF ValuesInv, EndingFits
      <4>4. (i \in 1..n \/ i = n + 1) /\ (j \in 1..n \/ j = n + 1)
        BY <3>2, <3>3
      <4> QED
        BY <3>3, <3>6, <4>2, <4>3, <4>4
    <3> QED
      BY <2>2, <3>3, <3>4, <3>5, <3>6
  <2> QED
    BY <1>12, <2>1, <2>2
<1>17. ValuesFit'
  BY <1>3, <1>11, <1>16 DEF ValuesInv, ValuesFit
<1>18. AssignmentFits' /\ OnHeld' /\ FromHeld'
  <2>1. AssignmentFits'
    BY <1>3 DEF ValuesInv, AssignmentFits
  <2>2. OnHeld' /\ FromHeld'
    BY <1>1, <1>3, <1>4, <1>14, WaysStay
  <2> QED
    BY <2>1, <2>2
<1>19. stage' = "reset" => CellOwners(own)' = {} /\ ~Pending(own) /\ (own \in ScriptObjects => refs'[own] = 0)
  <2>1. CASE own \in ScriptObjects /\ refs[own] = 1
    <3>1. Uses(own) = 1
      BY <1>10, <2>1
    <3>2. CellOwners(own) = {s} /\ ~Pending(own)
      BY <1>6, <1>7, <2>1, <3>1, UsesFacts
    <3> QED
      BY <1>9, <1>11, <1>14, <2>1, <3>2
  <2>2. CASE own \in Boxes
    <3>1. BoxFits(own)
      BY <2>2 DEF ValuesInv
    <3> QED
      BY <1>6, <1>7, <1>14, <2>2, <3>1 DEF BoxFits
  <2> QED
    BY <1>6, <1>12, <2>1, <2>2
<1>20. EndingFits'
  <2>1. ASSUME NEW x \in Going'
        PROVE  x \in existing' /\ CellOwners(x)' = {} /\ ~Pending(x)' /\ (x \in ScriptObjects => refs'[x] = 0)
    <3>1. CASE x \in Going
      <4>1. x \in existing /\ CellOwners(x) = {} /\ ~Pending(x) /\ (x \in ScriptObjects => refs[x] = 0)
        BY <3>1 DEF ValuesInv, EndingFits
      <4>2. x \in ScriptObjects => refs'[x] = refs[x]
        <5>1. x # own \/ own \notin ScriptObjects
          BY <1>6, <1>7, <3>1
        <5> QED
          BY <1>9, <1>11, <5>1
      <4> QED
        BY <1>3, <1>14, <1>15, <4>1, <4>2
    <3>2. CASE x = own /\ stage' = "reset"
      <4>1. own # NULL
        BY <1>6, <1>12, <3>2
      <4> QED
        BY <1>3, <1>7, <1>15, <1>19, <3>2, <4>1
    <3> QED
      BY <1>16, <3>1, <3>2
  <2> QED
    BY <1>16, <2>1 DEF EndingFits
<1>21. NamedExist'
  BY <1>3, <1>13 DEF ValuesInv, NamedExist, Values!Present
<1>22. ASSUME NEW o \in ScriptObjects PROVE RefFits(o)'
  <2>1. CASE o # own
    BY <1>3, <1>9, <1>11, <1>14, <1>15, <1>16, <2>1, ObjectKept DEF ValuesInv
  <2>2. CASE o = own
    <3>1. RefFits(o) /\ o \in existing /\ refs'[o] = refs[o] - 1 /\ s \in CellOwners(o)
      BY <1>6, <1>7, <1>9, <1>11, <2>2 DEF ValuesInv
    <3>2. IsFiniteSet(CellOwners(o)) /\ CellOwners(o)' = CellOwners(o) \ {s}
      BY <1>14, UsesFacts
    <3>3. PICK k : k = Cardinality(CellOwners(o))
      OBVIOUS
    <3>4. k \in Nat /\ Cardinality(CellOwners(o)') = k - 1
      BY <3>1, <3>2, <3>3, FS_CardinalityType, FS_RemoveElement
    <3>5. Uses(o)' = Uses(o) - 1
      BY <1>15, <3>3, <3>4 DEF Uses
    <3>6. refs'[o] >= Uses(o)' /\ (leaked \/ refs'[o] = Uses(o)')
      BY <1>10, <2>2, <3>1, <3>5 DEF RefFits
    <3>7. refs'[o] = 0 => o \in Going'
      BY <1>6, <1>10, <1>12, <1>16, <2>2, <3>1
    <3> QED
      BY <1>3, <3>1, <3>6, <3>7 DEF RefFits
  <2> QED
    BY <2>1, <2>2
<1>23. ASSUME NEW b \in Boxes PROVE BoxFits(b)'
  <2>1. BoxFits(b)
    BY DEF ValuesInv
  <2>2. CASE b # own
    BY <1>3, <1>14, <1>15, <1>16, <2>1, <2>2, BoxKept DEF BoxFits
  <2>3. CASE b = own
    <3>1. stage' = "reset"
      BY <1>6, <1>12, <2>3
    <3> QED
      BY <1>3, <1>15, <1>16, <1>19, <2>1, <2>3, <3>1 DEF BoxFits
  <2> QED
    BY <2>2, <2>3
<1> QED
  BY <1>17, <1>18, <1>20, <1>21, <1>22, <1>23 DEF ValuesInv

\* The value is none: the variable is settled, and names nothing.
LEMMA BlankStep ==
  ASSUME Values!ConstantsFit, ValuesInv, Values!StepBlank
  PROVE  ValuesInv'
<1>1. PICK s : s = Values!Slot
  OBVIOUS
<1>2. /\ stage = "blank" /\ cell' = [cell EXCEPT ![s] = Values!None]
      /\ refs' = refs /\ existing' = existing /\ ending' = ending /\ leaked' = leaked /\ freed' = freed
      /\ stage' = IF ending # <<>> THEN "free" ELSE IF assignment.op = "reset" THEN "idle" ELSE assignment.op
      /\ assignment' = IF stage' = "idle" THEN Values!NoCall ELSE assignment
  BY <1>1 DEF Values!StepBlank, Values!Do, Values!Go
<1>3. assignment.op \in {"reset", "put", "copy"}
  BY <1>2 DEF ValuesInv, AssignmentFits
<1>4. /\ stage' \in {"idle", "put", "copy", "free"}
      /\ stage' = "idle" <=> ending = <<>> /\ assignment.op = "reset"
      /\ stage' = "free" <=> ending # <<>>
      /\ stage' = "idle" => assignment' = Values!NoCall
      /\ stage' # "idle" => assignment' = assignment
      /\ stage' \in {"put", "copy"} => assignment.op = stage' /\ ending = <<>>
  BY <1>2, <1>3
<1>5. /\ s \in Values!Cells /\ cell' \in [Values!Cells -> Contents] /\ cell'[s] = Values!None
      /\ \A c \in Values!Cells : c # s => cell'[c] = cell[c]
  BY <1>1, <1>2, <1>3, SlotCell, NamedValues DEF ValuesInv, ValuesFit
<1>6. CellFlux = CellFlux' \cup {s} /\ s \notin CellFlux'
  <2>1. CellFlux' = InFlux(stage', ending, assignment.on)
    <3>1. CASE stage' = "idle"
      <4>1. ending = <<>>
        BY <1>4, <3>1
      <4>2. Len(ending) = 0
        BY <4>1, AssignmentFacts
      <4> QED
        BY <1>2, <3>1, <4>1, <4>2 DEF CellFlux, InFlux
    <3>2. CASE stage' # "idle"
      BY <1>2, <1>4, <3>2 DEF CellFlux
    <3> QED
      BY <3>1, <3>2
  <2>2. stage' # "blank" /\ assignment.op # "none"
    BY <1>3, <1>4
  <2> QED
    BY <1>1, <1>2, <2>1, <2>2, SlotCell DEF CellFlux
<1>7. ASSUME NEW x, x # NULL
      PROVE  CellOwners(x)' = CellOwners(x) /\ (Pending(x)' <=> Pending(x))
  <2>1. CellOwners(x)' = CellOwners(x)
    BY <1>5, <1>6, <1>7, NamedValues DEF CellOwners
  <2>2. Pending(x)' <=> Pending(x)
    <3>1. CASE stage' = "idle"
      BY <1>4, <3>1 DEF Pending, Values!NoCall
    <3>2. CASE stage' # "idle"
      BY <1>4, <3>2 DEF Pending
    <3> QED
      BY <3>1, <3>2
  <2> QED
    BY <2>1, <2>2
<1>8. ValuesFit'
  <2>1. assignment'.put \in Contents
    BY <1>4, NamedValues DEF ValuesInv, ValuesFit, Values!NoCall
  <2> QED
    BY <1>2, <1>5, <2>1 DEF ValuesInv, ValuesFit
<1>9. assignment.op # "none" /\ (ending = <<>> => s = assignment.on)
          /\ (ending # <<>> => s \notin ScriptLocals)
  <2>1. ending # <<>> => s \notin ScriptLocals
    BY <1>1, AssignmentFacts, WithinFacts DEF Values!Slot
  <2> QED
    BY <1>1, <1>3, <2>1 DEF Values!Slot
<1>10. AssignmentFits'
  <2>1. assignment'.op \in {"none", "reset", "put", "copy"} /\ (stage' = "idle" <=> assignment'.op = "none")
    BY <1>3, <1>4 DEF Values!NoCall
  <2>2. stage' = "free" => ending' # <<>> /\ cell'[Values!Slot'] = Values!None
    BY <1>1, <1>2, <1>4, <1>5 DEF Values!Slot, Values!Innermost
  <2>3. stage' \in {"put", "copy"} => assignment'.op = stage' /\ cell'[assignment'.on] = Values!None
    BY <1>4, <1>5, <1>9
  <2>4. assignment'.op = "copy" => assignment'.from \in Values!Cells
    BY <1>4 DEF ValuesInv, AssignmentFits, Values!NoCall
  <2>5. stage' \in {"idle", "put", "copy"} => ending' = <<>>
    BY <1>2, <1>4
  <2> QED
    BY <1>4, <2>1, <2>2, <2>3, <2>4, <2>5 DEF AssignmentFits
<1>11. OnHeld' /\ FromHeld'
  <2>1. CASE stage' = "idle"
    BY <1>4, <2>1 DEF OnHeld, FromHeld, Values!NoCall
  <2>2. CASE stage' # "idle"
    <3>1. assignment' = assignment
      BY <1>4, <2>2
    <3>2. \A x \in ScriptObjects \cup Boxes : CellOwners(x)' = CellOwners(x)
      BY <1>7, CellFacts
    <3> QED
      BY <1>9, <3>1, <3>2, WaysStay
  <2> QED
    BY <2>1, <2>2
<1>12. EndingFits'
  <2>1. NULL \notin Going /\ Going' = Going
    BY <1>2, AssignmentFacts, CellFacts DEF Going
  <2> QED
    BY <1>2, <1>7, <2>1 DEF ValuesInv, EndingFits
<1>13. NamedExist'
  <2>1. Values!Present' = Values!Present
    BY <1>2 DEF Values!Present
  <2>2. \A c \in Values!Cells \ CellFlux' : cell'[c].val \in existing' \cup {NULL}
    BY <1>2, <1>5, <1>6, NamedValues DEF ValuesInv, NamedExist
  <2>3. assignment'.op = "put" => assignment'.put.val \in existing' \cup {NULL}
    BY <1>2, <1>4 DEF ValuesInv, NamedExist, Values!NoCall
  <2> QED
    BY <1>5, <2>1, <2>2, <2>3 DEF ValuesInv, NamedExist
<1>14. ASSUME NEW o \in ScriptObjects PROVE RefFits(o)'
  <2>1. o # NULL /\ Going' = Going
    BY <1>2, CellFacts DEF Going
  <2> QED
    BY <1>2, <1>7, <2>1, ObjectKept DEF ValuesInv
<1>15. ASSUME NEW b \in Boxes PROVE BoxFits(b)'
  <2>1. b # NULL /\ b \in Values!Cells /\ Going' = Going
    BY <1>2, CellFacts DEF Going
  <2>2. cell'[b].type # "var"
    BY <1>5, <2>1, NamedValues DEF ValuesInv, BoxFits
  <2> QED
    BY <1>2, <1>7, <2>1, <2>2, BoxKept DEF ValuesInv
<1> QED
  BY <1>8, <1>10, <1>11, <1>12, <1>13, <1>14, <1>15 DEF ValuesInv

\* The innermost object or box, which nobody names and whose variable is none,
\* is freed.
LEMMA FreedStep ==
  ASSUME Values!ConstantsFit, ValuesInv, Values!StepFree
  PROVE  ValuesInv'
<1>1. PICK g : g = Values!Innermost
  OBVIOUS
<1>2. /\ stage = "free" /\ stage' = "blank" /\ assignment' = assignment /\ cell' = cell /\ refs' = refs
      /\ existing' = existing \ {g} /\ ending' = SubSeq(ending, 1, Len(ending) - 1)
      /\ leaked' = leaked /\ freed' = freed
  BY <1>1 DEF Values!StepFree, Values!Do, Values!Go
<1>3. ending # <<>> /\ ending \in Seq(ScriptObjects \cup Boxes) /\ cell[Values!Slot] = Values!None
  BY <1>2 DEF ValuesInv, AssignmentFits, ValuesFit
<1>4. /\ g \in Going /\ g \in ScriptObjects \cup Boxes /\ Values!Slot = Values!Within(g)
      /\ CellOwners(g) = {} /\ ~Pending(g) /\ (g \in ScriptObjects => refs[g] = 0)
  BY <1>1, <1>3, AssignmentFacts DEF Values!Slot, ValuesInv, EndingFits
<1>5. PICK n : n = Len(ending)
  OBVIOUS
<1>6. /\ n \in Nat \ {0} /\ DOMAIN ending = 1..n /\ ending[n] = g
      /\ ending' \in Seq(ScriptObjects \cup Boxes) /\ DOMAIN ending' = 1..(n - 1)
      /\ \A i \in 1..(n - 1) : ending'[i] = ending[i]
  BY <1>1, <1>2, <1>3, <1>5, Shortened DEF Values!Innermost
<1>7. CellFlux' = CellFlux
  BY <1>2, <1>3, FluxPopped DEF CellFlux
<1>8. \A x : CellOwners(x)' = CellOwners(x) /\ (Pending(x)' <=> Pending(x))
  BY <1>2, <1>7 DEF CellOwners, Pending
<1>9. Going' = Going \ {g}
  <2>1. \A i \in 1..(n - 1) : i \in DOMAIN ending /\ ending'[i] # g
    <3>1. n \in DOMAIN ending /\ \A i \in 1..(n - 1) : i \in DOMAIN ending /\ i # n
      BY <1>6
    <3> QED
      BY <1>6, <3>1 DEF ValuesInv, EndingFits
  <2>2. Going' \subseteq Going \ {g}
    BY <1>6, <2>1 DEF Going
  <2>3. ASSUME NEW x \in Going, x # g PROVE x \in Going'
    <3>1. PICK i \in DOMAIN ending : ending[i] = x
      BY <2>3 DEF Going
    <3>2. i \in 1..(n - 1)
      BY <1>6, <2>3, <3>1
    <3> QED
      BY <1>6, <3>1, <3>2 DEF Going
  <2> QED
    BY <2>2, <2>3
<1>10. ValuesFit'
  BY <1>2, <1>6 DEF ValuesInv, ValuesFit
<1>11. AssignmentFits'
  BY <1>2 DEF ValuesInv, AssignmentFits
<1>12. OnHeld' /\ FromHeld'
  <2>1. assignment.op # "none"
    BY <1>2 DEF ValuesInv, AssignmentFits
  <2> QED
    BY <1>2, <1>8, <2>1, WaysStay
<1>13. EndingFits'
  <2>1. \A i, j \in DOMAIN ending' : ending'[i] = ending'[j] => i = j
    <3>1. \A i \in DOMAIN ending' : i \in DOMAIN ending /\ ending'[i] = ending[i]
      BY <1>6
    <3> QED
      BY <3>1 DEF ValuesInv, EndingFits
  <2> QED
    BY <1>2, <1>8, <1>9, <2>1 DEF ValuesInv, EndingFits
<1>14. NamedExist'
  <2>1. \A c \in Values!Cells \ CellFlux : cell[c].val # g
    BY <1>4 DEF CellOwners
  <2>2. assignment.op = "put" => assignment.put.val # g
    BY <1>4 DEF Pending
  <2>3. ASSUME NEW c \in Values!Cells, c \notin Values!Present' PROVE cell[c] = Values!None
    <3>1. CASE c \notin Values!Present
      BY <3>1 DEF ValuesInv, NamedExist
    <3>2. CASE c \in Values!Present
      <4>1. c \notin ScriptLocals
        BY <2>3 DEF Values!Present
      <4>2. CASE c \in Boxes /\ c \in existing
        <5>1. c = g
          BY <1>2, <2>3, <4>2 DEF Values!Present
        <5> QED
          BY <1>3, <1>4, <4>2, <5>1, WithinFacts
      <4>3. CASE \E o \in existing \cap ScriptObjects : c = Values!Field(o)
        <5>1. PICK o \in existing \cap ScriptObjects : c = Values!Field(o)
          BY <4>3
        <5>2. o = g
          BY <1>2, <2>3, <5>1 DEF Values!Present
        <5> QED
          BY <1>3, <1>4, <5>1, <5>2, WithinFacts
      <4> QED
        BY <3>2, <4>1, <4>2, <4>3 DEF Values!Present
    <3> QED
      BY <3>1, <3>2
  <2> QED
    BY <1>2, <1>7, <2>1, <2>2, <2>3 DEF ValuesInv, NamedExist
<1>15. ASSUME NEW o \in ScriptObjects PROVE RefFits(o)'
  <2>1. RefFits(o)
    BY DEF ValuesInv
  <2>2. CASE o # g
    <3>1. (o \in existing' <=> o \in existing) /\ (o \in Going => o \in Going')
      BY <1>2, <1>9, <2>2
    <3> QED
      BY <1>2, <1>8, <2>1, <3>1, ObjectKept
  <2>3. CASE o = g
    BY <1>2, <1>4, <2>3 DEF RefFits
  <2> QED
    BY <2>2, <2>3
<1>16. ASSUME NEW b \in Boxes PROVE BoxFits(b)'
  <2>1. BoxFits(b)
    BY DEF ValuesInv
  <2>2. CASE b # g
    <3>1. (b \in existing' => b \in existing) /\ (b \in Going => b \in Going') /\ cell'[b].type # "var"
      BY <1>2, <1>9, <2>1, <2>2 DEF BoxFits
    <3> QED
      BY <1>2, <1>8, <2>1, <3>1, BoxKept
  <2>3. CASE b = g
    BY <1>2, <1>8, <2>1, <2>3 DEF BoxFits
  <2> QED
    BY <2>2, <2>3
<1> QED
  BY <1>10, <1>11, <1>12, <1>13, <1>14, <1>15, <1>16 DEF ValuesInv

-----------------------------------------------------------------------------
(***************************************************************************)
(* A variable comes to refer to an object, or to own a box.                *)
(***************************************************************************)
LEMMA ObjectGained ==
  ASSUME Values!ConstantsFit,
         NEW o \in ScriptObjects, RefFits(o), refs[o] \in Nat, o \in existing, o \in existing',
         NEW c, c \notin CellOwners(o), CellOwners(o)' = CellOwners(o) \cup {c},
         \/ (Pending(o)' <=> Pending(o)) /\ refs'[o] = refs[o] + 1
         \/ Pending(o) /\ ~Pending(o)' /\ refs'[o] = refs[o],
         leaked => leaked', refs[o] # 0
  PROVE  RefFits(o)'
<1>1. IsFiniteSet(CellOwners(o)) /\ Uses(o) \in Nat
  BY UsesFacts
<1>2. PICK k : k = Cardinality(CellOwners(o))
  OBVIOUS
<1>3. k \in Nat /\ Cardinality(CellOwners(o)') = k + 1
  BY <1>1, <1>2, FS_CardinalityType, FS_AddElement
<1>4. /\ Uses(o) = k + (IF Pending(o) THEN 1 ELSE 0)
      /\ Uses(o)' = k + 1 + (IF Pending(o)' THEN 1 ELSE 0)
  BY <1>2, <1>3 DEF Uses
<1>5. refs[o] >= Uses(o) /\ (leaked \/ refs[o] = Uses(o))
  BY DEF RefFits
<1>6. refs'[o] >= Uses(o)' /\ (leaked \/ refs'[o] = Uses(o)')
  <2>1. CASE (Pending(o)' <=> Pending(o)) /\ refs'[o] = refs[o] + 1
    <3>1. Uses(o)' = Uses(o) + 1
      BY <1>3, <1>4, <2>1
    <3> QED
      BY <1>1, <1>5, <2>1, <3>1
  <2>2. CASE Pending(o) /\ ~Pending(o)' /\ refs'[o] = refs[o]
    <3>1. Uses(o)' = Uses(o)
      BY <1>3, <1>4, <2>2
    <3> QED
      BY <1>1, <1>5, <2>2, <3>1
  <2> QED
    BY <2>1, <2>2
<1>7. refs'[o] # 0
  OBVIOUS
<1> QED
  BY <1>6, <1>7 DEF RefFits

\* The value of the call is put into the variable it was for.
LEMMA PutStep ==
  ASSUME Values!ConstantsFit, ValuesInv, Values!StepPut
  PROVE  ValuesInv'
<1>1. PICK c, value : c = assignment.on /\ value = assignment.put
  OBVIOUS
<1>2. /\ stage = "put" /\ stage' = "idle" /\ assignment' = Values!NoCall /\ cell' = [cell EXCEPT ![c] = value]
      /\ refs' = refs /\ existing' = existing /\ ending' = ending /\ leaked' = leaked /\ freed' = freed
  BY <1>1 DEF Values!StepPut, Values!Do, Values!Go
<1>3. /\ assignment.op = "put" /\ ending = <<>> /\ cell[c] = Values!None /\ CellFlux = {}
      /\ refs \in [ScriptObjects -> Nat] /\ value \in Contents
  BY <1>1, <1>2, CellFluxWhere DEF ValuesInv, AssignmentFits, ValuesFit
<1>4. c \in Values!Cells /\ c \notin Boxes /\ c \in Values!Present
  BY <1>1, <1>3, OnNotGoing, AssignmentFacts, CellFacts DEF Values!Fields
<1>5. /\ cell' \in [Values!Cells -> Contents] /\ cell'[c] = value
      /\ \A d \in Values!Cells : d # c => cell'[d] = cell[d]
  BY <1>2, <1>3, <1>4 DEF ValuesInv, ValuesFit
<1>6. CellFlux' = {} /\ Going = {} /\ Going' = {}
  <2>1. DOMAIN ending = {} /\ Len(ending) = 0
    BY <1>3, AssignmentFacts
  <2> QED
    BY <1>2, <1>3, <2>1 DEF CellFlux, InFlux, Going
<1>7. \A x :
        /\ Pending(x) <=> x = value.val
        /\ ~Pending(x)'
        /\ x # NULL => c \notin CellOwners(x)
        /\ x # NULL /\ x # value.val => CellOwners(x)' = CellOwners(x)
        /\ x # NULL /\ x = value.val => CellOwners(x)' = CellOwners(x) \cup {c}
  <2>1. \A x : (Pending(x) <=> x = value.val) /\ ~Pending(x)'
    BY <1>1, <1>2, <1>3 DEF Pending, Values!NoCall
  <2>2. \A x : x # NULL => c \notin CellOwners(x)
    BY <1>3, NamedValues DEF CellOwners
  <2>3. ASSUME NEW x, x # NULL
        PROVE  CellOwners(x)' = IF x = value.val THEN CellOwners(x) \cup {c} ELSE CellOwners(x)
    BY <1>3, <1>4, <1>5, <1>6, <2>2, <2>3 DEF CellOwners
  <2> QED
    BY <2>1, <2>2, <2>3
<1>8. ValuesFit'
  BY <1>2, <1>3, <1>5, NamedValues DEF ValuesInv, ValuesFit, Values!NoCall
<1>9. AssignmentFits' /\ OnHeld' /\ FromHeld'
  <2>1. assignment'.op = "none"
    BY <1>2 DEF Values!NoCall
  <2> QED
    BY <1>2, <1>3, <2>1 DEF AssignmentFits, OnHeld, FromHeld
<1>10. EndingFits'
  <2>1. DOMAIN ending' = {}
    BY <1>2, <1>3, AssignmentFacts
  <2> QED
    BY <1>6, <2>1 DEF EndingFits
<1>11. NamedExist'
  <2>1. Values!Present' = Values!Present /\ assignment'.op = "none"
    BY <1>2 DEF Values!Present, Values!NoCall
  <2>2. value.val \in existing \cup {NULL}
    BY <1>1, <1>3 DEF ValuesInv, NamedExist
  <2> QED
    BY <1>2, <1>3, <1>4, <1>5, <1>6, <2>1, <2>2 DEF ValuesInv, NamedExist
<1>12. ASSUME NEW o \in ScriptObjects PROVE RefFits(o)'
  <2>1. RefFits(o) /\ o # NULL /\ refs[o] \in Nat
    BY <1>3, CellFacts DEF ValuesInv
  <2>2. CASE o # value.val
    BY <1>2, <1>6, <1>7, <2>1, <2>2, ObjectKept
  <2>3. CASE o = value.val
    <3>1. o \in existing /\ refs[o] # 0
      <4>1. o \in existing
        BY <1>1, <1>3, <2>1, <2>3 DEF ValuesInv, NamedExist
      <4> QED
        BY <1>6, <2>1, <4>1 DEF RefFits
    <3> QED
      BY <1>2, <1>7, <2>1, <2>3, <3>1, ObjectGained
  <2> QED
    BY <2>2, <2>3
<1>13. ASSUME NEW b \in Boxes PROVE BoxFits(b)'
  <2>1. BoxFits(b) /\ b # NULL /\ b \in Values!Cells /\ b # c
    BY <1>4, CellFacts DEF ValuesInv
  <2>2. cell'[b].type # "var"
    BY <1>5, <2>1 DEF BoxFits
  <2>3. CASE b # value.val
    BY <1>2, <1>6, <1>7, <2>1, <2>2, <2>3, BoxKept
  <2>4. CASE b = value.val
    <3>1. CellOwners(b)' = {c} /\ ~Pending(b)'
      BY <1>7, <2>1, <2>4 DEF BoxFits
    <3> QED
      BY <2>2, <3>1 DEF BoxFits
  <2> QED
    BY <2>3, <2>4
<1> QED
  BY <1>8, <1>9, <1>10, <1>11, <1>12, <1>13 DEF ValuesInv

LEMMA CountedFacts ==
  ASSUME Values!ConstantsFit, refs \in [ScriptObjects -> Nat], NEW value \in Contents
  PROVE  /\ Values!Counted(value) \in [ScriptObjects -> Nat]
         /\ \A o \in ScriptObjects : Values!Counted(value)[o] = IF o = value.val THEN refs[o] + 1 ELSE refs[o]
<1>1. CASE value.val \in ScriptObjects
  <2>1. Values!Counted(value) = [refs EXCEPT ![value.val] = refs[value.val] + 1]
    BY <1>1, ContentFacts DEF Values!Counted
  <2> QED
    BY <1>1, <2>1
<1>2. CASE value.val \notin ScriptObjects
  <2>1. Values!Counted(value) = refs
    BY <1>2, ContentFacts DEF Values!Counted
  <2> QED
    BY <1>2, <2>1
<1> QED
  BY <1>1, <1>2

\* A value that is not a box is copied into a variable that named nothing.
LEMMA ValueCopied ==
  ASSUME Values!ConstantsFit, ValuesInv, Going = {}, NEW w \in Contents, w.val \in existing \cup {NULL},
         refs' = Values!Counted(w), leaked' = leaked,
         \A o \in ScriptObjects : (o \in existing' <=> o \in existing) /\ (Pending(o)' <=> Pending(o)),
         NEW c,
         \A o \in ScriptObjects :
             c \notin CellOwners(o)
                 /\ CellOwners(o)' = IF o = w.val THEN CellOwners(o) \cup {c} ELSE CellOwners(o)
  PROVE  \A o \in ScriptObjects : RefFits(o)'
<1> SUFFICES ASSUME NEW o \in ScriptObjects PROVE RefFits(o)'
  OBVIOUS
<1>1. /\ RefFits(o) /\ o # NULL /\ refs[o] \in Nat /\ refs \in [ScriptObjects -> Nat]
      /\ refs'[o] = IF o = w.val THEN refs[o] + 1 ELSE refs[o]
  BY CountedFacts, CellFacts DEF ValuesInv, ValuesFit
<1>2. CASE o # w.val
  BY <1>1, <1>2, ObjectKept
<1>3. CASE o = w.val
  <2>1. o \in existing /\ o \in existing' /\ refs[o] # 0
    BY <1>1, <1>3 DEF RefFits
  <2> QED
    BY <1>1, <1>3, <2>1, ObjectGained
<1> QED
  BY <1>2, <1>3

\* Between calls, and when a value is put or copied, no variable is in flux.
LEMMA ValuesSettled ==
  ASSUME Values!ConstantsFit, ValuesInv, stage \in {"idle", "put", "copy"}
  PROVE  /\ CellFlux = {} /\ Going = {} /\ ending = <<>> /\ DOMAIN ending = {} /\ Len(ending) = 0
         /\ \A a, c : a # "blank" => InFlux(a, ending, c) = {}
         /\ \A c \in Values!Present : c \in Values!Cells
         /\ \A c \in Values!Cells :
              /\ cell[c] \in Contents
              /\ cell[c].val \in existing \cup {NULL}
              /\ cell[c].val # NULL => c \in Values!Present
<1>1. ending = <<>> /\ DOMAIN ending = {} /\ Len(ending) = 0 /\ CellFlux = {}
  BY AssignmentFacts, CellFluxWhere DEF ValuesInv, AssignmentFits
<1>2. Going = {} /\ \A a, c : a # "blank" => InFlux(a, ending, c) = {}
  BY <1>1 DEF Going, InFlux
<1>3. \A c \in Values!Present : c \in Values!Cells
  BY CellFacts DEF Values!Present
<1>4. \A c \in Values!Cells :
        /\ cell[c] \in Contents
        /\ cell[c].val \in existing \cup {NULL}
        /\ cell[c].val # NULL => c \in Values!Present
  BY <1>1, NamedValues DEF ValuesInv, NamedExist, ValuesFit
<1> QED
  BY <1>1, <1>2, <1>3, <1>4

\* copy(): a reference of its own, or a box of its own.
LEMMA CopyStep ==
  ASSUME Values!ConstantsFit, ValuesInv, Values!StepCopy
  PROVE  ValuesInv'
<1>1. PICK c, value : c = assignment.on /\ value = cell[assignment.from]
  OBVIOUS
<1>2. /\ stage = "copy" /\ stage' = "idle" /\ assignment' = Values!NoCall
             /\ assignment.from \in Values!Present
      /\ ending' = ending /\ leaked' = leaked /\ freed' = freed
  BY DEF Values!StepCopy, Values!Do, Values!Go
<1>3. /\ CellFlux = {} /\ Going = {} /\ DOMAIN ending = {} /\ Len(ending) = 0 /\ ending = <<>>
      /\ \A a, d : a # "blank" => InFlux(a, ending, d) = {}
      /\ \A d \in Values!Present : d \in Values!Cells
      /\ \A d \in Values!Cells :
           /\ cell[d] \in Contents
           /\ cell[d].val \in existing \cup {NULL}
           /\ cell[d].val # NULL => d \in Values!Present
  BY <1>2, ValuesSettled
<1>4. assignment.op = "copy" /\ cell[c] = Values!None
  BY <1>1, <1>2 DEF ValuesInv, AssignmentFits
<1>5. c \in Values!Cells /\ c \notin Boxes /\ c \in Values!Present
  BY <1>1, <1>4, OnNotGoing, AssignmentFacts, CellFacts DEF Values!Fields
<1>6. value \in Contents /\ value.val \in existing \cup {NULL}
  BY <1>1, <1>2, <1>3
<1>7. CellFlux' = {} /\ Going' = {} /\ DOMAIN ending' = {}
  <2>1. CellFlux' = InFlux("idle", ending, assignment'.on) /\ Going' = Going
    BY <1>2 DEF CellFlux, Going
  <2> QED
    BY <1>2, <1>3, <2>1
<1>8. \A x : ~Pending(x) /\ ~Pending(x)'
  BY <1>2, <1>4 DEF Pending, Values!NoCall
<1>9. AssignmentFits' /\ OnHeld' /\ FromHeld' /\ EndingFits'
  <2>1. assignment'.op = "none"
    BY <1>2 DEF Values!NoCall
  <2>2. AssignmentFits' /\ OnHeld' /\ FromHeld'
    BY <1>2, <1>3, <2>1 DEF AssignmentFits, OnHeld, FromHeld
  <2> QED
    BY <1>7, <2>2 DEF EndingFits
<1>10. refs \in [ScriptObjects -> Nat] /\ assignment'.put \in Contents /\ assignment'.op = "none"
  BY <1>2, NamedValues DEF ValuesInv, ValuesFit, Values!NoCall
<1>11. CASE value.type # "var" \/ value.val = NULL
  <2>1. /\ cell' = [cell EXCEPT ![c] = value] /\ refs' = Values!Counted(value) /\ existing' = existing
    BY <1>1, <1>11 DEF Values!StepCopy
  <2>2. /\ cell' \in [Values!Cells -> Contents] /\ cell'[c] = value
        /\ \A d \in Values!Cells : d # c => cell'[d] = cell[d]
    BY <1>5, <1>6, <2>1 DEF ValuesInv, ValuesFit
  <2>3. value.val \notin Boxes
    BY <1>6, <1>11, ContentFacts
  <2>4. ASSUME NEW x, x # NULL
        PROVE  c \notin CellOwners(x)
                   /\ CellOwners(x)' = IF x = value.val THEN CellOwners(x) \cup {c} ELSE CellOwners(x)
    BY <1>3, <1>4, <1>5, <1>7, <2>2, <2>4, NamedValues DEF CellOwners
  <2>5. ValuesFit'
    BY <1>2, <1>10, <2>1, <2>2, <1>6, CountedFacts DEF ValuesInv, ValuesFit
  <2>6. NamedExist'
    <3>1. Values!Present' = Values!Present
      BY <2>1 DEF Values!Present
    <3> QED
      BY <1>3, <1>5, <1>6, <1>7, <1>10, <2>1, <2>2, <3>1 DEF ValuesInv, NamedExist
  <2>7. \A o \in ScriptObjects : RefFits(o)'
    <3>1. \A o \in ScriptObjects :
              c \notin CellOwners(o)
                  /\ CellOwners(o)' = IF o = value.val THEN CellOwners(o) \cup {c} ELSE CellOwners(o)
      BY <2>4, CellFacts
    <3> QED
      BY <1>2, <1>3, <1>6, <1>8, <2>1, <3>1, ValueCopied
  <2>8. ASSUME NEW b \in Boxes PROVE BoxFits(b)'
    <3>1. BoxFits(b) /\ b # NULL /\ b \in Values!Cells /\ b # c /\ b # value.val
      BY <1>5, <2>3, CellFacts DEF ValuesInv
    <3>2. cell'[b].type # "var"
      BY <2>2, <3>1 DEF BoxFits
    <3> QED
      BY <1>2, <1>3, <1>8, <2>1, <2>4, <3>1, <3>2, BoxKept
  <2> QED
    BY <1>9, <2>5, <2>6, <2>7, <2>8 DEF ValuesInv
<1>12. CASE value.type = "var" /\ value.val # NULL
  <2>1. PICK w : w = cell[value.val]
    OBVIOUS
  <2>2. PICK b \in Boxes \ existing :
          /\ existing' = existing \cup {b}
          /\ cell' = [cell EXCEPT ![c] = Values!Var(b), ![b] = w]
          /\ refs' = Values!Counted(w)
    BY <1>1, <1>12, <2>1 DEF Values!StepCopy
  <2>3. value.val \in Boxes /\ value.val \in Values!Cells
    BY <1>6, <1>12, ContentFacts, CellFacts
  <2>4. w \in Contents /\ w.val \in existing \cup {NULL} /\ w.val \notin Boxes
    <3>1. w \in Contents /\ w.val \in existing \cup {NULL}
      BY <1>3, <2>1, <2>3
    <3>2. w.type # "var"
      BY <2>1, <2>3 DEF ValuesInv, BoxFits
    <3> QED
      BY <3>1, <3>2, ContentFacts
  <2>5. b \in Values!Cells /\ b # c /\ b \notin ScriptObjects /\ b # NULL /\ cell[b].val = NULL
    <3>1. b \in Values!Cells /\ b # c /\ b \notin ScriptObjects /\ b # NULL
      BY <1>5, CellFacts
    <3>2. b \notin Values!Present
      BY <2>2, CellFacts DEF Values!Present
    <3> QED
      BY <1>3, <3>1, <3>2
  <2>6. /\ cell' \in [Values!Cells -> Contents] /\ cell'[c] = Values!Var(b) /\ cell'[b] = w
        /\ \A d \in Values!Cells : d # c /\ d # b => cell'[d] = cell[d]
    <3>1. Values!Var(b) \in Contents
      BY NamedValues
    <3> QED
      BY <1>5, <2>2, <2>4, <2>5, <3>1 DEF ValuesInv, ValuesFit
  <2>7. cell'[c].val = b /\ CellOwners(b) = {}
    <3>1. cell'[c].val = b
      BY <2>6, NamedValues
    <3>2. \A d \in Values!Cells : cell[d].val # b
      BY <1>3, <2>2, <2>5
    <3> QED
      BY <3>1, <3>2 DEF CellOwners
  <2>8. ASSUME NEW x, x # NULL, x # b
        PROVE  b \notin CellOwners(x)
                   /\ CellOwners(x)' = IF x = w.val THEN CellOwners(x) \cup {b} ELSE CellOwners(x)
    BY <1>3, <1>4, <1>5, <1>7, <2>5, <2>6, <2>7, <2>8, NamedValues DEF CellOwners
  <2>9. CellOwners(b)' = {c}
    <3>1. w.val # b
      BY <2>4
    <3>2. \A d \in Values!Cells : cell[d].val # b
      BY <1>3, <2>2, <2>5
    <3> QED
      BY <1>5, <1>7, <2>5, <2>6, <2>7, <3>1, <3>2 DEF CellOwners
  <2>10. ValuesFit'
    <3>1. refs' \in [ScriptObjects -> Nat]
      BY <1>10, <2>2, <2>4, CountedFacts
    <3>2. existing' \subseteq ScriptObjects \cup Boxes
      BY <2>2 DEF ValuesInv, ValuesFit
    <3> QED
      BY <1>2, <1>10, <2>6, <3>1, <3>2 DEF ValuesInv, ValuesFit
  <2>11. NamedExist'
    <3>1. Values!Present' = Values!Present \cup {b}
      BY <2>2, <2>5 DEF Values!Present
    <3>2. ASSUME NEW d \in Values!Cells PROVE cell'[d].val \in existing' \cup {NULL}
      BY <1>3, <2>2, <2>4, <2>6, <2>7
    <3>3. ASSUME NEW d \in Values!Cells \ Values!Present' PROVE cell'[d] = Values!None
      BY <1>5, <2>6, <3>1 DEF ValuesInv, NamedExist
    <3> QED
      BY <1>10, <3>2, <3>3 DEF NamedExist
  <2>12. \A o \in ScriptObjects : RefFits(o)'
    <3>1. \A o \in ScriptObjects :
            /\ o \in existing' <=> o \in existing
            /\ b \notin CellOwners(o)
            /\ CellOwners(o)' = IF o = w.val THEN CellOwners(o) \cup {b} ELSE CellOwners(o)
      BY <2>2, <2>5, <2>8, CellFacts
    <3> QED
      BY <1>2, <1>3, <1>8, <2>2, <2>4, <3>1, ValueCopied
  <2>13. ASSUME NEW e \in Boxes PROVE BoxFits(e)'
    <3>1. BoxFits(e) /\ e # NULL /\ e \in Values!Cells /\ e # c /\ e # w.val
      BY <1>5, <2>4, CellFacts DEF ValuesInv
    <3>2. cell'[e].type # "var"
      <4>1. CASE e = b
        <5>1. w.type # "var"
          BY <2>1, <2>3 DEF ValuesInv, BoxFits
        <5> QED
          BY <2>6, <4>1, <5>1
      <4>2. CASE e # b
        BY <2>6, <3>1, <4>2 DEF BoxFits
      <4> QED
        BY <4>1, <4>2
    <3>3. CASE e = b
      BY <1>8, <2>9, <3>2, <3>3 DEF BoxFits
    <3>4. CASE e # b
      <4>1. e \in existing' => e \in existing
        BY <2>2, <3>4
      <4> QED
        BY <1>2, <1>3, <1>8, <2>8, <3>1, <3>2, <3>4, <4>1, BoxKept
    <3> QED
      BY <3>3, <3>4
  <2> QED
    BY <1>9, <2>10, <2>11, <2>12, <2>13 DEF ValuesInv
<1> QED
  BY <1>11, <1>12

-----------------------------------------------------------------------------
(***************************************************************************)
(* The calls.                                                              *)
(***************************************************************************)

\* The variables a program comes to exist, and so do those on the way.
LEMMA NamedCells ==
  ASSUME Values!ConstantsFit, ValuesInv, stage = "idle", NEW r \in Values!Readable
  PROVE  /\ r.to \in Values!Cells /\ r.to \in Values!Present /\ r.to \notin r.by
         /\ r.to \notin Boxes => r.to \in ScriptLocals \cup Values!Fields
         /\ WayHeld(r.to, r.by)
<1>1. PICK v \in ScriptLocals, trail \in Values!Trails :
          Values!Follows(v, trail) /\ r = Values!Route(v, trail)
  BY DEF Values!Readable
<1>2. PICK n \in Nat : trail \in [1..n -> ScriptObjects \cup Boxes]
  <2>1. PICK n \in 0..Cardinality(ScriptObjects \cup Boxes) : trail \in [1..n -> ScriptObjects \cup Boxes]
    BY SameCardinality DEF Values!Trails
  <2>2. IsFiniteSet(ScriptObjects \cup Boxes)
    BY SameCardinality, FS_Union DEF Values!ConstantsFit
  <2>3. Cardinality(ScriptObjects \cup Boxes) \in Nat
    BY <2>2, FS_CardinalityType
  <2>4. n \in Nat
    BY <2>3
  <2> QED
    BY <2>1, <2>4
<1>3. Len(trail) = n /\ DOMAIN trail = 1..n
  BY <1>2
<1> DEFINE S(i) == Values!Stop(v, trail, i)
<1>4. S(0) = v /\ \A i \in 1..n : S(i) = Values!Within(trail[i]) /\ trail[i] \in ScriptObjects \cup Boxes
  BY <1>2 DEF Values!Stop
<1>5. \A i \in 1..n : cell[S(i - 1)].val = trail[i]
  BY <1>1, <1>3 DEF Values!Follows
<1>6. r.to = S(n) /\ r.by = {S(i) : i \in 0..(n - 1)}
  BY <1>1, <1>3 DEF Values!Route
<1>7. \A i \in 0..n : i = 0 \/ i \in 1..n
  OBVIOUS
<1> HIDE DEF S
<1>8. \A i \in 0..n : S(i) \in Values!Cells
  BY <1>4, <1>7, WithinFacts, CellFacts
<1>9. \A i, j \in 0..n : S(i) = S(j) => i = j
  <2>1. \A i, j \in 1..n : trail[i] = trail[j] => i = j
    BY <1>3 DEF Values!Trails
  <2>2. \A x, y \in ScriptObjects \cup Boxes :
            Values!Within(x) # v /\ (Values!Within(x) = Values!Within(y) => x = y)
    BY WithinFacts
  <2>3. \A i \in 1..n : S(i) # S(0)
    BY <1>4, <2>2
  <2>4. \A i, j \in 1..n : S(i) = S(j) => i = j
    BY <1>4, <2>1, <2>2
  <2> QED
    BY <1>7, <2>3, <2>4
<1>10. ASSUME NEW i \in 1..n
       PROVE  trail[i] \in existing /\ S(i - 1) \in CellOwners(trail[i]) /\ S(i - 1) \in r.by
  <2>1. i - 1 \in 0..n /\ i - 1 \in 0..(n - 1)
    BY <1>2
  <2>2. S(i - 1) \in Values!Cells /\ cell[S(i - 1)].val = trail[i] /\ trail[i] # NULL
    BY <1>4, <1>5, <1>8, <2>1, CellFacts
  <2>3. S(i - 1) \notin CellFlux
    BY ValuesSettled
  <2> QED
    BY <1>6, <2>1, <2>2, <2>3, CellKeeps
<1>11. n \in 0..n /\ \A i \in 0..(n - 1) : i \in 0..n /\ i # n
  BY <1>2
<1>12. r.to \in Values!Cells /\ r.to \notin r.by
  BY <1>6, <1>8, <1>9, <1>11
<1>13. r.to \in Values!Present /\ (r.to \notin Boxes => r.to \in ScriptLocals \cup Values!Fields)
  <2>1. CASE n = 0
    BY <1>4, <1>6, <2>1 DEF Values!Present
  <2>2. CASE n # 0
    <3>1. PICK x : x = trail[n]
      OBVIOUS
    <3>2. n \in 1..n
      BY <1>2, <2>2
    <3>3. x \in existing /\ x \in ScriptObjects \cup Boxes /\ r.to = Values!Within(x)
      BY <1>4, <1>6, <1>10, <3>1, <3>2
    <3>4. CASE x \in ScriptObjects
      BY <3>3, <3>4, WithinFacts DEF Values!Present, Values!Fields
    <3>5. CASE x \in Boxes
      BY <3>3, <3>5, WithinFacts DEF Values!Present
    <3> QED
      BY <3>3, <3>4, <3>5
  <2> QED
    BY <2>1, <2>2
<1>14. ASSUME NEW x \in ScriptObjects \cup Boxes, Values!Within(x) \in {r.to} \cup r.by
       PROVE  \E d \in CellOwners(x) : d \in r.by
  <2>1. PICK i \in 0..n : Values!Within(x) = S(i)
    BY <1>6, <1>11, <1>14
  <2>2. i # 0
    BY <1>4, <2>1, WithinFacts
  <2>3. i \in 1..n /\ trail[i] = x
    BY <1>4, <1>7, <2>1, <2>2, WithinFacts
  <2> QED
    BY <1>10, <2>3
<1> QED
  BY <1>12, <1>13, <1>14 DEF WayHeld

\* A call begins: nothing is let go of yet.
LEMMA Begun ==
  ASSUME Values!ConstantsFit, ValuesInv, stage = "idle",
         NEW c \in Values!Writable, NEW op \in {"reset", "put", "copy"},
         NEW value \in Contents, NEW r \in Values!Readable, Values!Begin(c, op, value, r),
         \A d \in Values!Cells : cell[d].val # NULL => cell'[d] = cell[d]
  PROVE  /\ assignment.op = "none" /\ stage' = "reset"
         /\ assignment'.op = op /\ assignment'.put = value /\ assignment'.put \in Contents
         /\ ending' = <<>> /\ leaked' = leaked /\ freed' = freed
         /\ CellFlux' = {} /\ CellFlux = {} /\ Going = {}
         /\ \A x : ~Pending(x) /\ (Pending(x)' <=> op = "put" /\ x = value.val)
         /\ AssignmentFits' /\ OnHeld' /\ FromHeld' /\ EndingFits'
<1>1. /\ stage' = "reset" /\ ending' = ending /\ leaked' = leaked /\ freed' = freed
      /\ assignment' = [op |-> op, on |-> c.to, put |-> value, from |-> r.to,
                        toOn |-> c.by, toFrom |-> r.by]
  BY DEF Values!Begin
<1>2. /\ assignment'.op = op /\ assignment'.on = c.to /\ assignment'.put = value
      /\ assignment'.from = r.to /\ assignment'.put \in Contents
      /\ assignment'.toOn = c.by /\ assignment'.toFrom = r.by
  BY <1>1
<1>3. /\ CellFlux = {} /\ Going = {} /\ ending = <<>> /\ DOMAIN ending = {}
      /\ InFlux("reset", ending, c.to) = {}
  BY ValuesSettled
<1>4. CellFlux' = {} /\ Going' = {} /\ DOMAIN ending' = {}
  <2>1. CellFlux' = InFlux("reset", ending, c.to) /\ Going' = Going
    BY <1>1, <1>2 DEF CellFlux, Going
  <2> QED
    BY <1>1, <1>3, <2>1
<1>5. assignment.op = "none"
  BY DEF ValuesInv, AssignmentFits
<1>6. \A x : ~Pending(x) /\ (Pending(x)' <=> op = "put" /\ x = value.val)
  BY <1>2, <1>5 DEF Pending
<1>7. AssignmentFits'
  <2>1. r.to \in Values!Cells
    BY NamedCells
  <2> QED
    BY <1>1, <1>2, <1>3, <2>1 DEF AssignmentFits
<1>8. ASSUME NEW to, NEW by, WayHeld(to, by)
      PROVE  \A x \in ScriptObjects \cup Boxes :
                 Values!Within(x) \in {to} \cup by => \E d \in CellOwners(x)' : d \in by
  <2>1. ASSUME NEW x \in ScriptObjects \cup Boxes, NEW d \in CellOwners(x)
        PROVE  d \in CellOwners(x)'
    <3>1. d \in Values!Cells /\ cell[d].val = x /\ x # NULL
      BY CellFacts DEF CellOwners
    <3> QED
      BY <1>4, <3>1 DEF CellOwners
  <2> QED
    BY <1>8, <2>1 DEF WayHeld
<1>9. OnHeld'
  <2>1. c \in Values!Readable /\ c.to \notin Boxes
    BY DEF Values!Writable
  <2>2. c.to \in ScriptLocals \cup Values!Fields /\ c.to \notin c.by /\ WayHeld(c.to, c.by)
    BY <2>1, NamedCells
  <2>3. \A x \in ScriptObjects \cup Boxes :
            Values!Within(x) \in {c.to} \cup c.by => \E d \in CellOwners(x)' : d \in c.by
    BY <1>8, <2>2
  <2> QED
    BY <1>2, <2>2, <2>3 DEF OnHeld, WayHeld
<1>10. FromHeld'
  <2>1. \A x \in ScriptObjects \cup Boxes :
            Values!Within(x) \in {r.to} \cup r.by => \E d \in CellOwners(x)' : d \in r.by
    BY <1>8, NamedCells
  <2> QED
    BY <1>2, <2>1 DEF FromHeld, WayHeld
<1>11. EndingFits'
  BY <1>4 DEF EndingFits
<1> QED
  BY <1>1, <1>2, <1>3, <1>4, <1>5, <1>6, <1>7, <1>9, <1>10, <1>11

\* Calls that leave every variable and count as it is.
LEMMA PlainCall ==
  ASSUME Values!ConstantsFit, ValuesInv, stage = "idle", NEW c \in Values!Writable,
         \/ Values!Reset(c) \/ Values!AssignInt(c)
         \/ \E r \in Values!Readable : Values!CopyAssign(c, r)
  PROVE  ValuesInv'
<1>1. PICK op, value, r :
        /\ op \in {"reset", "put", "copy"} /\ value \in Contents
        /\ Values!Begin(c, op, value, r) /\ value.val = NULL
        /\ r \in Values!Readable
  <2>0. c \in Values!Readable
    BY DEF Values!Writable
  <2>1. CASE Values!Reset(c)
    BY <2>0, <2>1, NamedValues DEF Values!Reset
  <2>2. CASE Values!AssignInt(c)
    BY <2>0, <2>2, NamedValues DEF Values!AssignInt
  <2>3. CASE \E r \in Values!Readable : Values!CopyAssign(c, r)
    BY <2>3, NamedValues DEF Values!CopyAssign
  <2> QED
    BY <2>1, <2>2, <2>3
<1>2. cell' = cell /\ refs' = refs /\ existing' = existing
  BY DEF Values!Reset, Values!AssignInt, Values!CopyAssign
<1>3. /\ assignment'.op = op /\ assignment'.put = value /\ assignment'.put \in Contents
      /\ ending' = <<>> /\ leaked' = leaked /\ freed' = freed
      /\ CellFlux' = {} /\ CellFlux = {} /\ Going = {}
      /\ \A x : ~Pending(x) /\ (Pending(x)' <=> op = "put" /\ x = value.val)
      /\ AssignmentFits' /\ OnHeld' /\ FromHeld' /\ EndingFits'
  BY <1>1, <1>2, Begun
<1>4. \A x : CellOwners(x)' = CellOwners(x)
  BY <1>2, <1>3 DEF CellOwners
<1>5. ValuesFit'
  BY <1>2, <1>3, EmptySeq DEF ValuesInv, ValuesFit
<1>6. NamedExist'
  BY <1>1, <1>2, <1>3 DEF ValuesInv, NamedExist, Values!Present
<1>7. ASSUME NEW o \in ScriptObjects PROVE RefFits(o)'
  BY <1>1, <1>2, <1>3, <1>4, CellFacts, ObjectKept DEF ValuesInv
<1>8. ASSUME NEW b \in Boxes PROVE BoxFits(b)'
  <2>1. BoxFits(b) /\ b # NULL
    BY CellFacts DEF ValuesInv
  <2>2. cell'[b].type # "var"
    BY <1>2, <2>1 DEF BoxFits
  <2> QED
    BY <1>1, <1>2, <1>3, <1>4, <2>1, <2>2, BoxKept
<1> QED
  BY <1>3, <1>5, <1>6, <1>7, <1>8 DEF ValuesInv

\* The argument refers to the object from now on.
LEMMA ObjectCall ==
  ASSUME Values!ConstantsFit, ValuesInv, stage = "idle",
         NEW c \in Values!Writable, NEW q \in Values!Readable, Values!AssignObject(c, q)
  PROVE  ValuesInv'
<1>0. c \in Values!Readable
  BY DEF Values!Writable
<1>1. PICK o \in ScriptObjects :
        /\ Values!Begin(c, "put", Values!Ref(o), c)
        /\ existing' = existing \cup {o}
        /\ refs' = [refs EXCEPT ![o] = @ + 1]
        /\ cell' = cell
  BY DEF Values!AssignObject
<1>2. o \in ScriptObjects /\ o # NULL /\ o \notin Boxes /\ Values!Ref(o) \in Contents /\ Values!Ref(o).val = o
  BY CellFacts, NamedValues
<1>3. /\ assignment'.op = "put" /\ assignment'.put = Values!Ref(o)
             /\ assignment'.put \in Contents
      /\ ending' = <<>> /\ leaked' = leaked /\ freed' = freed
      /\ CellFlux' = {} /\ CellFlux = {} /\ Going = {}
      /\ \A x : ~Pending(x) /\ (Pending(x)' <=> x = o)
      /\ AssignmentFits' /\ OnHeld' /\ FromHeld' /\ EndingFits'
  <2>1. \A op : op = "put" => op \in {"reset", "put", "copy"} /\ op # "copy"
    OBVIOUS
  <2>2. PICK op \in {"reset", "put", "copy"} : op = "put"
    BY <2>1
  <2> QED
    BY <1>0, <1>1, <1>2, <2>2, Begun
<1>4. refs \in [ScriptObjects -> Nat] /\ existing \subseteq ScriptObjects \cup Boxes
  BY DEF ValuesInv, ValuesFit
<1>5. \A x : CellOwners(x)' = CellOwners(x)
  BY <1>1, <1>3 DEF CellOwners
<1>6. ValuesFit'
  <2>1. refs' \in [ScriptObjects -> Nat] /\ existing' \subseteq ScriptObjects \cup Boxes
    BY <1>1, <1>2, <1>4
  <2> QED
    BY <1>1, <1>3, <2>1, EmptySeq DEF ValuesInv, ValuesFit
<1>7. NamedExist'
  <2>1. Values!Present \subseteq Values!Present'
    BY <1>1 DEF Values!Present
  <2> QED
    BY <1>1, <1>2, <1>3, <2>1 DEF ValuesInv, NamedExist
<1>8. ASSUME NEW p \in ScriptObjects PROVE RefFits(p)'
  <2>1. RefFits(p) /\ refs[p] \in Nat
    BY <1>4 DEF ValuesInv
  <2>2. CASE p # o
    BY <1>1, <1>2, <1>3, <1>4, <1>5, <2>1, <2>2, ObjectKept
  <2>3. CASE p = o
    <3>1. refs'[p] = refs[p] + 1 /\ p \in existing'
      BY <1>1, <1>2, <1>4, <2>3
    <3>2. Uses(p)' = Uses(p) + 1 /\ Uses(p) \in Nat
      <4>1. PICK k : k = Cardinality(CellOwners(p))
        OBVIOUS
      <4>2. k \in Nat
        BY <4>1, UsesFacts, FS_CardinalityType
      <4> QED
        BY <1>3, <1>5, <2>3, <4>1, <4>2 DEF Uses
    <3>3. refs[p] >= Uses(p) /\ (leaked \/ refs[p] = Uses(p))
      <4>1. CASE p \in existing
        BY <2>1, <4>1 DEF RefFits
      <4>2. CASE p \notin existing
        <5>1. CellOwners(p) = {} /\ refs[p] = 0
          BY <1>2, <2>1, <2>3, <4>2 DEF RefFits, CellOwners, ValuesInv, NamedExist
        <5>2. Uses(p) = 0
          BY <1>3, <5>1, UsesFacts
        <5> QED
          BY <5>1, <5>2
      <4> QED
        BY <4>1, <4>2
    <3> QED
      BY <1>3, <2>1, <3>1, <3>2, <3>3 DEF RefFits
  <2> QED
    BY <2>2, <2>3
<1>9. ASSUME NEW b \in Boxes PROVE BoxFits(b)'
  <2>1. BoxFits(b) /\ b # o
    BY <1>2 DEF ValuesInv
  <2>2. cell'[b].type # "var" /\ (b \in existing' => b \in existing)
    BY <1>1, <2>1 DEF BoxFits
  <2> QED
    BY <1>3, <1>5, <2>1, <2>2, BoxKept
<1> QED
  BY <1>3, <1>6, <1>7, <1>8, <1>9 DEF ValuesInv

\* A box is made for the value of a variable.
LEMMA BoxCall ==
  ASSUME Values!ConstantsFit, ValuesInv, stage = "idle",
         NEW c \in Values!Writable, NEW q \in Values!Readable, Values!AssignBox(c, q)
  PROVE  ValuesInv'
<1>0. c \in Values!Readable
  BY DEF Values!Writable
<1>r. PICK r : r = q.to
  OBVIOUS
<1>1. PICK b \in Boxes \ existing :
        /\ r = q.to /\ cell[r].type # "var"
        /\ Values!Begin(c, "put", Values!Var(b), c)
        /\ existing' = existing \cup {b}
        /\ cell' = [cell EXCEPT ![b] = cell[r]]
        /\ refs' = Values!Counted(cell[r])
  BY <1>r DEF Values!AssignBox
<1>2. PICK w : w = cell[r]
  OBVIOUS
<1>3. r \in Values!Cells
  BY <1>1, NamedCells
<1>4. /\ \A d \in Values!Present : d \in Values!Cells
      /\ \A d \in Values!Cells : cell[d] \in Contents /\ cell[d].val \in existing \cup {NULL}
                          /\ (cell[d].val # NULL => d \in Values!Present)
  BY ValuesSettled
<1>5. w \in Contents /\ w.val \in existing \cup {NULL} /\ w.val \notin Boxes /\ w.type # "var"
  <2>1. w \in Contents /\ w.val \in existing \cup {NULL} /\ w.type # "var"
    BY <1>1, <1>2, <1>3, <1>4
  <2> QED
    BY <2>1, ContentFacts
<1>6. b \in Values!Cells /\ b \notin ScriptLocals /\ b \notin ScriptObjects /\ b # NULL
          /\ b \notin Values!Present
      /\ cell[b].val = NULL /\ Values!Var(b) \in Contents /\ Values!Var(b).val = b
  <2>1. b \in Values!Cells /\ b \notin ScriptLocals /\ b \notin ScriptObjects /\ b # NULL
            /\ Values!Var(b) \in Contents /\ Values!Var(b).val = b
    BY CellFacts, NamedValues
  <2>2. b \notin Values!Present
    BY <1>1, <2>1, CellFacts DEF Values!Present
  <2> QED
    BY <1>4, <2>1, <2>2
<1>7. /\ cell' \in [Values!Cells -> Contents] /\ cell'[b] = w
      /\ \A d \in Values!Cells : d # b => cell'[d] = cell[d]
  BY <1>1, <1>2, <1>5, <1>6 DEF ValuesInv, ValuesFit
<1>8. /\ assignment'.op = "put" /\ assignment'.put = Values!Var(b) /\ assignment'.put \in Contents
      /\ ending' = <<>> /\ leaked' = leaked /\ freed' = freed
      /\ CellFlux' = {} /\ CellFlux = {} /\ Going = {}
      /\ \A x : ~Pending(x) /\ (Pending(x)' <=> x = b)
      /\ AssignmentFits' /\ OnHeld' /\ FromHeld' /\ EndingFits'
  <2>1. \A op : op = "put" => op \in {"reset", "put", "copy"} /\ op # "copy"
    OBVIOUS
  <2>2. PICK op \in {"reset", "put", "copy"} : op = "put"
    BY <2>1
  <2>3. \A d \in Values!Cells : cell[d].val # NULL => cell'[d] = cell[d]
    BY <1>6, <1>7
  <2> QED
    BY <1>0, <1>1, <1>6, <2>2, <2>3, Begun
<1>9. ASSUME NEW x, x # NULL
      PROVE  b \notin CellOwners(x)
                 /\ CellOwners(x)' = IF x = w.val THEN CellOwners(x) \cup {b} ELSE CellOwners(x)
  BY <1>6, <1>7, <1>8, <1>9 DEF CellOwners
<1>10. ValuesFit'
  <2>1. refs' \in [ScriptObjects -> Nat] /\ existing' \subseteq ScriptObjects \cup Boxes
    BY <1>1, <1>2, <1>5, CountedFacts DEF ValuesInv, ValuesFit
  <2> QED
    BY <1>7, <1>8, <2>1, EmptySeq DEF ValuesInv, ValuesFit
<1>11. NamedExist'
  <2>1. Values!Present' = Values!Present \cup {b}
    BY <1>1, <1>6 DEF Values!Present
  <2>2. ASSUME NEW d \in Values!Cells PROVE cell'[d].val \in existing' \cup {NULL}
    BY <1>1, <1>4, <1>5, <1>7
  <2>3. ASSUME NEW d \in Values!Cells \ Values!Present' PROVE cell'[d] = Values!None
    BY <1>7, <2>1 DEF ValuesInv, NamedExist
  <2>4. assignment'.put.val \in existing'
    BY <1>1, <1>6, <1>8
  <2> QED
    BY <2>2, <2>3, <2>4 DEF NamedExist
<1>12. \A o \in ScriptObjects : RefFits(o)'
  <2>1. \A o \in ScriptObjects :
          /\ o \in existing' <=> o \in existing
          /\ Pending(o)' <=> Pending(o)
          /\ b \notin CellOwners(o)
          /\ CellOwners(o)' = IF o = w.val THEN CellOwners(o) \cup {b} ELSE CellOwners(o)
    BY <1>1, <1>6, <1>8, <1>9, CellFacts
  <2> QED
    BY <1>1, <1>2, <1>5, <1>8, <2>1, ValueCopied
<1>13. ASSUME NEW e \in Boxes PROVE BoxFits(e)'
  <2>1. BoxFits(e) /\ e # NULL /\ e \in Values!Cells /\ e # w.val
    BY <1>5, CellFacts DEF ValuesInv
  <2>2. cell'[e].type # "var" /\ CellOwners(e)' = CellOwners(e)
    BY <1>5, <1>7, <1>9, <2>1 DEF BoxFits
  <2>3. CASE e = b
    <3>1. CellOwners(e) = {}
      BY <1>1, <1>4, <1>6, <2>3 DEF CellOwners
    <3> QED
      BY <1>8, <2>2, <2>3, <3>1 DEF BoxFits
  <2>4. CASE e # b
    <3>1. (e \in existing' => e \in existing) /\ (Pending(e)' <=> Pending(e))
      BY <1>1, <1>8, <2>4
    <3> QED
      BY <1>8, <2>1, <2>2, <3>1, BoxKept
  <2> QED
    BY <2>3, <2>4
<1> QED
  BY <1>8, <1>10, <1>11, <1>12, <1>13 DEF ValuesInv

\* The value changes its variable; what the other one named loses an owner.
LEMMA MovedStep ==
  ASSUME Values!ConstantsFit, ValuesInv, stage = "idle",
         NEW to \in Values!Writable, NEW from \in Values!Readable, Values!MoveAssign(to, from)
  PROVE  ValuesInv'
<1>1. PICK c, r :
        /\ c = to.to /\ r = from.to /\ c # r /\ r \notin Boxes
        /\ cell' = [cell EXCEPT ![c] = cell[r], ![r] = [type |-> cell[r].type, val |-> NULL]]
  BY DEF Values!MoveAssign
<1>2. PICK w, old : w = cell[r] /\ old = cell[c].val
  OBVIOUS
<1>3. /\ stage = "idle" /\ stage' = stage /\ assignment' = assignment /\ ending' = ending /\ freed' = freed
      /\ refs' = refs /\ existing' = existing /\ leaked' = (leaked \/ old # NULL)
  BY <1>1, <1>2 DEF Values!MoveAssign
<1>4. /\ CellFlux = {} /\ Going = {}
      /\ \A d \in Values!Cells : cell[d] \in Contents /\ cell[d].val \in existing \cup {NULL}
                          /\ (cell[d].val # NULL => d \in Values!Present)
  BY <1>3, ValuesSettled
<1>5. /\ c \in Values!Cells /\ r \in Values!Cells /\ c # r /\ c \notin Boxes /\ r \notin Boxes
      /\ c \in Values!Present /\ r \in Values!Present
  <2>1. to \in Values!Readable /\ to.to \notin Boxes
    BY DEF Values!Writable
  <2> QED
    BY <1>1, <2>1, NamedCells
<1>6. w \in Contents /\ w.val \in existing \cup {NULL} /\ [type |-> w.type, val |-> NULL] \in Contents
  BY <1>2, <1>4, <1>5, ContentFacts
<1>7. /\ cell' \in [Values!Cells -> Contents] /\ cell'[c] = w /\ cell'[r].val = NULL
      /\ \A d \in Values!Cells : d # c /\ d # r => cell'[d] = cell[d]
  <2>1. cell' = [cell EXCEPT ![c] = w, ![r] = [type |-> w.type, val |-> NULL]]
    BY <1>1, <1>2
  <2>2. cell'[r] = [type |-> w.type, val |-> NULL]
    BY <1>5, <2>1 DEF ValuesInv, ValuesFit
  <2> QED
    BY <1>5, <1>6, <2>1, <2>2 DEF ValuesInv, ValuesFit
<1>8. CellFlux' = CellFlux /\ Going' = Going /\ Values!Present' = Values!Present /\ \A x :
          Pending(x)' <=> Pending(x)
  BY <1>3 DEF CellFlux, Going, Values!Present, Pending
<1>9. ASSUME NEW x, x # NULL
      PROVE  /\ x = w.val => r \in CellOwners(x) /\ CellOwners(x)' = (CellOwners(x) \ {r}) \cup {c}
             /\ x # w.val => CellOwners(x)' = CellOwners(x) \ {c}
             /\ x # old => c \notin CellOwners(x)
  <2>1. x = w.val => r \in CellOwners(x)
    BY <1>2, <1>4, <1>5 DEF CellOwners
  <2>2. x # old => c \notin CellOwners(x)
    BY <1>2 DEF CellOwners
  <2>3. x = w.val => CellOwners(x)' = (CellOwners(x) \ {r}) \cup {c}
    BY <1>4, <1>5, <1>7, <1>8, <1>9 DEF CellOwners
  <2>4. x # w.val => CellOwners(x)' = CellOwners(x) \ {c}
    BY <1>2, <1>4, <1>5, <1>7, <1>8, <1>9 DEF CellOwners
  <2> QED
    BY <2>1, <2>2, <2>3, <2>4
<1>10. ValuesFit'
  BY <1>3, <1>7 DEF ValuesInv, ValuesFit
<1>11. AssignmentFits' /\ OnHeld' /\ FromHeld'
  <2>1. assignment.op = "none"
    BY <1>3 DEF ValuesInv, AssignmentFits
  <2> QED
    BY <1>3, <2>1 DEF ValuesInv, AssignmentFits, OnHeld, FromHeld
<1>12. EndingFits'
  BY <1>3, <1>4, <1>8 DEF ValuesInv, EndingFits
<1>13. NamedExist'
  <2>1. ASSUME NEW d \in Values!Cells PROVE cell'[d].val \in existing' \cup {NULL}
    BY <1>3, <1>4, <1>5, <1>6, <1>7
  <2>2. ASSUME NEW d \in Values!Cells \ Values!Present PROVE cell'[d] = Values!None
    BY <1>5, <1>7 DEF ValuesInv, NamedExist
  <2> QED
    BY <1>3, <1>8, <2>1, <2>2 DEF ValuesInv, NamedExist
\* The number of owners does not grow, and stays when nothing was overwritten.
<1>14. ASSUME NEW o \in ScriptObjects PROVE RefFits(o)'
  <2>1. RefFits(o) /\ o # NULL /\ refs[o] \in Nat /\ IsFiniteSet(CellOwners(o))
    BY CellFacts, UsesFacts DEF ValuesInv, ValuesFit
  <2>2. PICK k : k = Cardinality(CellOwners(o))
    OBVIOUS
  <2>3. k \in Nat
    BY <2>1, <2>2, FS_CardinalityType
  <2>4. PICK m : m = Cardinality(CellOwners(o)')
    OBVIOUS
  <2>5. m \in Nat /\ m <= k /\ (o # old => m = k)
    <3>1. CASE o = w.val
      <4>1. IsFiniteSet(CellOwners(o) \ {r}) /\ Cardinality(CellOwners(o) \ {r}) = k - 1
        BY <1>9, <2>1, <2>2, <3>1, FS_RemoveElement
      <4>2. CASE c \in CellOwners(o)
        <5>1. CellOwners(o)' = CellOwners(o) \ {r}
          BY <1>5, <1>9, <2>1, <3>1, <4>2
        <5>2. o = old
          BY <1>9, <2>1, <4>2
        <5>3. m = k - 1 /\ m \in Nat
          BY <2>4, <4>1, <5>1, FS_CardinalityType
        <5> QED
          BY <2>3, <5>2, <5>3
      <4>3. CASE c \notin CellOwners(o)
        <5>1. CellOwners(o)' = (CellOwners(o) \ {r}) \cup {c} /\ c \notin CellOwners(o) \ {r}
          BY <1>9, <2>1, <3>1, <4>3
        <5>2. m = k - 1 + 1
          BY <2>4, <4>1, <5>1, FS_AddElement
        <5> QED
          BY <2>3, <5>2
      <4> QED
        BY <4>2, <4>3
    <3>2. CASE o # w.val
      <4>1. CellOwners(o)' = CellOwners(o) \ {c}
        BY <1>9, <2>1, <3>2
      <4>2. CASE c \in CellOwners(o)
        <5>1. m = k - 1 /\ IsFiniteSet(CellOwners(o) \ {c})
          BY <2>1, <2>2, <2>4, <4>1, <4>2, FS_RemoveElement
        <5>2. m \in Nat /\ o = old
          BY <1>9, <2>1, <2>4, <4>1, <4>2, <5>1, FS_CardinalityType
        <5> QED
          BY <2>3, <5>1, <5>2
      <4>3. CASE c \notin CellOwners(o)
        <5>1. CellOwners(o)' = CellOwners(o)
          BY <4>1, <4>3
        <5> QED
          BY <2>2, <2>3, <2>4, <5>1
      <4> QED
        BY <4>2, <4>3
    <3> QED
      BY <3>1, <3>2
  <2>6. Uses(o)' <= Uses(o) /\ (o # old => Uses(o)' = Uses(o)) /\ Uses(o) \in Nat /\ Uses(o)' \in Nat
    <3>1. /\ Uses(o) = k + (IF Pending(o) THEN 1 ELSE 0)
          /\ Uses(o)' = m + (IF Pending(o) THEN 1 ELSE 0)
      BY <1>8, <2>2, <2>4 DEF Uses
    <3> QED
      BY <2>3, <2>5, <3>1
  <2>7. o = old => leaked'
    BY <1>3, <2>1
  <2>8. CASE o \in existing
    <3>1. /\ refs[o] >= Uses(o) /\ (leaked \/ refs[o] = Uses(o)) /\ refs[o] # 0
          /\ refs'[o] = refs[o] /\ o \in existing'
      BY <1>3, <1>4, <2>1, <2>8 DEF RefFits
    <3>2. refs'[o] >= Uses(o)'
      BY <2>1, <2>6, <3>1
    <3>3. leaked' \/ refs'[o] = Uses(o)'
      BY <1>3, <2>6, <2>7, <3>1
    <3> QED
      BY <3>1, <3>2, <3>3 DEF RefFits
  <2>9. CASE o \notin existing
    BY <1>3, <2>1, <2>9 DEF RefFits
  <2> QED
    BY <2>8, <2>9
<1>15. ASSUME NEW b \in Boxes PROVE BoxFits(b)'
  <2>1. BoxFits(b) /\ b # NULL /\ b \in Values!Cells /\ b # c /\ b # r
    BY <1>5, CellFacts DEF ValuesInv
  <2>2. cell'[b].type # "var" /\ ~Pending(b)
    <3>1. assignment.op = "none"
      BY <1>3 DEF ValuesInv, AssignmentFits
    <3> QED
      BY <1>7, <2>1, <3>1 DEF BoxFits, Pending
  <2>3. CASE b = w.val
    <3>1. CellOwners(b)' = {c}
      BY <1>9, <2>1, <2>3 DEF BoxFits
    <3> QED
      BY <1>8, <2>2, <3>1 DEF BoxFits
  <2>4. CASE b # w.val
    <3>1. CellOwners(b)' = CellOwners(b) \ {c} /\ (b # old => CellOwners(b)' = CellOwners(b))
      BY <1>9, <2>1, <2>4
    <3>2. b = old => leaked'
      BY <1>3, <2>1
    <3> QED
      BY <1>3, <1>8, <2>1, <2>2, <3>1, <3>2 DEF BoxFits
  <2> QED
    BY <2>3, <2>4
<1> QED
  BY <1>10, <1>11, <1>12, <1>13, <1>14, <1>15 DEF ValuesInv

-----------------------------------------------------------------------------
(***************************************************************************)
(* The invariant.                                                          *)
(***************************************************************************)
LEMMA ValuesInvInit ==
  ASSUME Values!ConstantsFit, Values!Init
  PROVE  ValuesInv
<1>1. /\ cell = [d \in Values!Cells |-> Values!None] /\ refs = [o \in ScriptObjects |-> 0] /\ existing = {}
      /\ assignment = Values!NoCall /\ stage = "idle" /\ ending = <<>> /\ leaked = FALSE /\ freed = FALSE
  BY DEF Values!Init
<1>2. assignment.op = "none" /\ assignment.put \in Contents /\ DOMAIN ending = {}
          /\ \A d \in Values!Cells : cell[d] = Values!None
  BY <1>1, NamedValues DEF Values!NoCall
<1>3. ValuesFit
  BY <1>1, <1>2, NamedValues, EmptySeq DEF ValuesFit
<1>4. AssignmentFits /\ OnHeld /\ FromHeld
  BY <1>1, <1>2 DEF AssignmentFits, OnHeld, FromHeld
<1>5. EndingFits
  BY <1>2 DEF EndingFits, Going
<1>6. NamedExist
  BY <1>2, NamedValues DEF NamedExist
<1>7. ASSUME NEW x, x # NULL PROVE CellOwners(x) = {} /\ ~Pending(x)
  BY <1>2, <1>7, NamedValues DEF CellOwners, Pending
<1>8. ASSUME NEW o \in ScriptObjects PROVE RefFits(o)
  BY <1>1 DEF RefFits
<1>9. ASSUME NEW b \in Boxes PROVE BoxFits(b)
  <2>1. b # NULL /\ b \in Values!Cells
    BY CellFacts
  <2>2. cell[b].type # "var"
    BY <1>2, <2>1, NamedValues
  <2> QED
    BY <1>1, <1>7, <2>1, <2>2 DEF BoxFits
<1> QED
  BY <1>3, <1>4, <1>5, <1>6, <1>8, <1>9 DEF ValuesInv

LEMMA ValuesInvSame ==
  ASSUME ValuesInv,
         cell' = cell, refs' = refs, existing' = existing, assignment' = assignment, stage' = stage, ending' = ending,
         leaked' = leaked, freed' \in BOOLEAN
  PROVE  ValuesInv'
<1>1. CellFlux' = CellFlux /\ Going' = Going /\ Values!Present' = Values!Present
  BY DEF CellFlux, Going, Values!Present
<1>2. \A x : CellOwners(x)' = CellOwners(x) /\ (Pending(x)' <=> Pending(x)) /\ Uses(x)' = Uses(x)
  BY <1>1 DEF CellOwners, Pending, Uses
<1>3. ValuesFit' /\ AssignmentFits'
  <2>1. Values!Slot' = Values!Slot
    BY DEF Values!Slot, Values!Innermost
  <2> QED
    BY <2>1 DEF ValuesInv, ValuesFit, AssignmentFits
<1>4. OnHeld' /\ FromHeld'
  BY <1>2 DEF ValuesInv, OnHeld, FromHeld, ThroughTarget, WayHeld
<1>5. EndingFits' /\ NamedExist'
  BY <1>1, <1>2 DEF ValuesInv, EndingFits, NamedExist
<1>6. \A o \in ScriptObjects : RefFits(o)'
  BY <1>1, <1>2 DEF ValuesInv, RefFits
<1>7. \A b \in Boxes : BoxFits(b)'
  BY <1>1, <1>2 DEF ValuesInv, BoxFits
<1> QED
  BY <1>3, <1>4, <1>5, <1>6, <1>7 DEF ValuesInv

LEMMA ValuesInvNext ==
  ASSUME Values!ConstantsFit, ValuesInv, [Values!Next]_Values!valueVars
  PROVE  ValuesInv'
<1>1. CASE UNCHANGED Values!valueVars
  BY <1>1, ValuesInvSame DEF Values!valueVars, ValuesInv, ValuesFit
<1>2. CASE Values!StepCopyFreed
  BY <1>2, ValuesInvSame DEF Values!StepCopyFreed
<1>3. CASE Values!Do("idle") /\ \E c \in Values!Writable : Values!Reset(c) \/ Values!AssignInt(c)
  BY <1>3, PlainCall DEF Values!Do
<1>4. CASE Values!Do("idle") /\ \E c \in Values!Writable, r \in Values!Readable :
               \/ Values!AssignObject(c, r) \/ Values!AssignBox(c, r)
               \/ Values!CopyAssign(c, r) \/ Values!MoveAssign(c, r)
  BY <1>4, PlainCall, ObjectCall, BoxCall, MovedStep DEF Values!Do
<1> QED
  BY <1>1, <1>2, <1>3, <1>4, ResetStep, BlankStep, FreedStep, PutStep, CopyStep DEF Values!Next

LEMMA ValuesInvShows ==
  ASSUME Values!ConstantsFit, ValuesInv
  PROVE  Values!TypeOK /\ Values!VariablesBalanced /\ Values!FreedOnlyThroughTarget
<1>1. Values!TypeOK
  BY DEF ValuesInv, ValuesFit, Values!TypeOK, Contents
<1>2. ASSUME stage = "idle"
      PROVE  /\ \A c \in Values!Present : cell[c].val \in existing \cup {NULL}
             /\ \A o \in existing \cap ScriptObjects :
                  refs[o] >= Cardinality(Values!Holders(o)) /\ refs[o] > 0
                    /\ (leaked \/ refs[o] = Cardinality(Values!Holders(o)))
             /\ \A b \in existing \cap Boxes :
                  Cardinality(Values!Holders(b)) <= 1 /\ (leaked \/ Cardinality(Values!Holders(b)) = 1)
  <2>1. /\ CellFlux = {} /\ Going = {} /\ assignment.op = "none"
        /\ \A c \in Values!Present : c \in Values!Cells
        /\ \A c \in Values!Cells :
               cell[c].val \in existing \cup {NULL} /\ (cell[c].val # NULL => c \in Values!Present)
    BY <1>2, ValuesSettled DEF ValuesInv, AssignmentFits
  <2>2. \A x : ~Pending(x)
    BY <2>1 DEF Pending
  <2>3. ASSUME NEW x, x # NULL PROVE Values!Holders(x) = CellOwners(x)
    BY <2>1, <2>3 DEF Values!Holders, CellOwners
  <2>4. ASSUME NEW o \in existing \cap ScriptObjects
        PROVE  /\ refs[o] >= Cardinality(Values!Holders(o)) /\ refs[o] > 0
               /\ leaked \/ refs[o] = Cardinality(Values!Holders(o))
    <3>1. RefFits(o) /\ o # NULL /\ refs[o] \in Nat
      BY CellFacts DEF ValuesInv, ValuesFit
    <3>2. PICK k : k = Cardinality(Values!Holders(o))
      OBVIOUS
    <3>3. k = Uses(o) /\ Uses(o) \in Nat
      <4>1. k = Cardinality(CellOwners(o))
        BY <2>3, <3>1, <3>2
      <4>2. k \in Nat
        BY <4>1, UsesFacts, FS_CardinalityType
      <4> QED
        BY <2>2, <4>1, <4>2 DEF Uses
    <3> QED
      BY <2>1, <3>1, <3>2, <3>3 DEF RefFits
  <2>5. ASSUME NEW b \in existing \cap Boxes
        PROVE  Cardinality(Values!Holders(b)) <= 1 /\ (leaked \/ Cardinality(Values!Holders(b)) = 1)
    <3>1. BoxFits(b) /\ Values!Holders(b) = CellOwners(b)
      BY <2>3, CellFacts DEF ValuesInv
    <3>2. CASE CellOwners(b) = {}
      BY <2>1, <2>2, <3>1, <3>2, FS_EmptySet DEF BoxFits
    <3>3. CASE CellOwners(b) # {}
      <4>1. PICK c : CellOwners(b) = {c}
        BY <3>1, <3>3 DEF BoxFits
      <4> QED
        BY <3>1, <4>1, FS_Singleton
    <3> QED
      BY <3>2, <3>3
  <2> QED
    BY <2>1, <2>4, <2>5
<1>3. ASSUME stage = "copy", assignment.from \notin Values!Present, ~ThroughTarget PROVE FALSE
  <2>1. assignment.op = "copy" /\ assignment.from \in Values!Cells
    BY <1>3 DEF ValuesInv, AssignmentFits
  <2>2. PICK x \in ScriptObjects \cup Boxes : Values!Within(x) = assignment.from
    <3>1. assignment.from \in Boxes \/ assignment.from \in Values!Fields
      BY <1>3, <2>1 DEF Values!Present, Values!Cells
    <3> QED
      BY <3>1, WithinFacts DEF Values!Fields
  <2>3. PICK d \in CellOwners(x) : TRUE
    BY <1>3, <2>1, <2>2 DEF ValuesInv, FromHeld, WayHeld
  <2>4. d \in Values!Cells /\ d \notin CellFlux /\ cell[d].val = x /\ x # NULL
    BY <2>3, CellFacts DEF CellOwners
  <2>5. x \in existing
    BY <2>4, CellKeeps
  <2> QED
    BY <1>3, <2>2, <2>5, WithinFacts DEF Values!Present
<1>4. Values!VariablesBalanced
  BY <1>2, SameCardinality DEF Values!VariablesBalanced
<1>5. Values!FreedOnlyThroughTarget
  BY <1>3 DEF Values!FreedOnlyThroughTarget, ThroughTarget
<1> QED
  BY <1>1, <1>4, <1>5

-----------------------------------------------------------------------------
(***************************************************************************)
(* The parts together: a step of one leaves the others alone.              *)
(***************************************************************************)
OwnershipInv ==
    /\ subject = "pointers" => PointersInv
    /\ subject = "words" => WordsInv
    /\ subject = "values" => ValuesInv

LEMMA OwnershipInvInit ==
  ASSUME Init
  PROVE  OwnershipInv
<1>1. subject = "pointers" => PointersInit
  BY DEF Init
<1>2. subject = "words" => Words!Init
  BY DEF Init
<1>3. subject = "values" => Values!Init
  BY DEF Init
<1> QED
  BY <1>1, <1>2, <1>3, PointersInvInit, WordsInvInit, ValuesInvInit, OwnershipAssumption DEF OwnershipInv

LEMMA OwnershipInvNext ==
  ASSUME OwnershipInv, [Next]_vars
  PROVE  OwnershipInv'
<1>1. CASE PointersStep /\ UNCHANGED subject
  <2>1. PointersInv'
    BY <1>1, PointersInvNext, OwnershipAssumption DEF PointersStep, OwnershipInv
  <2> QED
    BY <1>1, <2>1 DEF PointersStep, OwnershipInv
<1>2. CASE WordsStep /\ UNCHANGED subject
  <2>1. WordsInv'
    BY <1>2, WordsInvNext, OwnershipAssumption DEF WordsStep, OwnershipInv
  <2> QED
    BY <1>2, <2>1 DEF WordsStep, OwnershipInv
<1>3. CASE ValuesStep /\ UNCHANGED subject
  <2>1. ValuesInv'
    BY <1>3, ValuesInvNext, OwnershipAssumption DEF ValuesStep, OwnershipInv
  <2> QED
    BY <1>3, <2>1 DEF ValuesStep, OwnershipInv
<1>4. CASE UNCHANGED vars
  <2>1. subject' = subject /\ UNCHANGED ptrVars /\ UNCHANGED Words!refVars /\ UNCHANGED Values!valueVars
    BY <1>4 DEF vars, wordVars, cellVars, Words!refVars, Values!valueVars
  <2>2. PointersInv => PointersInv'
    BY <2>1, PointersInvNext, OwnershipAssumption
  <2>3. WordsInv => WordsInv'
    BY <2>1, WordsInvNext, OwnershipAssumption
  <2>4. ValuesInv => ValuesInv'
    BY <2>1, ValuesInvNext, OwnershipAssumption
  <2> QED
    BY <2>1, <2>2, <2>3, <2>4 DEF OwnershipInv
<1> QED
  BY <1>1, <1>2, <1>3, <1>4 DEF Next

THEOREM OwnershipHolds == Spec => []OwnershipInv
<1>1. Init => OwnershipInv
  BY OwnershipInvInit
<1>2. OwnershipInv /\ [Next]_vars => OwnershipInv'
  BY OwnershipInvNext
<1> QED
  BY <1>1, <1>2, PTL DEF Spec

\* The types hold, no count wraps, and each count is the number of references:
\* no drop is lost between the threads and no compare-and-swap loop loses the
\* update of another.
THEOREM CountsStayExact == Spec => []CountsExact
<1>1. OwnershipInv => CountsExact
  BY WordsInvShows, OwnershipAssumption, PointersInvTyped DEF OwnershipInv, CountsExact
<1> QED
  BY <1>1, OwnershipHolds, PTL

\* Nothing is destroyed before its last reference goes, nothing twice, and
\* nothing is left without one.
THEOREM LastReferenceDestroys == Spec => []DiesWithLastReference
<1>1. OwnershipInv => DiesWithLastReference
  BY WordsInvShows, OwnershipAssumption, PointersInvLives DEF OwnershipInv, DiesWithLastReference
<1> QED
  BY <1>1, OwnershipHolds, PTL

\* A pointer's operator touches an object that is gone only while a pointer is
\* assigned from one the caller reached through it (p = p->next, p = p->next->next).
THEOREM FreedOnlyThroughSelf == Spec => []TouchesFreedOnlyThroughSelf
<1>1. OwnershipInv => TouchesFreedOnlyThroughSelf
  BY OwnershipAssumption, PointersInvSelf DEF OwnershipInv, TouchesFreedOnlyThroughSelf
<1> QED
  BY <1>1, OwnershipHolds, PTL

\* What the variables name exists, counts are not below the references, boxes
\* have one owner, and both are exact until a move overwrites a value; memory
\* that is gone is read only where a variable is assigned from one the program
\* reached through it, over any number of objects and boxes.
THEOREM VariablesStayBalanced == Spec => []VariablesBalanced
<1>1. OwnershipInv => VariablesBalanced
  BY OwnershipAssumption, ValuesInvShows DEF OwnershipInv, VariablesBalanced
<1> QED
  BY <1>1, OwnershipHolds, PTL
=============================================================================
