---------------------------- MODULE SmartPointers ----------------------------
(***************************************************************************)
(* The intrusive smart pointers: BSTSmartPointer and NiPointer             *)
(* ("bethesda"), and Scaleform::Ptr.  An operation on a pointer is a       *)
(* series of accesses, each of them a step: drop the old object's count,   *)
(* clear the pointer, read the right-hand side, raise the new object's     *)
(* count.  The drop that finds a count of one runs the object's            *)
(* destructor, which detaches the object's own pointer first, so that one  *)
(* assignment may free a chain.                                            *)
(*                                                                         *)
(* A pointer is not safe against itself: callers never change a pointer    *)
(* that another thread uses, be it as an operand or on its way to one.     *)
(* They reach a pointer inside an object by following pointers from one of *)
(* their own (p->next->next).  Counts are shared by every thread.          *)
(***************************************************************************)
EXTENDS Naturals, Sequences, FiniteSets

CONSTANTS
    Users,      \* Users[l]: the threads that use the pointers of a library l
    LocalsOf,   \* LocalsOf[t]: the smart pointers a thread has of its own
    Objects,    \* the objects the program ever makes
    Root,       \* the object every thread refers to when the program starts
    NULL

Libraries == DOMAIN Users
Threads == UNION {Users[l] : l \in Libraries}

\* The pointer inside an object.
Member(o) == <<o>>
Locals == UNION {LocalsOf[t] : t \in Threads}
Slots == Locals \cup {Member(o) : o \in Objects}

\* Counts that are not raised atomically are for one thread.
ConstantsFit ==
    /\ Libraries \subseteq {"bethesda", "scaleform"}
    /\ \A l \in Libraries : Users[l] # {}
    /\ "scaleform" \in Libraries => \A t, u \in Users["scaleform"] : t = u
    /\ IsFiniteSet(Threads)
    /\ \A t \in Threads : IsFiniteSet(LocalsOf[t]) /\ LocalsOf[t] # {}
    /\ \A t, u \in Threads : t # u => LocalsOf[t] \cap LocalsOf[u] = {}
    /\ \A o \in Objects : Member(o) \notin Locals
    /\ IsFiniteSet(Objects) /\ Root \in Objects
    /\ NULL \notin Objects /\ NULL \notin Slots

VARIABLES
    library,    \* the library the pointers are of
    ptr,        \* what each smart pointer refers to
    count,      \* refCount of each object
    alive,      \* the objects that exist
    made,       \* the objects made so far; none is made twice
    call,       \* the call each thread is in: its operands, the pointers it
                \* followed to each, the raw pointer it was passed
    at,         \* the access each thread's call makes next
    dying,      \* the objects it is destroying, the innermost last
    sum,        \* what it is to write back as a count
    undefined   \* freed memory was touched: nothing after it is specified

ptrVars == <<library, ptr, count, alive, made, call, at, dying, sum, undefined>>

NoCall == [op |-> "none", lhs |-> NULL, rhs |-> NULL, toLhs |-> {}, toRhs |-> {}, raw |-> NULL]

\* Every thread starts with one pointer to the root.
FirstOf(t) == CHOOSE p \in LocalsOf[t] : TRUE

PointersInit ==
    /\ library \in Libraries
    /\ ptr = [s \in Slots |-> IF \E t \in Users[library] : s = FirstOf(t) THEN Root ELSE NULL]
    /\ count = [o \in Objects |-> IF o = Root THEN Cardinality(Users[library]) ELSE 0]
    /\ alive = {Root}
    /\ made = {Root}
    /\ call = [t \in Threads |-> NoCall]
    /\ at = [t \in Threads |-> "idle"]
    /\ dying = [t \in Threads |-> <<>>]
    /\ sum = [t \in Threads |-> 0]
    /\ undefined = FALSE
-----------------------------------------------------------------------------
(***************************************************************************)
(* The calls.                                                              *)
(***************************************************************************)

\* The pointers a call works on, those it may change, and those it relies on.
Operands(t) == {call[t].lhs, call[t].rhs}
Changed(t) == IF call[t].op = "move" THEN Operands(t) ELSE {call[t].lhs}
Named(t) == Operands(t) \cup call[t].toLhs \cup call[t].toRhs

\* A route to a pointer goes from a pointer p through the objects of a trail, each
\* referred to by the pointer before; one that comes back to an object has a shorter one.
Trails == {trail \in UNION {[1..n -> Objects] : n \in 0..Cardinality(Objects)} :
               \A i, j \in DOMAIN trail : trail[i] = trail[j] => i = j}
Stop(p, trail, i) == IF i = 0 THEN p ELSE Member(trail[i])
Follows(p, trail) == \A i \in DOMAIN trail : ptr[Stop(p, trail, i - 1)] = trail[i]
Route(p, trail) == [to |-> Stop(p, trail, Len(trail)),
                    by |-> {Stop(p, trail, i) : i \in 0..(Len(trail) - 1)}]

\* The routes of t over pointers that no other thread is changing.
Usable(t) ==
    {route \in {Route(x[1], x[2]) : x \in {y \in LocalsOf[t] \X Trails : Follows(y[1], y[2])}} :
        \A u \in Threads \ {t} : (route.by \cup {route.to}) \cap Changed(u) = {}}

\* Those to a pointer it may change.
Changeable(t) == {route \in Usable(t) : \A u \in Threads \ {t} : route.to \notin Named(u)}

Begin(t, op, l, r, raw) ==
    /\ at[t] = "idle" /\ ~undefined
    /\ call' = [call EXCEPT ![t] = [op |-> op, lhs |-> l.to, rhs |-> r.to,
                                    toLhs |-> l.by, toRhs |-> r.by, raw |-> raw]]
    /\ at' = [at EXCEPT ![t] = IF op = "make" THEN "attach" ELSE "detach"]
    /\ UNCHANGED <<library, dying, sum, undefined>>

\* make_smart<T>() into a pointer that is null, and Scaleform's make_shared,
\* whose object starts with a count of one.
Make(t) ==
    \E l \in Changeable(t), o \in Objects \ made :
        /\ ptr[l.to] = NULL
        /\ Begin(t, "make", l, l, o)
        /\ ptr' = [ptr EXCEPT ![l.to] = o]
        /\ count' = [count EXCEPT ![o] = IF library = "scaleform" THEN 1 ELSE 0]
        /\ alive' = alive \cup {o}
        /\ made' = made \cup {o}

Assign(t, op, l, r, raw) == Begin(t, op, l, r, raw) /\ UNCHANGED <<ptr, count, alive, made>>

\* operator=(const BSTSmartPointer&), the copy constructor when the left-hand
\* side is null.
Copy(t) == \E l \in Changeable(t), r \in Usable(t) : l.to # r.to /\ Assign(t, "copy", l, r, NULL)

\* operator=(BSTSmartPointer&&), the move constructor.
Move(t) == \E l, r \in Changeable(t) : l.to # r.to /\ Assign(t, "move", l, r, NULL)

\* reset(a_ptr): the raw pointer was read before the call.
ResetTo(t) ==
    \E l \in Changeable(t), r \in Usable(t) :
        ptr[l.to] # ptr[r.to] /\ Assign(t, "reset to", l, r, ptr[r.to])

\* reset(), the destructor.
Reset(t) == \E l \in Changeable(t) : ptr[l.to] # NULL /\ Assign(t, "reset", l, l, NULL)
-----------------------------------------------------------------------------
(***************************************************************************)
(* The accesses.                                                           *)
(***************************************************************************)

\* The threads that are destroying an object.
Destroyers(o) == {t \in Threads : \E i \in DOMAIN dying[t] : dying[t][i] = o}
Innermost(t) == dying[t][Len(dying[t])]

\* The objects an access is of: those its operands are in, and the one whose
\* count is raised.
Touched(t) ==
    {o \in Objects :
        \/ Member(o) = call[t].lhs
        \/ Member(o) = call[t].rhs /\ at[t] \in {"load", "clear"}
        \/ at[t] \in {"attach", "write"} /\ o = ptr[call[t].lhs]}

\* The access is of an object that is gone or going, or a destructor's of a pointer
\* that another thread is working on.
Bad(t) ==
    \/ \E o \in Touched(t) : o \notin alive \/ Destroyers(o) # {}
    \/ /\ at[t] = "detach" /\ dying[t] # <<>>
       /\ \E u \in Threads \ {t} : Member(Innermost(t)) \in Operands(u)

Doing(t, what) == ~undefined /\ at[t] = what /\ ~Bad(t)

Go(t, next) ==
    /\ at' = [at EXCEPT ![t] = next]
    /\ call' = IF next = "idle" THEN [call EXCEPT ![t] = NoCall] ELSE call
    /\ UNCHANGED <<library, made, undefined>>

\* Mutants: the object is destroyed with the last reference but one; it is never
\* destroyed, the old count being tested for zero.
DropEarly(t, o, next) ==
    /\ count' = [count EXCEPT ![o] = @ - 1]
    /\ dying' = IF count[o] = 2 THEN [dying EXCEPT ![t] = Append(@, o)] ELSE dying
    /\ Go(t, IF count[o] = 2 THEN "detach" ELSE next)
    /\ UNCHANGED <<ptr, alive, sum>>

DropTestsOldCount(t, o, next) ==
    /\ count' = [count EXCEPT ![o] = @ - 1]
    /\ dying' = IF count[o] = 0 THEN [dying EXCEPT ![t] = Append(@, o)] ELSE dying
    /\ Go(t, IF count[o] = 0 THEN "detach" ELSE next)
    /\ UNCHANGED <<ptr, alive, sum>>

\* Release: the drop and the test of its result are one atomic operation.
Drop(t, o, next) ==
    /\ count' = [count EXCEPT ![o] = @ - 1]
    /\ dying' = IF count[o] = 1 THEN [dying EXCEPT ![t] = Append(@, o)] ELSE dying
    /\ Go(t, IF count[o] = 1 THEN "detach" ELSE next)
    /\ UNCHANGED <<ptr, alive, sum>>

\* The pointer being detached: the operand, or the one of the object that is
\* being destroyed.
Slot(t) == IF dying[t] = <<>> THEN call[t].lhs ELSE Member(Innermost(t))

\* What follows when it is null.
Emptied(t) ==
    CASE dying[t] # <<>> -> "free"
      [] dying[t] = <<>> /\ call[t].op \in {"copy", "move"} -> "load"
      [] dying[t] = <<>> /\ call[t].op = "reset to" -> "store"
      [] OTHER -> "idle"

SetPtr(s, o) == ptr' = [ptr EXCEPT ![s] = o] /\ UNCHANGED <<count, alive, dying, sum>>

\* TryDetach.
Detach(t) ==
    /\ Doing(t, "detach")
    /\ \/ /\ ptr[Slot(t)] = NULL
          /\ Go(t, Emptied(t))
          /\ UNCHANGED <<ptr, count, alive, dying, sum>>
       \/ ptr[Slot(t)] # NULL /\ Drop(t, ptr[Slot(t)], "null")

Null(t) == Doing(t, "null") /\ SetPtr(Slot(t), NULL) /\ Go(t, Emptied(t))

\* The object is destroyed; what its pointer was dropped from comes next.
Free(t) ==
    /\ Doing(t, "free")
    /\ alive' = alive \ {Innermost(t)}
    /\ dying' = [dying EXCEPT ![t] = SubSeq(@, 1, Len(@) - 1)]
    /\ Go(t, IF Len(dying[t]) = 1 /\ call[t].op = "make" THEN "idle" ELSE "null")
    /\ UNCHANGED <<ptr, count, sum>>

Load(t) ==
    /\ Doing(t, "load")
    /\ SetPtr(call[t].lhs, ptr[call[t].rhs])
    /\ Go(t, IF call[t].op = "move" THEN "clear" ELSE "attach")

Store(t) == Doing(t, "store") /\ SetPtr(call[t].lhs, call[t].raw) /\ Go(t, "attach")

Clear(t) == Doing(t, "clear") /\ SetPtr(call[t].rhs, NULL) /\ Go(t, "idle")

\* In make_shared the reference the constructor started with is dropped at last.
Attached(t) == IF call[t].op = "make" /\ library = "scaleform" THEN "release" ELSE "idle"

\* TryAttach.  Scaleform's AddRef reads the count and writes it back.
Attach(t) ==
    /\ Doing(t, "attach")
    /\ LET o == ptr[call[t].lhs]
       IN  \/ o = NULL /\ Go(t, Attached(t)) /\ UNCHANGED <<count, sum>>
           \/ /\ o # NULL /\ library = "bethesda"
              /\ count' = [count EXCEPT ![o] = @ + 1]
              /\ Go(t, Attached(t))
              /\ UNCHANGED sum
           \/ /\ o # NULL /\ library = "scaleform"
              /\ sum' = [sum EXCEPT ![t] = count[o] + 1]
              /\ Go(t, "write")
              /\ UNCHANGED count
    /\ UNCHANGED <<ptr, alive, dying>>

WriteBack(t) ==
    /\ Doing(t, "write")
    /\ count' = [count EXCEPT ![ptr[call[t].lhs]] = sum[t]]
    /\ sum' = [sum EXCEPT ![t] = 0]
    /\ Go(t, Attached(t))
    /\ UNCHANGED <<ptr, alive, dying>>

\* Ptr::Release in make_shared.
Release(t) == Doing(t, "release") /\ Drop(t, call[t].raw, "idle")

\* An access of an object that is gone.
Stale(t) ==
    /\ undefined \/ Bad(t)
    /\ undefined' = TRUE
    /\ UNCHANGED <<library, ptr, count, alive, made, call, at, dying, sum>>

PointersNext ==
    \E t \in Users[library] :
        \/ Make(t) \/ Copy(t) \/ Move(t) \/ ResetTo(t) \/ Reset(t)
        \/ Detach(t) \/ Null(t) \/ Free(t)
        \/ Load(t) \/ Store(t) \/ Clear(t)
        \/ Attach(t) \/ WriteBack(t) \/ Release(t)
        \/ Stale(t)

PointersSpec == PointersInit /\ [][PointersNext]_ptrVars
-----------------------------------------------------------------------------
\* The pointers a call is changing whose count has been dropped already, or has
\* still to be raised.
Dropped(t) ==
    LET last == IF at[t] = "null" THEN Len(dying[t]) ELSE Len(dying[t]) - 1
    IN  {s \in Slots : \/ last >= 0 /\ s = call[t].lhs
                       \/ \E i \in 1..last : s = Member(dying[t][i])}
Raised(t) ==
    {s \in Slots : \/ at[t] \in {"attach", "write"} /\ s = call[t].lhs
                   \/ at[t] = "clear" /\ s = call[t].rhs}
Settled(s) == \A t \in Threads : s \notin Dropped(t) \cup Raised(t)

\* The pointers that count for an object, and the references that make_shared has
\* still to drop.
Owners(o) == {s \in Slots : ptr[s] = o /\ Settled(s)}
Releasing(o) == {t \in Threads : library = "scaleform" /\ call[t].op = "make" /\ call[t].raw = o}

PointersTyped ==
    /\ library \in Libraries
    /\ ptr \in [Slots -> Objects \cup {NULL}]
    /\ count \in [Objects -> Nat]
    /\ alive \subseteq made /\ made \subseteq Objects
    /\ dying \in [Threads -> Seq(Objects)]
    /\ undefined \in BOOLEAN

\* The count of an object is the number of pointers to it whose count is settled
\* (and, in make_shared, the reference the constructor started with).
PointersCounted == \A o \in alive : count[o] = Cardinality(Owners(o)) + Cardinality(Releasing(o))

\* An object lives as long as a pointer refers to it and no longer: no pointer is
\* left to an object that is gone, one thread destroys it, and an object without
\* a count is being destroyed or about to get its first one.
LifetimeEndsWithPointers ==
    /\ \A s \in Slots : Settled(s) => ptr[s] \in alive \cup {NULL}
    /\ \A o \in Objects : Cardinality(Destroyers(o)) <= 1
    /\ \A o \in alive : count[o] = 0 =>
           Destroyers(o) # {} \/ \E t \in Threads : call[t].op = "make" /\ call[t].raw = o

\* The caller came to the right-hand side through the left-hand side: it is inside
\* an object that the old object keeps.
ThroughSelf(t) == call[t].lhs \in call[t].toRhs

\* However the threads interleave, an object that is gone is touched only when a
\* pointer is assigned from one that was reached through it (p = p->next,
\* p = p->next->next): operator= lets the old object go, and all that only it
\* kept, before it reads the right-hand side.
UndefinedOnlyThroughSelf == \A t \in Threads : Bad(t) => \E u \in Threads : ThroughSelf(u)
=============================================================================
