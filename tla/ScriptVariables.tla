--------------------------- MODULE ScriptVariables ---------------------------
(***************************************************************************)
(* The Papyrus values, BSScript::Variable: a type and a union.  Objects,   *)
(* structs, arrays and strings are held through counted pointers and are   *)
(* one kind of value here, "ref"; a kVar ("var") owns a Variable on the    *)
(* heap, its box; the rest own nothing and are one kind too, "int".  An    *)
(* object has a variable of its own, which its destructor resets.          *)
(*                                                                         *)
(* One thread works on the values.  An assignment is a series of steps:    *)
(* what the old value owns goes first, an object or a box after the value  *)
(* inside it, then the old value, and the new one is put or copied.        *)
(***************************************************************************)
EXTENDS Naturals, Sequences, FiniteSets

CONSTANTS
    Locals,     \* the variables of the program
    Objects,    \* the memory for objects
    Boxes,      \* the memory for kVar values
    NULL

\* The variable inside an object; a box is a variable itself.
Field(o) == <<o>>
Fields == {Field(o) : o \in Objects}
Cells == Locals \cup Fields \cup Boxes

ConstantsFit ==
    /\ IsFiniteSet(Locals) /\ IsFiniteSet(Objects) /\ IsFiniteSet(Boxes)
    /\ Objects \cap Boxes = {} /\ Locals \cap Boxes = {}
    /\ Fields \cap (Locals \cup Boxes) = {}
    /\ NULL \notin Cells \cup Objects

VARIABLES
    cell,       \* varType and value of each variable
    refs,       \* the count of each object
    existing,   \* the objects and boxes that exist
    assignment, \* the assignment being made: to which variable, of what value or
                \* from which variable, and the variables on the way to each
    stage,      \* the step the assignment makes next
    ending,     \* the objects and boxes it is destroying, the innermost last
    leaked,     \* a move has overwritten a value that owned something
    freed       \* a value in freed memory was read: nothing after it is specified

valueVars == <<cell, refs, existing, assignment, stage, ending, leaked, freed>>

None == [type |-> "none", val |-> NULL]
Number == [type |-> "int", val |-> NULL]
Ref(o) == [type |-> "ref", val |-> o]
Var(b) == [type |-> "var", val |-> b]

NoCall == [op |-> "none", on |-> NULL, put |-> None, from |-> NULL, toOn |-> {}, toFrom |-> {}]

Init ==
    /\ cell = [c \in Cells |-> None]
    /\ refs = [o \in Objects |-> 0]
    /\ existing = {}
    /\ assignment = NoCall
    /\ stage = "idle"
    /\ ending = <<>>
    /\ leaked = FALSE
    /\ freed = FALSE
-----------------------------------------------------------------------------
(***************************************************************************)
(* The calls.                                                              *)
(***************************************************************************)

\* The variables that exist.
Present == Locals \cup {c \in Boxes : c \in existing} \cup {Field(o) : o \in existing \cap Objects}

\* The variable inside an object or a box.
Within(x) == IF x \in Objects THEN Field(x) ELSE x

\* A program comes to a variable from one of its own, through the objects and boxes
\* of a trail (GetProperty, get<Object>, get<Variable>), each named by the variable
\* before; one that comes back to an object has a shorter one.
Trails == {trail \in UNION {[1..n -> Objects \cup Boxes] : n \in 0..Cardinality(Objects \cup Boxes)} :
               \A i, j \in DOMAIN trail : trail[i] = trail[j] => i = j}
Stop(v, trail, i) == IF i = 0 THEN v ELSE Within(trail[i])
Follows(v, trail) == \A i \in DOMAIN trail : cell[Stop(v, trail, i - 1)].val = trail[i]
Route(v, trail) == [to |-> Stop(v, trail, Len(trail)),
                    by |-> {Stop(v, trail, i) : i \in 0..(Len(trail) - 1)}]

\* A box is there to be read.
Readable == {Route(x[1], x[2]) : x \in {y \in Locals \X Trails : Follows(y[1], y[2])}}
Writable == {c \in Readable : c.to \notin Boxes}

\* r is the route to the variable that is copied; c itself if none is.
Begin(c, op, value, r) ==
    /\ assignment' = [op |-> op, on |-> c.to, put |-> value, from |-> r.to, toOn |-> c.by, toFrom |-> r.by]
    /\ stage' = "reset"
    /\ UNCHANGED <<ending, leaked, freed>>

\* reset(), operator=(std::nullptr_t).
Reset(c) == Begin(c, "reset", None, c) /\ UNCHANGED <<cell, refs, existing>>

\* operator=(std::uint32_t), of any type that owns nothing.
AssignInt(c) == Begin(c, "put", Number, c) /\ UNCHANGED <<cell, refs, existing>>

\* operator=(BSTSmartPointer<Object>), with a new object or the one that r refers
\* to: the argument is a reference of its own before the old value goes.
AssignObject(c, r) ==
    \E o \in Objects :
        /\ o \in existing => cell[r.to] = Ref(o)
        /\ Begin(c, "put", Ref(o), c)
        /\ existing' = existing \cup {o}
        /\ refs' = [refs EXCEPT ![o] = @ + 1]
        /\ UNCHANGED cell

\* What the copy constructor makes of a value that is not a kVar.
Counted(value) == IF value.type = "ref" /\ value.val # NULL
                  THEN [refs EXCEPT ![value.val] = @ + 1] ELSE refs

\* operator=(stl::owner<Variable*>) with new Variable(r).
AssignBox(c, r) ==
    \E b \in Boxes \ existing :
        /\ cell[r.to].type # "var"
        /\ Begin(c, "put", Var(b), c)
        /\ existing' = existing \cup {b}
        /\ cell' = [cell EXCEPT ![b] = cell[r.to]]
        /\ refs' = Counted(cell[r.to])

\* operator=(const Variable&).
CopyAssign(c, r) ==
    c.to # r.to /\ Begin(c, "copy", None, r) /\ UNCHANGED <<cell, refs, existing>>

\* operator=(Variable&&), defaulted: the type is copied and the pointer taken;
\* the old value is not reset.
MoveAssign(c, r) ==
    /\ c.to # r.to /\ r.to \notin Boxes
    /\ leaked => cell[c.to].val = NULL  \* bound: one value is overwritten
    /\ cell' = [cell EXCEPT ![c.to] = cell[r.to], ![r.to] = [type |-> cell[r.to].type, val |-> NULL]]
    /\ leaked' = (leaked \/ (cell[c.to].val # NULL))
    /\ UNCHANGED <<refs, existing, assignment, stage, ending, freed>>
-----------------------------------------------------------------------------
(***************************************************************************)
(* The steps.                                                              *)
(***************************************************************************)

\* The variable being reset: the one assigned to, or the one inside what is being
\* destroyed.
Innermost == ending[Len(ending)]
Slot == IF ending = <<>> THEN assignment.on ELSE Within(Innermost)

Do(what) == stage = what /\ ~freed
Go(next) ==
    /\ stage' = next
    /\ assignment' = IF next = "idle" THEN NoCall ELSE assignment
    /\ UNCHANGED <<leaked, freed>>

\* reset(): what the value owns goes first.
StepReset ==
    /\ Do("reset")
    /\ LET own == cell[Slot].val
           last == \/ cell[Slot].type = "ref" /\ own # NULL /\ refs[own] = 1
                   \/ cell[Slot].type = "var" /\ own # NULL
       IN  /\ refs' = IF cell[Slot].type = "ref" /\ own # NULL
                      THEN [refs EXCEPT ![own] = @ - 1] ELSE refs
           /\ ending' = IF last THEN Append(ending, own) ELSE ending
           /\ Go(IF last THEN "reset" ELSE "blank")
    /\ UNCHANGED <<cell, existing>>

\* The value is none; what it was in is freed.
StepBlank ==
    /\ Do("blank")
    /\ cell' = [cell EXCEPT ![Slot] = None]
    /\ Go(IF ending # <<>> THEN "free" ELSE IF assignment.op = "reset" THEN "idle" ELSE assignment.op)
    /\ UNCHANGED <<refs, existing, ending>>

StepFree ==
    /\ Do("free")
    /\ existing' = existing \ {Innermost}
    /\ ending' = SubSeq(ending, 1, Len(ending) - 1)
    /\ Go("blank")
    /\ UNCHANGED <<cell, refs>>

StepPut ==
    /\ Do("put")
    /\ cell' = [cell EXCEPT ![assignment.on] = assignment.put]
    /\ Go("idle")
    /\ UNCHANGED <<refs, existing, ending>>

\* Mutant: the box of a kVar is shared.
StepCopyShares ==
    /\ Do("copy") /\ assignment.from \in Present
    /\ cell' = [cell EXCEPT ![assignment.on] = cell[assignment.from]]
    /\ refs' = Counted(cell[assignment.from])
    /\ Go("idle")
    /\ UNCHANGED <<existing, ending>>

\* copy(): a kVar is copied into a box of its own.
StepCopy ==
    /\ Do("copy") /\ assignment.from \in Present
    /\ LET value == cell[assignment.from]
       IN  \/ /\ value.type = "var" /\ value.val # NULL
              /\ \E b \in Boxes \ existing :
                    /\ existing' = existing \cup {b}
                    /\ cell' = [cell EXCEPT ![assignment.on] = Var(b), ![b] = cell[value.val]]
              /\ refs' = Counted(cell[value.val])
           \/ /\ value.type # "var" \/ value.val = NULL
              /\ cell' = [cell EXCEPT ![assignment.on] = value]
              /\ refs' = Counted(value)
              /\ UNCHANGED existing
    /\ Go("idle")
    /\ UNCHANGED ending

StepCopyFreed ==
    /\ freed \/ (Do("copy") /\ assignment.from \notin Present)
    /\ freed' = TRUE
    /\ UNCHANGED <<cell, refs, existing, assignment, stage, ending, leaked>>

Next ==
    \/ Do("idle") /\ \E c \in Writable : Reset(c) \/ AssignInt(c)
    \/ Do("idle") /\ \E c \in Writable, r \in Readable :
         AssignObject(c, r) \/ AssignBox(c, r) \/ CopyAssign(c, r) \/ MoveAssign(c, r)
    \/ StepReset \/ StepBlank \/ StepFree \/ StepPut \/ StepCopy \/ StepCopyFreed

Spec == Init /\ [][Next]_valueVars
-----------------------------------------------------------------------------
Holders(x) == {c \in Present : cell[c].val = x}

TypeOK ==
    /\ \A c \in Cells : cell[c] \in {None, Number} \cup {Ref(o) : o \in Objects \cup {NULL}}
                                                \cup {Var(b) : b \in Boxes \cup {NULL}}
    /\ refs \in [Objects -> Nat]
    /\ existing \subseteq Objects \cup Boxes
    /\ leaked \in BOOLEAN /\ freed \in BOOLEAN

\* Between calls every object and box a variable names exists, no count is below
\* the number of variables that refer to the object and no box has two owners;
\* unless a move has overwritten a value, the counts are exact and every box has
\* its owner.
VariablesBalanced ==
    stage = "idle" =>
        /\ \A c \in Present : cell[c].val \in existing \cup {NULL}
        /\ \A o \in existing \cap Objects :
             LET n == Cardinality(Holders(o))
             IN  refs[o] >= n /\ refs[o] > 0 /\ (leaked \/ refs[o] = n)
        /\ \A b \in existing \cap Boxes :
             LET n == Cardinality(Holders(b))
             IN  n <= 1 /\ (leaked \/ n = 1)

\* A value is read after it was freed only when the program came to it through the
\* variable assigned to (v = *get<Variable>(v), v = a property of v's object or of
\* an object that one refers to).
FreedOnlyThroughTarget ==
    stage = "copy" /\ assignment.from \notin Present => assignment.on \in assignment.toFrom
=============================================================================
