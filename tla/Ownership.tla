----------------------------- MODULE Ownership ------------------------------
(***************************************************************************)
(* The parts of the library that own things by counting: smart pointers,   *)
(* counts packed into words, and Papyrus values.  They share no state, so  *)
(* a behaviour is about one of them, which its initial state chooses; the  *)
(* variables of the others keep the value Unused.                          *)
(***************************************************************************)
EXTENDS SmartPointers

CONSTANTS
    CountMax, MaxHeld, Weightless,          \* of RefWords
    ScriptLocals, ScriptObjects, Boxes,     \* of ScriptVariables
    Unused

VARIABLES
    subject,
    kind, word, living, held, loop, opened, wild,
    cell, refs, existing, assignment, stage, ending, leaked, freed

wordVars == <<kind, word, living, held, loop, opened, wild>>
cellVars == <<cell, refs, existing, assignment, stage, ending, leaked, freed>>
vars == <<subject, ptrVars, wordVars, cellVars>>

Words == INSTANCE RefWords
Values == INSTANCE ScriptVariables WITH Locals <- ScriptLocals, Objects <- ScriptObjects

ASSUME OwnershipAssumption == ConstantsFit /\ Words!ConstantsFit /\ Values!ConstantsFit

NoPointers ==
    /\ library = Unused /\ ptr = Unused /\ count = Unused /\ alive = Unused /\ made = Unused
    /\ call = Unused /\ at = Unused /\ dying = Unused /\ sum = Unused /\ undefined = Unused
NoWords ==
    /\ kind = Unused /\ word = Unused /\ living = Unused /\ held = Unused
    /\ loop = Unused /\ opened = Unused /\ wild = Unused
NoValues ==
    /\ cell = Unused /\ refs = Unused /\ existing = Unused /\ assignment = Unused
    /\ stage = Unused /\ ending = Unused /\ leaked = Unused /\ freed = Unused

Init ==
    \/ subject = "pointers" /\ PointersInit /\ NoWords /\ NoValues
    \/ subject = "words" /\ Words!Init /\ NoPointers /\ NoValues
    \/ subject = "values" /\ Values!Init /\ NoPointers /\ NoWords

PointersStep == subject = "pointers" /\ PointersNext /\ UNCHANGED <<wordVars, cellVars>>
WordsStep == subject = "words" /\ Words!Next /\ UNCHANGED <<ptrVars, cellVars>>
ValuesStep == subject = "values" /\ Values!Next /\ UNCHANGED <<ptrVars, wordVars>>

Next == (PointersStep \/ WordsStep \/ ValuesStep) /\ UNCHANGED subject

Spec == Init /\ [][Next]_vars
-----------------------------------------------------------------------------
\* The types, and the counts: the one of a smart pointer's object, a Havok object,
\* a string or a stream is the number of references there are, through every
\* interleaving of the threads that raise and drop it (one that stuck at its limit
\* excepted).
CountsExact ==
    /\ subject = "pointers" => PointersTyped /\ PointersCounted
    /\ subject = "words" => Words!TypeOK /\ Words!CountsReferences

\* Every object is destroyed with its last reference: not before, not twice, and
\* never left behind.
DiesWithLastReference ==
    /\ subject = "pointers" => LifetimeEndsWithPointers
    /\ subject = "words" => Words!OutlivesReferences

\* The pointers' operators touch memory that is gone only when a pointer is assigned
\* from one the caller reached through it, however far behind it: p = p->next,
\* p = p->next->next, a->next = a->next->next.
TouchesFreedOnlyThroughSelf == subject = "pointers" => UndefinedOnlyThroughSelf

\* Papyrus values own what they say they own, but for what a move overwrote, and
\* memory that is gone is read only when a variable is assigned from one the
\* program reached through it: v = *get<Variable>(v), v = a property of v's object
\* or of an object that one refers to.
VariablesBalanced ==
    subject = "values" =>
        Values!TypeOK /\ Values!VariablesBalanced /\ Values!FreedOnlyThroughTarget
=============================================================================
