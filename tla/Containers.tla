----------------------------- MODULE Containers -----------------------------
(***************************************************************************)
(* The containers that one thread uses at a time, and the address library. *)
(* They share no state; a behaviour is about the one its initial state     *)
(* chooses, the variables of the others keep the value Unused.             *)
(***************************************************************************)
EXTENDS Array, FiniteSets

CONSTANTS
    Lists, Nodes, Zero, NULL,           \* of SimpleList
    Pages, Hole, PageSize,              \* of ObjectArena
    Ids, Offsets, MaxEntries, Failed,   \* of AddressLibrary
    Tables, Keys, Hash, MinSize, MaxCapacity, Vacant, Sentinel, NoSlot, \* of ScatterTable
    Unused

VARIABLES
    subject,
    heap, crashed,
    pages, next, buffer, head, tail, free, nextAt, first, last, size, clearing,
    runtime, declared, mapping, loaded,
    table, cursor, visited, failed

lists == <<heap, crashed>>
arenas == <<pages, next, buffer, head, tail, free, nextAt, first, last, size, clearing>>
libraries == <<runtime, declared, mapping, loaded>>
tables == <<table, cursor, visited, failed>>
vars == <<subject, arrayVars, lists, arenas, libraries, tables>>

List == INSTANCE SimpleList
Arena == INSTANCE ObjectArena WITH N <- PageSize
Library == INSTANCE AddressLibrary
Table == INSTANCE ScatterTable

\* Memory is finite, a null pointer is no address, a place of an arena where
\* nothing is stored and a falsy value are none of the values.
ASSUME ListAssumption == IsFiniteSet(Nodes) /\ NULL \notin Nodes /\ Zero \notin Values
ASSUME ArenaAssumption ==
    IsFiniteSet(Pages) /\ NULL \notin Pages /\ Hole \notin Values /\ PageSize \in Nat \ {0}
ASSUME LibraryAssumption == Ids \subseteq Nat /\ Offsets \subseteq Nat /\ MaxEntries \in Nat
ASSUME TableAssumption == Table!ScatterTableAssumption

NoArrays == room = Unused /\ array = Unused
NoLists == heap = Unused /\ crashed = Unused
NoArenas ==
    /\ pages = Unused /\ next = Unused /\ buffer = Unused /\ head = Unused /\ tail = Unused
    /\ free = Unused /\ nextAt = Unused /\ first = Unused /\ last = Unused
    /\ size = Unused /\ clearing = Unused
NoLibraries == runtime = Unused /\ declared = Unused /\ mapping = Unused /\ loaded = Unused
NoTables == table = Unused /\ cursor = Unused /\ visited = Unused /\ failed = Unused

Init ==
    \/ subject = "array" /\ ArraysInit /\ NoLists /\ NoArenas /\ NoLibraries /\ NoTables
    \/ subject = "list" /\ List!Init /\ NoArrays /\ NoArenas /\ NoLibraries /\ NoTables
    \/ subject = "arena" /\ Arena!Init /\ NoArrays /\ NoLists /\ NoLibraries /\ NoTables
    \/ subject = "library" /\ Library!Init /\ NoArrays /\ NoLists /\ NoArenas /\ NoTables
    \/ subject = "table" /\ Table!Init /\ NoArrays /\ NoLists /\ NoArenas /\ NoLibraries

ArraysStep == subject = "array" /\ ArraysNext /\ UNCHANGED <<lists, arenas, libraries, tables>>
ListsStep == subject = "list" /\ List!Next /\ UNCHANGED <<arrayVars, arenas, libraries, tables>>
ArenasStep == subject = "arena" /\ Arena!Next /\ UNCHANGED <<arrayVars, lists, libraries, tables>>
LibrariesStep == subject = "library" /\ Library!Next /\ UNCHANGED <<arrayVars, lists, arenas, tables>>
TablesStep == subject = "table" /\ Table!Next /\ UNCHANGED <<arrayVars, lists, arenas, libraries>>

Next ==
    /\ ArraysStep \/ ListsStep \/ ArenasStep \/ LibrariesStep \/ TablesStep
    /\ UNCHANGED subject

Spec == Init /\ [][Next]_vars
-----------------------------------------------------------------------------
\* Whatever calls came before, every call of an array does to the elements what
\* its name says, but for the exceptions CallsAsSequences names, and the elements
\* are where there is room for them.
ArraysInOrder == subject = "array" => ElementsFit /\ CallsAsSequences

\* Whatever calls came before, every call does what its name says: lists behave
\* as sequences, a lookup answers what the address library says (the exceptions,
\* each a defect of the code, are those the modules name).
CallsDoAsNamed ==
    /\ subject = "list" => List!CallsAsSequences
    /\ subject = "library" => Library!LookupsExact

\* Whatever calls came before, the memory is kept in order: every node or page
\* is in one place of one list, the chains of a growing table are where their keys
\* hash to.
StorageHolds ==
    /\ subject = "list" => List!NodesOwned
    /\ subject = "arena" => Arena!PagesAccounted
    /\ subject = "table" => Table!ChainsHome /\ Table!FreeExact /\ Table!SweepNeverRevisits

\* An arena is a queue, clear() being one of its elements after the other.
ArenaImplementsQueue ==
    /\ subject = "arena" => Arena!Queue!Init
    /\ [][subject = "arena" => Arena!Queue!Next \/ UNCHANGED Arena!Elements]_vars

\* A growing table is a set of keys, also over rehashes and a caller's sweep.
TableImplementsSets ==
    /\ subject = "table" => Table!Sets!SetInit
    /\ [][subject = "table" => Table!Sets!SetNext \/ UNCHANGED [t \in Tables |-> Table!Found(table[t])]]_vars
=============================================================================
