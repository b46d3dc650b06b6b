------------------------------ MODULE RefWords -------------------------------
(***************************************************************************)
(* Reference counts packed into a word with other fields and changed by    *)
(* compare-and-swap loops: hkReferencedObject (count and memory size; the  *)
(* count sticks at its limit, memory size 0 means not counted), the        *)
(* entries of the string pool (count and flags; the count sticks at its    *)
(* limit) and BSResource::StreamBase (count and flags, which Stream::Open  *)
(* changes in the same word).  A loop reads the word in one step and swaps *)
(* it in another.  Threads drop only references they have, and add one     *)
(* only to an object they have a reference to.                             *)
(***************************************************************************)
EXTENDS Naturals, FiniteSets

CONSTANTS
    Threads,
    Objects,
    NULL,
    CountMax,   \* CountMax[k]: the largest count the field of a kind k holds
    MaxHeld,    \* bound: references one thread has to one object
    Weightless  \* the objects that, as Havok objects, have memory size 0

Kinds == {"havok", "string", "stream"}

\* The fields have room for the first references and, where no limit makes the
\* count stick, for all there may ever be.
ConstantsFit ==
    /\ IsFiniteSet(Threads) /\ NULL \notin Objects
    /\ MaxHeld \in Nat \ {0}
    /\ CountMax \in [Kinds -> Nat]
    /\ \A k \in Kinds : Cardinality(Threads) <= CountMax[k]
    /\ Cardinality(Threads) * MaxHeld <= CountMax["stream"]
    /\ Weightless \subseteq Objects

VARIABLES
    kind,       \* what the objects are
    word,       \* the packed word of each object
    living,     \* the objects that exist
    held,       \* held[t][o]: the references t has to o
    loop,       \* the loop each thread is in: what for, on which object, what it read
    opened,     \* the stream the static atomic_ref of Stream::Open is bound to
    wild        \* the word of a destroyed stream was swapped

refVars == <<kind, word, living, held, loop, opened, wild>>

Uncounted(k) == IF k = "havok" THEN Weightless ELSE {}

NoLoop == [op |-> "none", on |-> NULL, read |-> NULL]

\* Each thread starts with a reference to every object.
Init ==
    /\ kind \in Kinds
    /\ word = [o \in Objects |-> [count |-> IF o \in Uncounted(kind) THEN 0 ELSE Cardinality(Threads),
                                  rest |-> IF o \in Uncounted(kind) THEN "zero" ELSE "plain"]]
    /\ living = Objects
    /\ held = [t \in Threads |-> [o \in Objects |-> 1]]
    /\ loop = [t \in Threads |-> NoLoop]
    /\ opened = NULL
    /\ wild = FALSE
-----------------------------------------------------------------------------
\* The words a loop returns on without a swap.
LeftAlone(k, op, w) ==
    CASE k = "havok" -> w.rest = "zero" \/ w.count = CountMax[k] \/ (op = "remove" /\ w.count = 0)
      [] k = "string" -> w.count >= CountMax[k]
      [] k = "stream" -> FALSE

Width(k) == CountMax[k] + 1

\* The word a loop swaps in for the one it read.
Swapped(k, op, w) ==
    CASE op = "add" -> [w EXCEPT !.count = (@ + 1) % Width(k)]
      [] op = "remove" -> [w EXCEPT !.count = (@ + CountMax[k]) % Width(k)]
      [] op = "open" -> [w EXCEPT !.rest = "marked"]

\* The object a loop reads, and the one it swaps.
Reads(t) == loop[t].on
Swaps(t) == IF loop[t].op = "open" THEN opened ELSE loop[t].on

Enter(t, op, o) ==
    /\ loop[t] = NoLoop /\ ~wild
    /\ loop' = [loop EXCEPT ![t] = [op |-> op, on |-> o, read |-> NULL]]
    /\ UNCHANGED <<kind, word, living, wild>>

\* AddReference, acquire, IncRef.
Add(t, o) ==
    /\ held[t][o] \in 1..(MaxHeld - 1)
    /\ Enter(t, "add", o)
    /\ UNCHANGED <<held, opened>>

\* RemoveReference, release, DecRef: the reference is not used any more.
Remove(t, o) ==
    /\ held[t][o] > 0
    /\ Enter(t, "remove", o)
    /\ held' = [held EXCEPT ![t][o] = @ - 1]
    /\ UNCHANGED opened

\* Stream::Open: the first call ever binds the static reference.
Open(t, o) ==
    /\ kind = "stream" /\ held[t][o] > 0
    /\ Enter(t, "open", o)
    /\ opened' = IF opened = NULL THEN o ELSE opened
    /\ UNCHANGED held

\* A reference that a loop which leaves the word alone still hands to its caller.
Gains(t) == IF loop[t].op = "add" THEN [held EXCEPT ![t][loop[t].on] = @ + 1] ELSE held

Read(t) ==
    /\ loop[t].on # NULL /\ loop[t].read = NULL /\ ~wild
    /\ LET w == word[Reads(t)]
       IN  IF loop[t].op # "open" /\ LeftAlone(kind, loop[t].op, w)
           THEN loop' = [loop EXCEPT ![t] = NoLoop] /\ held' = Gains(t)
           ELSE loop' = [loop EXCEPT ![t].read = w] /\ UNCHANGED held
    /\ UNCHANGED <<kind, word, living, opened, wild>>

\* Mutant: the word is stored without a comparison.
SwapBlindly(t) ==
    /\ loop[t].read # NULL /\ ~wild
    /\ Swaps(t) \in living
    /\ word' = [word EXCEPT ![Swaps(t)] = Swapped(kind, loop[t].op, loop[t].read)]
    /\ living' = IF loop[t].op = "remove" /\ word'[Swaps(t)].count = 0
                 THEN living \ {Swaps(t)} ELSE living
    /\ held' = Gains(t)
    /\ loop' = [loop EXCEPT ![t] = NoLoop]
    /\ UNCHANGED <<kind, opened, wild>>

\* The swap that succeeds; the one that takes the last reference destroys the
\* object.
Swap(t) ==
    /\ loop[t].read # NULL /\ ~wild
    /\ Swaps(t) \in living
    /\ word[Swaps(t)] = loop[t].read
    /\ word' = [word EXCEPT ![Swaps(t)] = Swapped(kind, loop[t].op, loop[t].read)]
    /\ living' = IF loop[t].op = "remove" /\ word'[Swaps(t)].count = 0
                 THEN living \ {Swaps(t)} ELSE living
    /\ held' = Gains(t)
    /\ loop' = [loop EXCEPT ![t] = NoLoop]
    /\ UNCHANGED <<kind, opened, wild>>

\* The swap that fails: the word is read again.
Retry(t) ==
    /\ loop[t].read # NULL /\ ~wild
    /\ Swaps(t) \in living
    /\ word[Swaps(t)] # loop[t].read
    /\ loop' = [loop EXCEPT ![t].read = NULL]
    /\ UNCHANGED <<kind, word, living, held, opened, wild>>

\* The swap of a word in freed memory.
SwapFreed(t) ==
    /\ wild \/ (loop[t].read # NULL /\ Swaps(t) \notin living)
    /\ wild' = TRUE
    /\ UNCHANGED <<kind, word, living, held, loop, opened>>

Next ==
    \E t \in Threads :
        \/ \E o \in Objects : Add(t, o) \/ Remove(t, o) \/ Open(t, o)
        \/ Read(t) \/ Swap(t) \/ Retry(t) \/ SwapFreed(t)

Spec == Init /\ [][Next]_refVars
-----------------------------------------------------------------------------
Leaving(o) == {t \in Threads : loop[t].op = "remove" /\ loop[t].on = o}

\* The references to an object: those a thread has, numbered, and the one it is
\* dropping, its number 0.
Refs(o) ==
    {r \in Threads \X (0..MaxHeld) :
        IF r[2] = 0 THEN r[1] \in Leaving(o) ELSE r[2] <= held[r[1]][o]}

References(o) == Cardinality(Refs(o))

Stuck(o) == kind # "stream" /\ word[o].count = CountMax[kind]

TypeOK ==
    /\ kind \in Kinds
    /\ \A o \in Objects : word[o].count \in 0..CountMax[kind]
    /\ living \subseteq Objects
    /\ \A t \in Threads, o \in Objects : held[t][o] \in 0..MaxHeld
    /\ opened \in Objects \cup {NULL} /\ wild \in BOOLEAN

\* The count of an object that is counted and not stuck is the number of
\* references there are.
CountsReferences ==
    \A o \in living \ Uncounted(kind) : Stuck(o) \/ word[o].count = References(o)

\* An object is destroyed with its last reference, and no loop finds it gone
\* but one that opens another stream.
OutlivesReferences ==
    /\ \A o \in Objects \ living : References(o) = 0
    /\ \A t \in Threads : loop[t].on # NULL /\ Swaps(t) \notin living => loop[t].on # opened
=============================================================================
