--------------------------- MODULE ExtraDataList ---------------------------
(***************************************************************************)
(* ExtraDataList and the BaseExtraList inside it                           *)
(* (RE/Bethesda/BSExtraData.h): a singly linked list of extras with a      *)
(* pointer to the link the next one goes into, and a bit per type.  The    *)
(* shared mutex extraRWLock (see SharedMutex) keeps writers alone, so      *)
(* AddExtra and RemoveExtra, which call nobody, are one step each;         *)
(* readers may walk the list side by side and take a step per element.     *)
(***************************************************************************)
EXTENDS Naturals, FiniteSets

CONSTANTS
    Threads,
    Extras,
    TypeOf,         \* GetExtraType()
    HighUse,        \* the types IsHighUseExtra singles out
    RemoveLast,     \* whether callers remove the last extra of the list
    Nil,            \* a null pointer
    Head            \* _tail == &_head; any other _tail is an extra's link

Types == {TypeOf[e] : e \in Extras}

ASSUME ExtraDataListAssumption ==
    /\ IsFiniteSet(Extras)
    /\ HighUse \subseteq Types
    /\ RemoveLast \in BOOLEAN
    /\ Nil \notin Extras /\ Head \notin Extras \cup {Nil}

VARIABLES
    head,       \* _head
    tail,       \* _tail
    next,       \* next[e]: e's next
    flags,      \* _flags: the types whose bit is set
    status,     \* status[e]: "ready" to be added, "given" to the list or
                \* "out" of it again, in the hands of RemoveExtra's caller
    walk,       \* walk[t]: the type t looks for and the extra it looks at
    answer      \* answer[t]: what t's last GetByType returned

listVars == <<head, tail, next, flags, status>>
vars == <<listVars, walk, answer>>

NoWalk == [type |-> Nil, at |-> Nil]

-----------------------------------------------------------------------------
Init ==
    /\ head = Nil
    /\ tail = Head
    /\ next = [e \in Extras |-> Nil]
    /\ flags = {}
    /\ status = [e \in Extras |-> "ready"]
    /\ walk = [t \in Threads |-> NoWalk]
    /\ answer = [t \in Threads |-> Nil]

\* Mutant: the writers take a read lock.
ReadLocked == TRUE

\* BSAutoWriteLock: no reader is inside.
WriteLocked == \A t \in Threads : walk[t] = NoWalk

\* *_tail = link
StoreTail(link) ==
    /\ head' = IF tail = Head THEN link ELSE head
    /\ next' = IF tail = Head THEN next ELSE [next EXCEPT ![tail] = link]

LoadTail == IF tail = Head THEN head ELSE next[tail]

\* Mutant: the first extra of a list is not told apart.
AtEndByType(e) == TypeOf[e] \notin HighUse

\* Mutant: high-use extras are appended like any other.
AtEndAlways(e) == TRUE

AtEnd(e) == head = Nil \/ TypeOf[e] \notin HighUse

\* Mutant: the type is marked in one of the two branches only.
MarkAppended(e) == IF AtEnd(e) THEN flags \cup {TypeOf[e]} ELSE flags

Mark(e) == flags \cup {TypeOf[e]}

\* AddExtra: callers add an extra of a type the list does not have.
AddExtra(e) ==
    /\ WriteLocked
    /\ status[e] = "ready"
    /\ TypeOf[e] \notin flags
    /\ \/ AtEnd(e) /\ StoreTail(e) /\ tail' = e
       \/ /\ ~AtEnd(e)
          /\ next' = [next EXCEPT ![e] = head]
          /\ head' = e
          /\ UNCHANGED tail
    /\ flags' = Mark(e)
    /\ status' = [status EXCEPT ![e] = "given"]
    /\ UNCHANGED <<walk, answer>>

\* The extras a walk meets that starts with first: those in every set that first
\* is in and, with each extra, the one its link leads to.
Closed(links, S) == \A e \in S : links[e] \in S \cup {Nil}

Reach(links, first) ==
    {e \in Extras : \A S \in SUBSET Extras : first \in S \cup {Nil} /\ Closed(links, S) => e \in S}

Listed == Reach(next, head)

\* prev, null for the first extra.
Before(e) ==
    IF e = head THEN Nil ELSE CHOOSE p \in Listed : next[p] = e

\* Mutant: taking the first extra out resets _tail to null.
TailAfterNull(e) == IF Before(e) = Nil THEN Nil ELSE tail

\* if (!_tail || *_tail == iter), read once e is unlinked: the link before e
\* takes over.
TailAfter(e) ==
    IF (IF tail = Head THEN head' ELSE next'[tail]) # e THEN tail
    ELSE IF Before(e) = Nil THEN Head ELSE Before(e)

Unlink(e) ==
    IF Before(e) = Nil
    THEN head' = next[e] /\ UNCHANGED next
    ELSE next' = [next EXCEPT ![Before(e)] = next[e]] /\ UNCHANGED head

\* RemoveExtra of a type whose extra the walk finds; e keeps its own link.
\* When the walk finds none nothing changes.
RemoveExtra(e) ==
    /\ WriteLocked
    /\ RemoveLast \/ tail # e
    /\ TypeOf[e] \in flags
    /\ e \in Listed
    /\ Unlink(e)
    /\ tail' = TailAfter(e)
    /\ flags' = flags \ {TypeOf[e]}
    /\ status' = [status EXCEPT ![e] = "out"]
    /\ UNCHANGED <<walk, answer>>

\* The unique_ptr's owner destroys the extra and a new one is constructed, or
\* it clears the link to put the extra back.
Renew(e) ==
    /\ status[e] = "out"
    /\ next' = [next EXCEPT ![e] = Nil]
    /\ status' = [status EXCEPT ![e] = "ready"]
    /\ UNCHANGED <<head, tail, flags, walk, answer>>

-----------------------------------------------------------------------------
\* GetByType returns e and unlocks.
Answer(t, e) ==
    /\ answer' = [answer EXCEPT ![t] = e]
    /\ walk' = [walk EXCEPT ![t] = NoWalk]
    /\ UNCHANGED listVars

\* GetByType locks and tests the type's bit.
GetByType(t, type) ==
    /\ walk[t] = NoWalk
    /\ IF type \in flags
       THEN walk' = [walk EXCEPT ![t] = [type |-> type, at |-> head]]
            /\ UNCHANGED <<listVars, answer>>
       ELSE Answer(t, Nil)

\* One iteration of its loop.
Walk(t) ==
    /\ walk[t] # NoWalk
    /\ LET at == walk[t].at IN
       IF at = Nil THEN Answer(t, Nil)
       ELSE IF TypeOf[at] = walk[t].type THEN Answer(t, at)
       ELSE /\ walk' = [walk EXCEPT ![t].at = next[at]]
            /\ UNCHANGED <<listVars, answer>>

Next ==
    \/ \E e \in Extras : AddExtra(e) \/ RemoveExtra(e) \/ Renew(e)
    \/ \E t \in Threads : Walk(t) \/ \E type \in Types : GetByType(t, type)

Spec == Init /\ [][Next]_vars

-----------------------------------------------------------------------------
TypeOK ==
    /\ head \in Extras \cup {Nil}
    /\ tail \in Extras \cup {Head}
    /\ next \in [Extras -> Extras \cup {Nil}]
    /\ flags \subseteq Types
    /\ status \in [Extras -> {"ready", "given", "out"}]
    /\ walk \in [Threads -> [type : Types \cup {Nil}, at : Extras \cup {Nil}]]
    /\ answer \in [Threads -> Extras \cup {Nil}]

\* _tail is the link the list ends in: the next extra that is appended gets
\* linked.  The list is null-terminated, so no walk runs for ever.
TailEndsList ==
    /\ LoadTail = Nil
    /\ IF head = Nil THEN tail = Head ELSE tail \in Listed

\* The bits and the list agree: a type is marked exactly when one extra of it
\* is linked, so that HasType and GetByType never contradict one another.
FlagsExact ==
    /\ flags = {TypeOf[e] : e \in Listed}
    /\ \A e, f \in Listed : TypeOf[e] = TypeOf[f] => e = f

\* Extras of a high-use type come before all others, whatever the order they
\* were added and removed in: that is what AddExtra tells them apart for.
HighUseFirst ==
    \A e \in Listed : next[e] # Nil /\ TypeOf[next[e]] \in HighUse => TypeOf[e] \in HighUse

\* assert(a_extra->next == nullptr): an extra its caller has ready for the
\* list is unlinked when AddExtra receives it.
AddedUnlinked == \A e \in Extras : status[e] = "ready" => next[e] = Nil

Map == INSTANCE ExtraMap WITH present <- {e \in Extras : status[e] = "given"}

\* Whoever gives an extra to the list finds it there by its type until it is
\* removed, and a reader that walks the list step by step gets the answer of
\* one moment.
ImplementsMap == Map!MapSpec
=============================================================================
