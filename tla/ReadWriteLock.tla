--------------------------- MODULE ReadWriteLock ---------------------------
(***************************************************************************)
(* BSReadWriteLock and the BSAutoReadLock and BSAutoWriteLock scopes that  *)
(* drive it (RE/Bethesda/BSLock.h).  unlock_read() and unlock_write() are  *)
(* the library's own code, modelled one memory access per step; the four   *)
(* functions that take the lock are game code reached through              *)
(* REL::Relocation, modelled from the protocol the unlocks have to undo:   *)
(* a reader adds 1 to a word without the writer bit, a writer swaps 0 for  *)
(* the writer bit and a count of 1 and then publishes its id, and the      *)
(* writer itself only counts up, in either mode.                           *)
(***************************************************************************)
EXTENDS Naturals, Sequences, FiniteSets, SequencesExt

CONSTANTS
    Threads,    \* the threads that share the lock
    NoThread,   \* _writerThread == 0
    WriterBit,  \* 0x80000000: the writer's bit of _lock, above every count
    MaxDepth    \* bound on the scopes one thread has open at a time

ASSUME ReadWriteLockAssumption ==
    /\ NoThread \notin Threads
    /\ IsFiniteSet(Threads)
    /\ MaxDepth \in Nat \ {0}
    /\ WriterBit \in Nat /\ WriterBit > Cardinality(Threads) * MaxDepth

Modes == {"read", "write"}

VARIABLES
    writerThread,   \* _writerThread
    lock,           \* _lock
    scopes,         \* scopes[t]: the automatic locks t has alive, innermost last
    wanted,         \* wanted[t]: the mode of the lock function t is inside
    pc              \* pc[t]: where t is inside a lock or unlock function

vars == <<writerThread, lock, scopes, wanted, pc>>

-----------------------------------------------------------------------------
Init ==
    /\ writerThread = NoThread
    /\ lock = 0
    /\ scopes = [t \in Threads |-> <<>>]
    /\ wanted = [t \in Threads |-> "read"]
    /\ pc = [t \in Threads |-> "idle"]

Goto(t, label) == pc' = [pc EXCEPT ![t] = label]

Open(t, mode) == scopes' = [scopes EXCEPT ![t] = Append(@, mode)]

Close(t) == scopes' = [scopes EXCEPT ![t] = Front(@)]

\* Entry of the lock and try_lock functions: the caller looks for its own id.
Lock(t, mode) ==
    /\ pc[t] = "idle"
    /\ Len(scopes[t]) < MaxDepth
    /\ wanted' = [wanted EXCEPT ![t] = mode]
    /\ Goto(t, IF writerThread = t THEN "reenter" ELSE "spin")
    /\ UNCHANGED <<writerThread, lock, scopes>>

\* The writer re-enters: it only counts up.
Reenter(t) ==
    /\ pc[t] = "reenter"
    /\ lock' = lock + 1
    /\ Open(t, wanted[t])
    /\ Goto(t, "idle")
    /\ UNCHANGED <<writerThread, wanted>>

\* lock_read(): the compare-and-swap of a word without the writer bit.
SeizeRead(t) ==
    /\ pc[t] = "spin" /\ wanted[t] = "read"
    /\ lock < WriterBit
    /\ lock' = lock + 1
    /\ Open(t, "read")
    /\ Goto(t, "idle")
    /\ UNCHANGED <<writerThread, wanted>>

\* lock_write(): the compare-and-swap 0 -> 0x80000001 succeeds.
SeizeWrite(t) ==
    /\ pc[t] = "spin" /\ wanted[t] = "write"
    /\ lock = 0
    /\ lock' = WriterBit + 1
    /\ Goto(t, "publish")
    /\ UNCHANGED <<writerThread, scopes, wanted>>

Publish(t) ==
    /\ pc[t] = "publish"
    /\ writerThread' = t
    /\ Open(t, "write")
    /\ Goto(t, "idle")
    /\ UNCHANGED <<lock, wanted>>

\* The try_lock functions give up where the others would spin on.
GiveUp(t) ==
    /\ pc[t] = "spin"
    /\ IF wanted[t] = "read" THEN lock >= WriterBit ELSE lock # 0
    /\ Goto(t, "idle")
    /\ UNCHANGED <<writerThread, lock, scopes, wanted>>

\* t is about to destroy its innermost automatic lock, of this mode.
Leaving(t, mode) == pc[t] = "idle" /\ scopes[t] # <<>> /\ Last(scopes[t]) = mode

\* Mutant: the read lock is released as a write lock is, to zero.
UnlockReadFrees(t) ==
    /\ Leaving(t, "read")
    /\ lock' = 0
    /\ Close(t)
    /\ UNCHANGED <<writerThread, wanted, pc>>

\* unlock_read(): --lock.
UnlockRead(t) ==
    /\ Leaving(t, "read")
    /\ lock' = lock - 1
    /\ Close(t)
    /\ UNCHANGED <<writerThread, wanted, pc>>

\* Mutant: unlock_write() does not look at the count.
UnlockWriteUntested(t) ==
    /\ Leaving(t, "write")
    /\ Goto(t, "disown")
    /\ UNCHANGED <<writerThread, lock, scopes, wanted>>

\* unlock_write(): the load of the word decides between the two branches.
UnlockWriteTest(t) ==
    /\ Leaving(t, "write")
    /\ Goto(t, IF lock = WriterBit + 1 THEN "disown" ELSE "countdown")
    /\ UNCHANGED <<writerThread, lock, scopes, wanted>>

Disown(t) ==
    /\ pc[t] = "disown"
    /\ writerThread' = NoThread
    /\ Goto(t, "free")
    /\ UNCHANGED <<lock, scopes, wanted>>

\* Mutant: the last unlock_write() counts down and leaves the writer bit set.
FreeKeepsBit(t) ==
    /\ pc[t] = "free"
    /\ lock' = lock - 1
    /\ Close(t)
    /\ Goto(t, "idle")
    /\ UNCHANGED <<writerThread, wanted>>

\* lock.exchange(0).
Free(t) ==
    /\ pc[t] = "free"
    /\ lock' = 0
    /\ Close(t)
    /\ Goto(t, "idle")
    /\ UNCHANGED <<writerThread, wanted>>

CountDown(t) ==
    /\ pc[t] = "countdown"
    /\ lock' = lock - 1
    /\ Close(t)
    /\ Goto(t, "idle")
    /\ UNCHANGED <<writerThread, wanted>>

Take(t) ==
    \/ \E mode \in Modes : Lock(t, mode)
    \/ Reenter(t) \/ SeizeRead(t) \/ SeizeWrite(t) \/ Publish(t) \/ GiveUp(t)

\* Mutant: the last unlock_write() frees the word first and disowns afterwards.
StepFreesFirst(t) ==
    \/ Take(t) \/ UnlockRead(t) \/ UnlockWriteTest(t) \/ CountDown(t)
    \/ /\ pc[t] = "disown" /\ lock' = 0 /\ Goto(t, "free")
       /\ UNCHANGED <<writerThread, scopes, wanted>>
    \/ /\ pc[t] = "free" /\ writerThread' = NoThread /\ Close(t) /\ Goto(t, "idle")
       /\ UNCHANGED <<lock, wanted>>

Step(t) ==
    \/ Take(t)
    \/ UnlockRead(t) \/ UnlockWriteTest(t) \/ Disown(t) \/ Free(t) \/ CountDown(t)

Next == \E t \in Threads : Step(t)

Spec == Init /\ [][Next]_vars

-----------------------------------------------------------------------------
Labels == {"idle", "reenter", "spin", "publish", "disown", "free", "countdown"}

\* Types; in particular no unlock takes the word below zero.
TypeOK ==
    /\ writerThread \in Threads \cup {NoThread}
    /\ lock \in Nat
    /\ scopes \in [Threads -> Seq(Modes)]
    /\ \A t \in Threads : Len(scopes[t]) <= MaxDepth
    /\ wanted \in [Threads -> Modes]
    /\ pc \in [Threads -> Labels]

Writing(t) == \E i \in 1..Len(scopes[t]) : scopes[t][i] = "write"

\* A thread that has a write scope open is alone inside the lock, whatever
\* mixture of scopes it opens and closes meanwhile.
WriterAlone ==
    \A t, u \in Threads : Writing(t) /\ scopes[u] # <<>> => t = u

\* The writer never spins on its own lock: the unlock_write() of an earlier
\* writer cannot erase a later writer's id.
WriterReenters == \A t \in Threads : Writing(t) => pc[t] # "spin"

OpenScopes == {s \in Threads \X (1..MaxDepth) : s[2] <= Len(scopes[s[1]])}

\* The word is exact: as many as there are open scopes, plus the writer bit
\* while one of them is, or is about to be, a write scope.  Nothing is left
\* of a lock that everyone has left, so nobody is shut out for ever.
WordExact ==
    LET entering == {t \in Threads : pc[t] = "publish"}
        writing == {t \in Threads : Writing(t)} \cup entering
    IN lock = Cardinality(OpenScopes) + Cardinality(entering)
                  + (IF writing = {} THEN 0 ELSE WriterBit)

Shared == INSTANCE SharedMutex WITH open <- scopes

\* Seen through the scopes they open and close, the callers of the six
\* functions behave as callers of one shared mutex.
ImplementsShared == Shared!SharedSpec
=============================================================================
