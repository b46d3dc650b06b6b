--------------------------- MODULE RecursiveMutex ---------------------------
(***************************************************************************)
(* What BSSpinLock (RE/Bethesda/BSLock.h) promises its callers: a mutex a  *)
(* thread may take again while it holds it, free once every lock() has     *)
(* been answered by an unlock().  The event sources assume this and no     *)
(* more of the lock they embed.                                            *)
(***************************************************************************)
EXTENDS Naturals

CONSTANTS
    Threads,    \* the threads that use the mutex
    NoThread,   \* the owner of a free mutex (thread id 0 in the code)
    MaxDepth    \* bound on how deep one thread nests its lock scopes

VARIABLES
    holder,     \* the thread inside, or NoThread
    nesting     \* how many scopes the holder has open

mutexVars == <<holder, nesting>>

MutexInit ==
    /\ holder = NoThread
    /\ nesting = 0

Acquire(t) ==
    /\ holder \in {NoThread, t}
    /\ nesting < MaxDepth
    /\ holder' = t
    /\ nesting' = nesting + 1

Release(t) ==
    /\ holder = t
    /\ nesting' = nesting - 1
    /\ holder' = IF nesting = 1 THEN NoThread ELSE t

MutexNext == \E t \in Threads : Acquire(t) \/ Release(t)

MutexSpec == MutexInit /\ [][MutexNext]_mutexVars
=============================================================================
