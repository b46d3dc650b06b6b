------------------------------ MODULE SpinLock ------------------------------
(***************************************************************************)
(* BSSpinLock and the BSAutoLock scopes that drive it                      *)
(* (RE/Bethesda/BSLock.h).  unlock() is the library's own code and is      *)
(* modelled one memory access per step; lock() and try_lock() are game     *)
(* functions reached through REL::Relocation and are modelled from the     *)
(* protocol unlock() has to undo: compare-and-swap the count from 0, then  *)
(* publish the owner; a thread that reads its own id only counts up.       *)
(***************************************************************************)
EXTENDS Naturals, FiniteSets

CONSTANTS
    Threads,    \* the threads that share the lock
    NoThread,   \* _owningThread == 0
    MaxDepth    \* bound on the scopes one thread has open at a time

ASSUME SpinLockAssumption ==
    /\ NoThread \notin Threads
    /\ MaxDepth \in Nat \ {0}

VARIABLES
    owningThread,   \* _owningThread
    lockCount,      \* _lockCount
    scopes,         \* scopes[t]: the BSAutoLock objects t has alive
    pc              \* pc[t]: where t is inside lock() or unlock()

vars == <<owningThread, lockCount, scopes, pc>>

-----------------------------------------------------------------------------
Init ==
    /\ owningThread = NoThread
    /\ lockCount = 0
    /\ scopes = [t \in Threads |-> 0]
    /\ pc = [t \in Threads |-> "idle"]

Goto(t, label) == pc' = [pc EXCEPT ![t] = label]

\* Entry of lock() and try_lock(): the caller looks for its own id.
Lock(t) ==
    /\ pc[t] = "idle"
    /\ scopes[t] < MaxDepth
    /\ Goto(t, IF owningThread = t THEN "reenter" ELSE "spin")
    /\ UNCHANGED <<owningThread, lockCount, scopes>>

\* The owner re-enters: it only counts up.
Reenter(t) ==
    /\ pc[t] = "reenter"
    /\ lockCount' = lockCount + 1
    /\ scopes' = [scopes EXCEPT ![t] = @ + 1]
    /\ Goto(t, "idle")
    /\ UNCHANGED owningThread

\* The compare-and-swap 0 -> 1 succeeds.
Seize(t) ==
    /\ pc[t] = "spin"
    /\ lockCount = 0
    /\ lockCount' = 1
    /\ Goto(t, "publish")
    /\ UNCHANGED <<owningThread, scopes>>

\* try_lock() gives up where lock() would spin on.
GiveUp(t) ==
    /\ pc[t] = "spin"
    /\ lockCount # 0
    /\ Goto(t, "idle")
    /\ UNCHANGED <<owningThread, lockCount, scopes>>

Publish(t) ==
    /\ pc[t] = "publish"
    /\ owningThread' = t
    /\ scopes' = [scopes EXCEPT ![t] = @ + 1]
    /\ Goto(t, "idle")
    /\ UNCHANGED lockCount

\* unlock(): the load of the count decides between the two branches.
UnlockTest(t) ==
    /\ pc[t] = "idle"
    /\ scopes[t] > 0
    /\ Goto(t, IF lockCount = 1 THEN "disown" ELSE "countdown")
    /\ UNCHANGED <<owningThread, lockCount, scopes>>

Disown(t) ==
    /\ pc[t] = "disown"
    /\ owningThread' = NoThread
    /\ Goto(t, "free")
    /\ UNCHANGED <<lockCount, scopes>>

\* Mutant: unlock() runs into the --lockCount of the other branch.
FreeFallsThrough(t) ==
    /\ pc[t] = "free"
    /\ lockCount' = (IF lockCount = 1 THEN 0 ELSE lockCount) - 1
    /\ scopes' = [scopes EXCEPT ![t] = @ - 1]
    /\ Goto(t, "idle")
    /\ UNCHANGED owningThread

\* compare_exchange_strong(1, 0); its result is ignored.
FreeCount(t) ==
    /\ pc[t] = "free"
    /\ lockCount' = IF lockCount = 1 THEN 0 ELSE lockCount
    /\ scopes' = [scopes EXCEPT ![t] = @ - 1]
    /\ Goto(t, "idle")
    /\ UNCHANGED owningThread

\* Mutant: an inner unlock() that stores 0 instead of decrementing.
CountDownToZero(t) ==
    /\ pc[t] = "countdown"
    /\ lockCount' = 0
    /\ scopes' = [scopes EXCEPT ![t] = @ - 1]
    /\ Goto(t, "idle")
    /\ UNCHANGED owningThread

CountDown(t) ==
    /\ pc[t] = "countdown"
    /\ lockCount' = lockCount - 1
    /\ scopes' = [scopes EXCEPT ![t] = @ - 1]
    /\ Goto(t, "idle")
    /\ UNCHANGED owningThread

\* Mutant: the last unlock() frees the count first and disowns afterwards.
StepFreesFirst(t) ==
    \/ Lock(t) \/ Reenter(t) \/ Seize(t) \/ GiveUp(t) \/ Publish(t)
    \/ UnlockTest(t) \/ CountDown(t)
    \/ /\ pc[t] = "disown" /\ lockCount' = 0 /\ Goto(t, "free")
       /\ UNCHANGED <<owningThread, scopes>>
    \/ /\ pc[t] = "free" /\ owningThread' = NoThread /\ Goto(t, "idle")
       /\ scopes' = [scopes EXCEPT ![t] = @ - 1]
       /\ UNCHANGED lockCount

Step(t) ==
    \/ Lock(t) \/ Reenter(t) \/ Seize(t) \/ GiveUp(t) \/ Publish(t)
    \/ UnlockTest(t) \/ Disown(t) \/ FreeCount(t) \/ CountDown(t)

Next == \E t \in Threads : Step(t)

Spec == Init /\ [][Next]_vars

-----------------------------------------------------------------------------
Labels == {"idle", "reenter", "spin", "publish", "disown", "free", "countdown"}

\* Types; in particular no unlock() takes the count below zero.
TypeOK ==
    /\ owningThread \in Threads \cup {NoThread}
    /\ lockCount \in Nat
    /\ scopes \in [Threads -> 0..MaxDepth]
    /\ pc \in [Threads -> Labels]

\* Two threads never have a scope on the same lock at once: unlock() disowns
\* the lock before it frees it, so the next owner is never overwritten.
MutualExclusion ==
    \A t, u \in Threads : scopes[t] > 0 /\ scopes[u] > 0 => t = u

\* A thread that has a scope open never spins on the lock it holds: the
\* unlock() of an earlier owner cannot erase a later owner's id.
NoSelfDeadlock ==
    \A t \in Threads : pc[t] = "spin" => scopes[t] = 0

\* The count frees the lock exactly when the last scope closes: between
\* calls of the holder it equals the number of its open scopes, and a lock
\* nobody holds or is taking has count 0 and no owner.  No unlock() takes it
\* below zero (TypeOK).
CountMatchesScopes ==
    /\ TypeOK
    /\ \A t \in Threads : scopes[t] > 0 => lockCount = scopes[t]
    /\ (\A t \in Threads : scopes[t] = 0 /\ pc[t] # "publish")
           => lockCount = 0 /\ owningThread = NoThread

\* The refinement: the lock with its intermediate steps is a recursive mutex.
Holding == {t \in Threads : scopes[t] > 0}
Holder == IF Holding = {} THEN NoThread ELSE CHOOSE t \in Threads : scopes[t] > 0
Nesting == IF Holding = {} THEN 0 ELSE scopes[Holder]

Mutex == INSTANCE RecursiveMutex WITH holder <- Holder, nesting <- Nesting

\* Seen through the scopes they open and close, concurrent callers of lock(),
\* try_lock() and unlock() behave as callers of one recursive mutex.
ImplementsMutex == Mutex!MutexSpec
=============================================================================
